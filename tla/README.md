# Verification of LocalAgentCLI

LocalAgentCLI is a terminal program that runs a coding agent on local or remote
models. This directory holds a TLA+ model of its core, from the shell prompt down
to the single tool call, and of the components around it (sessions on disk, undo,
context, MCP servers, models and providers, commands, the terminal), the TLC runs that check it on small instances, and
TLAPS proofs of what matters most for instances of every size. All paths below
are relative to `src/`; `PROJECT.json` maps each definition to source lines.

## 1. Inventory

| Component | Sources (`localagentcli/`) | State it keeps | Operations | Correct when |
|---|---|---|---|---|
| shell | `shell/ui.py` | prompt, drain, inline approval | plain text, approval prompt, Ctrl+C, errors | the prompt always comes back; a decision reaches the call it is about |
| session runtime | `runtime/session_runtime.py`, `runtime/protocol.py` | submission queue, current id and iterator, pending approval | submit, drain, resume approval, interrupt, shutdown | turns run in order and one at a time, each end is reported once, a pending approval is really pending |
| execution runtime | `runtime/core.py` | cached agent controller and its key | dispatch of agent and chat turns | no two tasks on one controller |
| agent controller | `agents/controller.py` | task state, active flags, pending tool | dispatch, record event, approve, stop, finish | one outcome per task; the state describes the task that runs |
| agent loop | `agents/loop.py`, `agents/recovery.py`, `agents/planner.py` | plan, retry counters, batch, stop flag, approval future | rounds, tool batches, approvals, retry, replan | tools run only when allowed, every call is answered, budgets hold, tasks end |
| safety policy | `safety/layer.py`, `exec_policy.py`, `posture.py`, `approval.py` | approval mode and its default | check and approve | see the loop |
| boundary | `safety/boundary.py`, `policy.py` | none | validate path, inspect command | nothing outside of the workspace is touched |
| guardian, triage | `guardian/reviewer.py`, `agents/triage.py` | none | one awaited answer | failure falls to the safe side |
| sub-agents | `agents/multi_agent.py`, `agent_path.py` | agents by path, a thread and a queue each, generations | spawn, send, wait, close, resume, shut down | every input is processed or the agent is closed; a closed agent stays closed |
| rollback | `safety/rollback.py` | undo log in memory and on disk, backups | record, undo | undoing all restores every file |
| persistence | `session/manager.py`, `store.py`, `sqlite_store.py`, `replay.py`, `runtime/event_log.py` | session, autosave timer, files | save, autosave, load, replay | a crash loses no completed turn and invents none |
| context | `session/compactor.py`, `memory.py`, `context_diff.py` | summaries, baselines | compact, estimate | pinned and recent messages survive, call and answer stay together |
| tools | `tools/*` | command process, captured output | run, patch, search | a timeout ends the command; a patch applies as a whole |
| MCP | `mcp/client.py` | server process, request ids, clients | request, elicit, restart | a caller gets the answer to its own request |
| models | `models/*` | registry, downloads, loaded model | install, detect, load, cancel | the registry lists what is installed |
| providers | `providers/*` | keys | one model round | wire formats |
| chat | `agents/chat.py` | streamed text | turn, compaction | a request stands for the whole conversation |
| backends | `models/abstraction.py`, `models/backends/*` | loaded model, worker thread, markup buffer | stream, normalize, cancel | a stream that ends by itself is complete; markup never shows |
| targets | `runtime/core.py`, `commands/set_cmd.py`, `providers/registry.py` | session target, default target, kept client and backend | choose, add, remove, resolve | a turn is answered by what the session names |
| rendering | `shell/streaming.py` | line under the cursor, details, open code fence | chunk, status, block, finalize | the answer is shown whole, the prompt gets a clean line |
| others | `config`, `storage`, `commands`, `features`, `skills`, `plugins` | files and tables | reading and printing | no behaviour of their own over time |

Interactions. The shell submits an operation and drains `aiter_events`, an async
generator over a generator over generators: `SessionRuntime.aiter_events` ->
`_arun_user_turn` -> `AgentController._events` -> `AgentLoop.arun` ->
`_arun_step_async` -> `_ahandle_tool_calls_async`. Everything runs on one event
loop; tools and blocking model calls run on threads that the generators await.
The controller records each event before the runtime relays it. An approval
suspends the whole stack: the runtime ends the submission but keeps the innermost
generator, and a later submission with the same id resumes it.

What is hard: the order of resumption and decision; state that outlives the
generator that set it (stop flag, pending approval, active flags); exceptions and
Ctrl+C that unwind several generators of which each only runs its `finally`;
retry, replanning and stop at any suspension; approval modes that change
while a batch is under way. Around the agent: a timer thread that saves a session the
main thread goes on using; crashes between any two writes; tool threads that share one
MCP pipe; a worker thread and the event loop that wait for each other; objects that are
kept (client, backend, controller, server processes) while what they stand for changes;
text that arrives in pieces cut at the worst place.

## 2. Modules

| Module | Models |
|---|---|
| `FailurePolicy` | failure classes, retry budgets, replanning policy (`agents/recovery.py`) |
| `SafetyPolicy` | `SafetyLayer.check_and_approve`, guardian routing, parallel eligibility |
| `AgentLoop` | `AgentLoop.arun` with everything below it, and, for use on its own, a consumer and a user |
| `AgentController` | the effects of the controller's operations on its state |
| `SessionRuntime` | the runtime and the shell, composed with controller and loop |
| `TurnLifecycle` | what the runtime promises of turns (abstract specification) |
| `SubAgents` | `MultiAgentManager`, the worker threads of its agents, and waiting for them |
| `AgentLoopProofs` | theorems about `AgentLoop` |
| `SubAgentsProofs` | theorems about `SubAgents` |
| `TurnLifecycleProofs` | theorems about `TurnLifecycle` |
| `SessionStore` | session in memory, autosave timer, JSON and SQLite stores, event log, replay, crashes and restarts |
| `Rollback` | backups, the undo log, the agent's manager and the one of `/agent undo` |
| `PatchApply` | a patch: what the agent read, the preview, the user's edit, parsing and applying |
| `ContextWindow` | history with compaction, instructions, pins, memory, reported usage, context diffs |
| `McpStdio` | the MCP client below the manager: a process and a pipe shared by threads, or one POST per request |
| `CommandRunner` | a command on a pseudo-terminal: poll, deadline, kill, second read, report |
| `ToolRuntime` | how the sandbox settings reach the router, the cached controller and the MCP servers |
| `ModelStore` | downloads, their cache, model directories, registry, removal |
| `Targets` | what a turn talks to, and the client and backend kept from turn to turn |
| `ProviderRequests` | requests answered as a whole: retries, two clients, closing |
| `RemoteStream` | one streamed answer in the three wire formats, broken off anywhere |
| `WireFormat` | the request bodies made of a conversation |
| `LocalBridge` | the worker thread, the bounded queue and the event loop of a local answer |
| `ChannelMarkup` | the normalizer of channel markup in streamed text |
| `TerminalOutput` | the stream renderer, the indicator, and the drain that feeds them |
| `SessionRuntimeProofs` | theorems about `SessionRuntime`, and that it implements `TurnLifecycle` |
| `ToolProofs` | theorems about `CommandRunner`, `ToolRuntime`, `Rollback`, `McpStdio` and `PatchApply` |
| `ModelProofs` | theorems about `LocalBridge`, `ProviderRequests`, `ModelStore` and `RemoteStream` |
| `SessionProofs` | theorems about `SessionStore`, `Targets`, `ContextWindow` and `WireFormat` |
| `TextProofs` | theorems about `TerminalOutput` and `ChannelMarkup` |
| `MC*` | constants for TLC; `MCPlatform` puts the fifteen modules above side by side |

`SessionRuntime` EXTENDS `AgentController` EXTENDS `AgentLoop` EXTENDS the two
policies: the controller owns the loop and the runtime owns the controller, so
they are composed by conjunction of their effects in one handler.

### AgentLoop

A generator runs from one suspension to the next. `pc` names the point it is at
or will resume at; `event` is the event it has yielded and the consumer has not
taken. `Suspended` says that other code may run: at a yield, in an await (`Awaits`),
or with no task. Points between suspensions are actions of their own only because
the code branches there. `step` holds the locals of `_arun_step_async` and the
fields of the step outcome, `batch` those of `_ahandle_tool_calls_async`:
`answered` are the tool messages appended so far, `grant` on whose word the current
call runs, `failure` the first failure of the batch. `approvalWait` is the
future of `_await_tool_approval`; `stopRequested` is never reset, as in the code.

Abstractions: a tool call is its *kind* (`SafetyPolicy` lists them), the
combination of attributes the safety layer reads; a tool returns a status; a
model round fails with a class, calls tools, answers, or says nothing; a plan
is the sequence of the statuses of its steps; time is a nondeterministic choice
at the head of the loop, where the code compares clocks. `ReasoningOutput`
(`agents/loop.py:779`) is not yielded: nobody reacts to it. The event `PlanUpdated`,
the phases and the results carry only what the controller reads.

Exceptions. `AwaitRaises` lets every await raise. The generator is gone then, no final
event is yielded, and of the state only the future is cleared, by the `finally`
of `_await_tool_approval`.

### AgentController and SessionRuntime

`agentIter` is the `_events` generator (created, first event yielded, in the
loop), `driver` the point at which the submission's own generator is,
`out` the runtime event the shell has not handled yet, `pending` the submission id
of `_pending_approval`, `log` the starts and ends of turns in the event log. The shell is
`ui`: at the prompt, draining, in its exception handler, or ended. `AnswerPrompt`
is the inline prompt, which submits the decision from within the handler of the event.

A turn carries the mode the session is in. A chat turn is a stream without triage; it shares queue, iterator and
log with the agent's turns but touches no controller (`StartChat`, `StreamEnds`), and an error in it does not stop one.

Ctrl+C in an await ends the program. Python is 3.11 or later (`pyproject.toml`) and the shell runs under
`asyncio.run` (`shell/ui.py:210`), which cancels the main task at the first Ctrl+C; the `CancelledError` unwinds the
generators and passes both clauses of `_ahandle_plain_text` (`:291`, `:308`) and those of the input loop (`:269`). So
`AwaitBreaks` leads to the exception handler for an error and to the end for a Ctrl+C. The `KeyboardInterrupt` handler at
`:291` could run only for a second Ctrl+C that finds the shell in Python code after the drain has swallowed the first
(`:519`, while it waits for the indicator); this is not modelled. Ctrl+C at the approval prompt is the decision
`interrupt` (`:575`).

Two `if` branches of the code depend on what only the environment knows and are
inputs here: whether a usable target exists (`usable`), and whether target,
session or approval settings changed since the last turn, which makes the runtime
build a new controller (`fresh`).

### TurnLifecycle

Turns are submitted, started, paused, resumed and ended; a turn an exception
breaks may be abandoned. `SessionRuntime` implements it under the mapping
`TurnStatus`, which reads a turn's state off the event log, the queue, the current
submission id and the pending approval. `ImplementsTurnLifecycle` is checked by TLC and proved (section 5).

### SubAgents

A tool of the main agent spawns sub-agents, sends them input, waits for them, closes and
resumes them. An agent object keeps its identity over all that: `threads[a]` has one
entry for each thread it was ever given, and the last one is of the present
`_generation`. Every critical section of the one lock is an action, and so is each step a
thread takes without the lock (`GetInput`, `FindEmpty`). The lock is held *across* a
blocking call in one place only, the join of the worker in `_shutdown_agent_unlocked`: `closing`
is that operation, `LockFree` is the guard of everyone else, and the worker's `get` is the
only thing that may happen meanwhile.

`JoinExpires` makes one assumption on time: the join waits two seconds, the `get` a tenth of
one, so the join does not expire with the thread at the queue. A thread that waits for the lock
or is in its worker cannot end meanwhile, so in that case the join does expire.

Abstractions: a path is the agent it leads to (an agent of a cleared path is no longer
`registered`, but its thread may still run); an input is `"input"`, the sentinel `"none"`;
outputs, errors and task counts are left out; what `load_snapshot` may restore is
`Init`. `late` is a history variable that counts the inputs a closed agent begins.

### The components around the agent

Each of the fifteen modules has its own variables and next-state relation, and none
reads the variables of another: in the program they meet only through calls of the loop
and the shell, whose effect on a component is one of its actions. What a component is called *with* is an
input there: a session does not know that the model answered, it appends the answer.

`SessionStore`. A save is three steps: the payload is serialized (`StartSave`), the file is opened,
which truncates a JSON file (`OpenFile`), and written (`FinishSave`); SQLite has one
step for the last two. `saver["main"]` is the flush and `/session save`, `saver["timer"]` the
autosave thread. `Crash` may come at any step and loses memory, not files; a `torn` file is one that was
truncated and not written. Turns have texts, not identities, because replay compares texts.

`Rollback`. A modifying tool call is `PreAction` (a backup), the write, and `PostAction` (an
entry); it may fail, or the process may die in between. `entries` is the list the controller's manager read
once, `logged` what the file was last given, which each `/agent undo` reads afresh. The file is rewritten in place
(`RewriteLog`, `LogWritten`): from the truncation until the write has gone through it is `torn`, and stays so if the write raises or
the process dies. A torn log cannot be loaded: no undo and no new controller until the next change rewrites it, and no manager at all for a session
loaded after a restart (`NoManager`).

`PatchApply`. A line is an indentation and a word. `call_` keeps what the agent had read (`seen`), what it meant (`hunks`), and the
text the tool then found (`before`), which the user may have edited; the tool sees only the raw lines of `RawPatch`.

`ContextWindow`. A message is a number. A history entry has the numbers of the messages it is or replaces (`ids`), of those it tells
of (`tells`) and who made it (`by`): a fallback summary tells of the last `FallbackShows` entries only, and of an earlier summary among
them next to nothing, since each line is cut at 220 characters; of what a summary by the model tells, nothing is assumed. The size of an
entry is all that the estimate reads. A rendered diff is cut after `DiffShown` fields while the baseline moves on; `unshown` are the
fields whose last change was cut.

`McpStdio`. A caller writes its request and reads lines until one has its id; other
callers' answers that it reads are dropped, as in the code. A request is numbered and written in one step (`WriteMessage`):
CPython does not switch threads between the increment and the reading of the number (`mcp/client.py:252`), and a write that
comes later only reorders requests. A read that times out kills the
process and joins the reader thread. The server is external and may answer, say nothing, send rubbish, ask, or die.

`CommandRunner`. Bytes are counted. The shell may exit with a child still holding the terminal;
poll, select, read and the deadline are separate steps, as in the loop, so that output arrives between any two.

`ToolRuntime`. A process is what it was launched with: wrapper, policy, backend, and the
directory it started in. Of the built-in tools only `shell_execute` wraps its command (`tools/__init__.py:45`); those for
git, tests and Python call `subprocess.run` themselves, under any backend (`RunUnwrapped`). `Reach` says what the three wrappers let such a process write and whether it has
the network. The manager of the servers outlives controllers and sessions, as in the code.

`ModelStore`. The content of a file is the sequence of the sources its chunks came from, so a
resumed download shows what it was resumed onto. The end of a body is taken for the end of the file (`models/installer.py:363`): one cut
short raises when it has a length or is chunked, and one that has neither is not modelled. `Targets` has a target, the default, the
installed models and providers, and the object kept for each with the binding it was kept under.

`RemoteStream`, `ProviderRequests`, `WireFormat`: what the server sends is external; what is
accumulated, retried, passed on or put into a body follows the three providers. A system message may have segments, as those
a session's instructions make do, or none, as those of triage and the planner. `Fragments` parts of a call's
arguments stand for the deltas of its JSON text.

`LocalBridge`. `ready` is the event loop's queue of callbacks. `run_coroutine_threadsafe` is a callback
that runs `put`, the future it resolves is what the worker waits for.

`ChannelMarkup` and `TerminalOutput`. A text is a sequence of symbols, of which only the ones the code
looks at differ; chunks may end between any two. The screen is the answer's visible text and how much of it stands on
the line of the cursor, which is what a frame of the indicator or a status line destroys.

## 3. Runs

| Run | Checks | Bounds |
|---|---|---|
| `agent_loop` | no tool without authority; every call of a batch answered once and in order; no model round on a spent budget; steps in order across replans; completed steps never lost | 3 rounds, batches of 2 of {unknown, escape, read, secret, delegate, write, shell}, 2 steps |
| `agent_loop_live` | with high-risk and blocked kinds, full access, guardian review and the legacy replanning rule: a stop ends the task; each step ends | 2 rounds, batches of 2 of {shell, overwrite, delegate, escape}, 2 steps, 1 consecutive error |
| `session_runtime` | type; one final message per task; a pending approval belongs to a suspended request; no overlap of tasks; refinement of `TurnLifecycle`; a turn stopped at its approval prompt gives the prompt back | 3 turns in either mode, 1 exception or Ctrl+C, the shell's approval prompt |
| `session_runtime_live` | policy `deny` holds to the end of the turn; an approval is decided | 2 turns in either mode under `auto` or `deny`, 1 Ctrl+C, guardian |
| `sub_agents` | type and limit on agents; an accepted input has a thread; `running` is never left behind; at most one input begun after closing; older threads are inert; a closed agent comes to rest; an input is served | 2 agents, limit 1, queue of 1, 2 threads in all |
| `platform` | one or two properties of each of the fifteen components, below | below |

`LoopTypeOK`, the type invariant of the loop, is a conjunct of `RuntimeTypeOK`, which `session_runtime` checks; it is
also proved (section 5).

`platform` explores the *sum* of the fifteen state graphs, not their product: `part` is chosen in the initial
state and only that component moves. The parts share no variable, so a product would show
nothing more and would not be finite in practice. One run stands for fifteen small ones.

| Part | Property | Says | Bounds |
|---|---|---|---|
| sessions | `AutosaveHoldsItsSession` | what is found under a session's autosave name is that session, whatever the timer thread was saving | 2 turns with equal prompts (a task or a chat, then a chat), 3 sessions, 2 process starts, 1 command, crash or failed save, both stores |
| | `LoadRecoversCompletedTurns` | a load loses no completed turn of which a readable file or the log is left | |
| | `ReplayIsIdempotent` | replaying a log again changes nothing | |
| rollback | `EveryChangeUndoable` | a reported change not undone has its entry, and its backup has the content from before, unless the session lost its manager to a torn log | 2 files, 2 writes, 3 changes of settings or controller, 2 undos |
| | `UndoAllRestoresWorkspace` | undo-all that goes through restores what the session found | |
| patch | `PatchLandsWhereMeant` | a patch whose hunks leave no choice does what they mean, whatever the user edited elsewhere; a patch that fails changes nothing | 2 files of 4 lines, 2 hunks that keep and drop up to 1 line, 1 anchor per hunk, 3 indentation styles, 1 edit |
| context | `RequestCoversSession` | the messages of a request are the latest, verbatim and in order, the summary replaces all earlier ones and nothing else; a field of the context is known unless its last change was cut from its diff | 3 inputs of 2 sizes, 2 kept, 1 in a fallback summary, 2 fields in a diff, 1 command or edit |
| mcp | `AnswerIsForItsCall` | a call returns the answer to that call | 2 callers, 2 processes, 3 requests, 1 line of noise, 3 transports |
| command | `OutputComplete` | the report has all that was written, up to the limit | 4 bytes, limit 2 |
| tools | `ToolProcessesContained` | servers run under the same policy as `shell_execute`, and inside it | 2 servers, 2 settings, 1 session change, 1 failed start |
| models | `RegisteredIsWhole` | a registered model has all files of its source | 1 URL and 1 repository of 2 files, 2 chunks, 4 installs, 2 removals |
| targets | `AnswerComesFromTarget` | a turn is answered by the target of the session at its present address | 2 models, 1 provider with 2 addresses, 6 commands |
| requests | `OutcomeIsTheServers` | a success is the server's last answer; only what may be retried is, and only as often | 2 users, 2 requests, 1 retry, 3 providers, a client closed after each turn |
| wire | `WireKeepsConversation` | Anthropic's body has all that user, model and tools said and keeps results with their calls | 5 messages, 2 calls at once |
| bridge | `StreamFaithful` | a stream that ends by itself passed on every chunk | 2 answers of 2 chunks, queue of 1 |
| remote | `ToolCallsWhole` | calls reach the caller once and whole, one done chunk ends it | 2 calls of 2 parts, 3 formats |
| markup | `MarkupSplitSafe` | the parts of an answer do not depend on where chunks end, but for one cut | 3 pieces, chunks of 1 or 2 |
| terminal | `ScreenInStep` | the answer is shown whole, the prompt gets a clean line | 3 answers with fences, chunks of 1 to 3, 3 details, 2 lines |

`local_bridge` uses one of the same modules with the code's queue limit.

The bounds are enough for the cases that matter: two calls in a batch show that a
grant does not carry over and that a failure does not swallow the next answer,
two steps that order and replanning interact, three rounds that a retry budget of 2
and the round budget are reached separately, two turns that state outlives a turn,
three that a broken turn may lie between two others. The runs of the runtime use one
round and one call per turn: what happens inside a batch is the business of the runs of the loop.
For the sub-agents, two threads on one
agent are two generations, two agents with a limit of one show that a restored or cleared agent counts, and
a queue of one input and the sentinel that an old sentinel does not end a new thread.
`MaxQueue` and `MaxThreads` are bounds of the model, `MaxAgents` is the code's limit.
`MaxSteps` bounds a plan and `MaxBatch` a batch; `MaxTurns` and `MaxBreaks` bound the
user's turns and the exceptions. The loop itself needs no bound of its own.
In the platform run the numbers are the smallest with which each hazard happens: two turns with one
prompt are what replay may confuse, a queue of one is full at once, three inputs compact a history that was compacted before, a capture limit below the output cuts it, a
retry limit of one is reached, two process numbers make a late answer possible, a
window of two details rolls. Limits of the code that are far larger (a queue of 512, 100 kB of
output, 12 memories, 8 details) are constants, so that the small value meets the same branches.

Deadlock is checked for the loop, which can always be started again. It is not checked for the
runtime: once `MaxTurns` turns are over the user is simply done; nor for the sub-agents, whose
operations end with `MaxThreads`, nor for the platform, where each part ends when its bounds are used up.

Fairness. `LoopFairSpec` assumes that the consumer takes every event, that what the loop
awaits returns, and that an approval that is *awaited* is answered; nobody has to stop,
break or start a task. `FairSpec` assumes that the event loop goes on with what
can run and that a prompt is answered. The first is what `aiter_events` and the shell's
`async for` do, the last is the user's part. `FairSpec` of `SubAgents` assumes that each thread runs
and gets the lock, that a worker returns (the model requests have timeouts), and that an operation
that closes agents goes on; nobody has to call one, and nobody has to wait.

Each property of a passing run has a mutant, a definition next to the one it replaces
that changes the code's behaviour in the way of a plausible mistake.

## 4. Where the code differs from what it says

Six runs each check a sentence of the documentation and find it violated:

* `agent_loop_ends`: replanning has no bound, so a task whose calls are denied
  each time never ends (`agents/loop.py:503`, against `docs/agent-system.md:453`).
* `shell_approval`: the runtime supplies a decision *before* it resumes the generator
  (`runtime/session_runtime.py:459`), and the future that should take it is created *when* it
  is resumed (`agents/loop.py:152`); the decision is dropped and the task waits. The
  automatic policies resume first, which is why `session_runtime_live` holds.
* `shell_interrupted`: `_stop_requested` is never reset and the controller is cached;
  after one interrupt, later tasks stop by themselves.
* `shell_ctrl_c`: Ctrl+C while a turn runs ends the program, since what arrives in the coroutine is a
  `CancelledError` that no clause catches (`shell/ui.py:291`), where `docs/cli-and-ux.md:298` says "Stop the current
  task, record a warning-style `stopped` outcome, and return to the prompt" and `:304` that it "does not crash the application".
* `sub_agents_wait`: the status after a task is `completed` even when the queue holds
  another input (`agents/multi_agent.py:379`), so waiting for an agent "to reach final status"
  (`docs/tool-system.md:27`) may return between two inputs it was sent.
* `local_bridge`: a consumer that stops early joins the worker thread on the event loop
  (`models/abstraction.py:170`) while the worker waits for a `put` that only this loop can run: nothing moves
  until the join gives up after 30 seconds (`:112` says "never block the event loop").

One more is not claimed as a finding. An exception out of a generator that an automatic
policy has resumed leaves `_pending_approval` set although nothing is suspended
(`runtime/session_runtime.py:370`); those policies belong to a process that ends with its
turn, so `PendingIsSuspendedRequest` is checked for the policy of the shell.

The component modules state further properties that no run lists, because the code does not
have them; each can be seen by adding its name to a cfg of its module (constants as in
`MCPlatform.cfg`). They are kept next to what does hold, so that the difference is visible:

| Definition | What happens |
|---|---|
| `SessionStore!SavedTurnsNotRepeated` | a prompt and its answer that are both in the history but not next to each other (tool results between them, a compacted history) count as missing, and replay appends the pair again (`session/replay.py:60`, `:70`, `:163`; `docs/session-and-config.md:297`) |
| `SessionStore!FlushIsDurable` | a timer that fired before the flush has serialized the older history and may write it after the flush (`session/manager.py:163`, `:213`, `:221`; `docs/session-and-config.md:269`) |
| `Rollback!UndoneOnce` | the controller's manager keeps entries that `/agent undo` removed and writes them back with its next change (`safety/rollback.py:60`); a later undo restores an old content over newer work |
| `McpStdio!TimedOutServerStops` | the reset stops the process that is current by then (`mcp/client.py:321`); when another thread has replaced it meanwhile, the one that did not answer stays alive while its reader is joined (`docs/mcp.md:44`) |
| `ModelStore!FilesNotMixed` | two URLs that end in one file name share a cache entry; the second resumes the first's partial file (`models/installer.py:332`; `docs/model-system.md:42`) |
| `Targets!AnswerFromInstalledFiles` | a model removed and installed again under the same name is answered by the backend still loaded from the old files (`runtime/core.py:757`) |
| `PatchApply!AmbiguousPatchFails` | of several places that match, the one nearest the anchor or the end of the last hunk is taken (`tools/patch_apply.py:285`; `docs/tool-system.md:109`: "Ambiguous matches still error explicitly") |
| `PatchApply!ShiftedPatchKeepsShape` | lines put in are shifted by the indentation of the *first* line of the block, so they move right when another line of it is further to the left (`tools/patch_apply.py:291`; `docs/tool-system.md:107`) |
| `PatchApply!PreviewShowsChange` | the preview reads `old_text` and `new_text` only: a call with `patch` is shown as one without textual changes (`shell/ui.py:650`; `docs/cli-and-ux.md:167`) |
| `CommandRunner!TimedOutOnlyWhenLate` | once the shell has exited and nobody holds the terminal, `select` finds it ready for ever (the read fails), and the loop is left only when it is *not* ready, or at the deadline: a finished command is reported as timed out (`tools/exec_process.py:395`; `docs/tool-system.md:128`) |
| `CommandRunner!CutOutputIsMarked` | what is captured is clipped to the limit while it is read, so `_truncate_captured_output` never sees more than the limit and never adds its marker (`tools/exec_process.py:336`) |
| `LocalBridge!OneGenerator`, `StdoutRestored` | a worker that was given up goes on beside the next, and the two redirections of standard output end in the wrong order |
| `RemoteStream!CompleteMeansFinished` | a connection that ends without the final line counts as complete (`models/abstraction.py:106`) |
| `ChannelMarkup!MarkupSplitAnywhere` | a `<` at the end of a chunk is passed on, the token it opens is shown as text (`models/backends/base.py:250`) |
| `WireFormat!InstructionsSent` | when a system message has segments, those without are not sent (`providers/anthropic.py:536`): the instruction that triage and the planner put before the session's own is lost on Anthropic (`agents/triage.py:140`, `agents/planner.py:150`) |
| `WireFormat!RolesAlternate` | two user messages in a row, or results followed by a user message, stay two entries (`providers/anthropic.py:591`, the docstring) |
| `WireFormat!RestKeepsCalls` | the REST body drops the calls and the ids of their results (`providers/rest.py:468`) |
| `TerminalOutput!RecentDetailsShown` | once the window of details is full, its length never exceeds the count of rendered ones again and nothing more is printed (`shell/streaming.py:233`; `docs/cli-and-ux.md:126`) |
| `ToolRuntime!OneSandbox` | a build that fails on a server leaves the manager with the new policy and the cached controller with the old (`runtime/core.py:619`; `docs/mcp.md:82`) |
| `ToolRuntime!WritesOnlyRoots` | bubblewrap and docker make a server's own directory writable, whatever the roots (`tools/exec_process.py:218`, `:250`) |
| `ToolRuntime!SubAgentToolsLive` | the sub-agent tools are registered once; after a session change they call the runtime that was closed (`runtime/core.py:965`) |

Four more limits are part of the models, and the properties are stated accordingly. The undo log is rewritten in place, and
`_load_log` raises on what a broken write leaves (`safety/rollback.py:156`, `:163`): a process that has the entries
in memory writes them all with its next change, but a session loaded with a torn log can undo none of its changes. A fallback summary
renders the last 12 messages of those it replaces, and the transcript for the model omits the middle of a history of more than
44 (`session/compactor.py:186`, `:194`; `tests/test_context_compactor.py:86` asserts the omission), so a request replaces the whole
history but does not tell all of it. The agent is told 12 changes of its context at a time, each cut at 160
characters, and is never told the others, because the baseline moves on (`session/context_diff.py:81`, `agents/loop.py:1611`). And the
tools for git, tests and Python start processes that no sandbox wraps (`tools/python_repl.py:59`, `tools/test_execute.py:61`,
`tools/git_commit.py:41`, `:57`, `tools/git_diff.py:47`, `tools/git_status.py:36`), as the tools that ask for no approval
(`spawn_agent`, `send_input`, `close_agent`, `resume_agent`, `runtime/core.py:861`) run unasked in every approval mode.

Seen on the way and outside of what the modules can state: tool results recorded in the history by the controller
(`agents/controller.py:611`) carry no call id, so a later chat request sends results that answer no
call; `sandbox_mode` is not in the controller's key (`runtime/core.py:592`), so `/config` does not change the
posture of a cached controller; an answer interrupted in an open code fence leaves the fence
open for the next turn, since `finalize` returns early (`shell/streaming.py:139`); the API key is not part of the binding under
which a client is kept (`runtime/core.py:717`); killing a command that timed out reaches its
shell only; closed agents still count for the limit of agents (`agents/multi_agent.py:173`); a user turn
queued while an approval is pending overwrites the current submission id (`runtime/session_runtime.py:111`);
tool threads go on after Ctrl+C has unwound the loop (`agents/loop.py:901`).

## 5. Proofs

`AgentLoopProofs` proves, for every value of the constants that satisfies `LoopAssumption`
and the assumptions on the policies, and without a bound on the number of
tasks or replans:

| Theorem | States |
|---|---|
| `TypeCorrect` | `LoopSpec => []LoopTypeOK` |
| `Authorised` | `LoopSpec => []ExecutionAuthorised` |
| `BudgetsHold` | `LoopSpec => []RoundsWithinBudget` |
| `CallsAnswered` | `LoopSpec => []EveryCallAnswered` |
| `PlanOrdered` | `LoopSpec => []PlanInOrder` |
| `CompletedKept` | `LoopSpec => CompletedStepsKept` |

Argument. `TypeInv` is `LoopTypeOK` with `ResultsMatchCalls`: while parallel results
are reported there is one for each call, without which reading the next result is not
typed. `AuthorisedInv` adds to the property what holds at the points *before*
the tool runs: within a batch (`InCall`) the current call is resolved and not blocked
from the decision on, through approval, guardian review and denial, and a batch
that is going to run in parallel needs no approval. The approval mode may change at each
suspension, but only to `autonomous`, and a call that needed none then needs none now (lemma
`AutonomyRelaxes`): this is why a decision taken earlier remains sound. `BudgetInv`
says that at every point of a step from which a model round may follow, each counter is
below its budget; it is inductive because the only way on after a
failure is a budget that is not spent. `AnsweredInv` says that the tool messages so far
are exactly `1 .. idx-1`, or `1 .. idx` while recovery from the current call is announced
(`AnsweredUpTo`). `PlanInv` adds to plan order which statuses occur where: at the head of the
loop a plan has completed and pending steps only, so that starting the first pending one (`NextStepIsFirst`)
puts it right behind the completed ones; within a step one more is in progress; and while the loop is at work the plan's
own status is `executing`. That completed steps are kept needs types only: marking a step never touches a
completed one, and replanning puts as many in front as there were (`PreservedCompleted`). Each invariant was checked with TLC before it was proved.

`TurnLifecycleProofs` proves of the abstract specification, for any set of turns and with
no assumption on it:

| Theorem | States |
|---|---|
| `TurnsInOrder` | at most one turn is in progress, and the ones before it are settled |
| `EndsReportedOnce` | the end of a turn is reported exactly when the turn has ended, and once |

Each action moves one turn and leaves the others (`MovesOne`); from there, that the order is
kept (`OrderKept`) and that the reports are (`ReportsKept`) are one case per action. Both carry over to
the runtime, which implements `TurnLifecycle`:

`SessionRuntimeProofs` proves, from `RuntimeAssumption` and the assumptions of the loop, for every number of
turns, exceptions, rounds and calls, every set of policies and every mode:

| Theorem | States |
|---|---|
| `ImplementsLifecycle` | `Spec => ImplementsTurnLifecycle` |
| `RuntimeTypes` | `Spec => []RuntimeTypeOK` |
| `LoopUnderRuntime` | authority, answering, budgets and plan order of the loop hold under the runtime |
| `OneMessageForATask` | `Spec => []OneOutcome` |
| `TurnsDoNotOverlap` | `Spec => []NoOverlap` |
| `DenyHolds` | `Spec => []DenyNeverExecutes` |
| `PendingIsHeld` | `Spec => [](Undisturbed => PendingIsSuspendedRequest)` |

The refinement needs two invariants. `SurfaceInv` relates the queue, the point of the driver, the current submission
and what the shell waits for; `LogInv` says that a turn begun has its start in the log and that the turn
which runs has no end there. Every handler is then one step of the turn the driver has, or none; a Ctrl+C abandons the turn with the
program. The proof found an error of the model, since corrected, in what the end
of an iterator releases while the approval of a broken turn is still stored (`EndIterator`).

`RuntimeInv` adds to these two where the loop may be. `LoopShape` says what an event says of the point the loop is at, `ParkInv` that
the loop is in an await only while its generator is driven, and `LoopInv` are the loop's own invariants from
`AgentLoopProofs`, which are shown again for the steps that are new here: closing the generator at any point, resuming it, and handing
it a decision. `HeldInv` says where the events of an agent turn are: outside of the turn its generator is kept only
while the user is asked. From that `TaskInv` shows the outcome message to come with the end of the task and not before, and both that
turns do not overlap. `DenyInv` follows the user's word from the decision to the call. `PendInv` holds for the
policy of the shell, or as long as nothing has broken off: under `auto` and `deny` the runtime sets the pending approval while it
resumes, and an exception then leaves it set (section 4). The condition `Undisturbed` is exactly that.

`SubAgentsProofs` proves, for every finite set of agents, every limit and every number of
threads and queued inputs, from `SubAgentsAssumption`:

| Theorem | States |
|---|---|
| `SubAgentsTyped` | `Spec => []SubAgentsTypeOK` |
| `InputsHaveThreads` | `Spec => []AcceptedHasThread` |
| `RunningAgentsWork` | `Spec => []RunningIsAtWork` |
| `OneLateInput` | `Spec => []AtMostOneLateInput` |
| `StaleThreadsHarmless` | `Spec => StaleThreadsInert` |

One invariant, `IInv`, carries all five. Its heart is `AwayFromQueue`: a thread is at the queue
only as the present generation, and after the stop event is set only while it is being
joined. That is what makes the exchange of the queue on resumption safe, since the old thread
reads `agent.queue` afresh, and it rests on the assumption of `JoinExpires`. `InLoop` says
that without the stop event there is no sentinel in the queue and the thread has not left
its loop; `Late` that a closed agent whose thread still fetches has begun nothing yet; `Working`
is the property itself; `Unborn` and `ClosingInv` type the remaining relations. Each action
has a lemma; `ThreadMoves`, `ThreadStarts` and `QueueMoves` say once what they do to the
sequences, and `Untouched` that an agent no action is about keeps its invariant.

The fifteen components around the agent have their properties proved, each from the assumption
on its constants, if any, and so beyond the bounds of `MCPlatform`:

| Theorem | States |
|---|---|
| `ToolProofs!OutputReportedWhole` | `RunnerSpec => []OutputComplete` |
| `ToolProofs!ProcessesContained` | `ToolRuntimeSpec => []ToolProcessesContained` |
| `ToolProofs!ChangesUndoable` | `RollbackSpec => []EveryChangeUndoable` |
| `ToolProofs!UndoAllRestores` | `RollbackSpec => UndoAllRestoresWorkspace` |
| `ToolProofs!AnswersOwned` | `McpSpec => []AnswerIsForItsCall` |
| `ToolProofs!PatchesLand` | `PatchSpec => []PatchLandsWhereMeant` |
| `ModelProofs!StreamsFaithful` | `BridgeSpec => []StreamFaithful` |
| `ModelProofs!OutcomesHonest` | `RequestsSpec => []OutcomeIsTheServers` |
| `ModelProofs!RegisteredWhole` | `ModelStoreSpec => []RegisteredIsWhole` |
| `ModelProofs!CallsWhole` | `RemoteSpec => []ToolCallsWhole` |
| `SessionProofs!AutosavesBelong` | `StoreSpec => []AutosaveHoldsItsSession` |
| `SessionProofs!ReplaysOnce` | `StoreSpec => []ReplayIsIdempotent` |
| `SessionProofs!CompletedTurnsRecovered` | `StoreSpec => LoadRecoversCompletedTurns` |
| `SessionProofs!AnswersFromTarget` | `TargetsSpec => []AnswerComesFromTarget` |
| `SessionProofs!RequestsComplete` | `ContextSpec => []RequestCoversSession` |
| `SessionProofs!AnthropicKeepsConversation` | `WireSpec => []WireKeepsConversation` |
| `TextProofs!ScreenStaysInStep` | `TerminalSpec => []ScreenInStep` |
| `TextProofs!MarkupSplitsSafely` | `MarkupSpec => []MarkupSplitSafe` |

`StreamsFaithful` has the hardest argument. `Handed` says where the chunk is that the worker waits
for: a `put` callback among those the loop has ready, or a blocked putter, and in one
place only (`Once`). `ChunksAccounted` counts: the chunks made are those the caller has, those in the
queue and the one on its way, and the end marker is last in the queue. `Unstarted` types the
threads of answers to come. A callback of an older stream may stand between those of
the current one; `OtherStream` says once that it changes none of its counts. In `CommandRunner` what is
captured is what has left the terminal, up to the limit (`BytesAccounted`), and after a report nobody is left who
could write (`ReportIsLast`). In `ToolRuntime` the servers follow the manager's backend and policy (`ManagerInv`), and
so does the controller as long as no build has failed (`ControllerInv`); a shell command keeps the launch of the
controller it was started by (`ProcessInv`). In `ProviderRequests` a request under way has seen
only replies that are retried (`UnderWay`), and one that has ended was told as `Told` says.

`Rollback`. What the log on disk was given is a beginning of what the manager of the agent has (`LoggedIsPrefix`), entries are in the order of their changes and each
has its own backup, and a reported change has its entry (`ChangesLogged`). That undo-all restores the workspace rests on the oldest entry of each file: it
has the content the session found (`OldestHasOriginal`), and a file without an entry on disk still has it (`UnloggedUntouched`), as long as nobody
else wrote. `McpStdio`. An answer carries a number only. Numbers are given once (`NumbersGiven`), and every message with the number a
call waits for, in a pipe or on its way, was written for this call (`OwnAnswers`), whoever reads it. `ModelStore`. What is in a cache or a directory is a beginning of the files
of one source until it is whole, and only a whole one is registered; `ModelStoreAssumption` says that a URL is not the name
of a repository of the hub and that the file of a URL is none of a repository's. `RemoteStream`. The accumulator of a call
holds exactly the fragments sent for it (`Accounted`, which differs for the three formats), until the call is passed on whole. `Targets`. Whatever changes what
a turn would talk to leaves no answer standing, and a turn asks what the session names now.

`SessionStore`. For autosaves, a generated name goes with the identifier it was made from, in memory, in the hands of the thread that
saves, and on disk. For recovery, `RecoveryInv` says of each log that a completed turn has its submission there, before
which replay would not look for the completion. A replay is a recursion over the log, and induction is out of the prover's
reach as a rule; but what a loop over a *sequence* keeps can be shown by the least index at which it fails
(`LeastExists`, from the well-foundedness of the natural numbers): the step up to that index contradicts it. So each step of a replay keeps the
exchanges that are there and adds the one its record asks for, and a second replay finds them all.
`SessionStoreAssumption` types the numbers of messages and sessions.

`ContextWindow` uses the same argument, once (`OneIteration`): two functions that unfold in the same way are
equal, so a recursion is unfolded by giving its values. `Shape` is the form of every history: its
first entry covers the messages 1 to b and each other one is the next message; the first is a summary, of which a fallback tells
message b, and more than `RecentKept` entries are there, or nothing has been compacted. Compaction (`CompactedShape`) and every new entry (`HistoryGrows`) keep
it, and the request built from such a history covers 1 to n (`RequestFacts`). That the agent knows what was shown is the lemma
`DiffTells` on `ContextDiffTracker`: what is known but for some fields of a snapshot is known, after a diff, but for those
of them it does not mention and those it cuts.

`WireFormat`. The body is a recursion over the messages of the conversation, unfolded one message at a time
(`EntriesGrow`, again by `OneIteration`), so that the action which adds a message adds or extends one entry. `WireInv` says that the entries
made so far say what user, model and tools said, in its order, and `Answering` that every call is answered in the entry right after its own, but for the
calls still pending: those are calls of the last entry, or of the one before it while the last gathers their results.

`TerminalOutput`. Every text is cut in exactly one way into something plain and then a fence, or the one or two backticks that
are held back, and a pass of the renderer depends on this cut alone (`CutExists`, `PassIs`). What was printed earlier changes nothing
else (`ShiftRender`), a plain beginning may be rendered on its own (`PlainFirst`), and from both follows `RenderSplits`: a
text may be rendered in two parts, cut anywhere. It is shown by the least number of passes at which it would fail. The two outputs agree up to blank
lines, because a newline right after a closing fence is dropped only if it comes in the same chunk; that is why the property speaks of
what is `Visible`. `TerminalInv` then says that the markdown state stands where the text received so far ends, that the screen shows
what has been rendered of it, and that the renderer is tidy: a frame of the indicator only where no line of the
answer is under the cursor, nothing kept back at the prompt.

`ChannelMarkup`. `_drain` is a loop, and its result is that of as many passes as the buffer has symbols: a pass takes away a
beginning of the buffer or is one that the loop stops at (`PassTakes`, `MarkupRunSettles`, `DrainIs`), so a drain may go on from
where any number of its passes have come (`DrainStep`). A pass that meets a token does the same with more text behind the
buffer, unless it waits for that (`PassAdds`); one that meets none returns text of which no symbol belongs to a token or may still come to
(`HeldIsSafe`, where the exception for `<` and `|` is needed), and such text may be returned before or after the rest arrives
(`PlainMayGoFirst`). So each pass commutes with the arrival of the next chunk (`OnePass`), and with it the
whole drain (`DrainSplits`), by the least number of passes at which it would fail. `MarkupInv` then says that the normalizer is where the text
that has arrived would have brought it as one chunk. `ChannelMarkupAssumption` says that the words of a text are none of the symbols a token is marked with.

`PatchApply`. `PatchesLand` follows the tool through its three loops, for one or two hunks of any size. The raw lines of a hunk are read
into the operation that was meant, whatever marks they are written with (`ParsesRun`, `OneHunkParses`, `TwoHunksParse`). The search then
finds a hunk that leaves no choice where it was: its place is the only one among the exact matches, or among those without indentation, so
that no choice by distance is made, and what is put in gets back the indentation it lost (`FitsAt`, `OpLands`). The
second hunk is sought in a text the first has changed: what is behind that has moved by the lines put in less those
taken out (`SecondFits`, `MovedBy`), and two regions may be replaced in either order (`SplicedTwice`). `CallAsked` says
what a call may still expect of the file: the user edits lines, and their number stays. `PatchApplyAssumption` says that a line is an indentation and a word
other than the name for "no anchor".

Only model-checked: liveness (`StopEndsTask`, `StepEnds`, `ApprovalDecided`, `InterruptReturnsPrompt`, `ClosedComesToRest`,
`InputServed`), since the prover has no rules for fairness and ENABLED. Every safety invariant that a passing run checks is stated by a theorem.

## 6. Not modelled

The synchronous twins of the loop, the controller and the chat, which the shell no longer
calls; the shutdown operation, which nothing submits; slash commands that take another way
into the controller (`/agent approve`). Of the tools, listing and
search: each is a function of its input. Detection of model formats, the catalogue of the
hub and the readiness report read files and print; features, skills and plugins load tables;
the input prompt is the library `prompt_toolkit`. Decoding in the native backends is external. Time is
never measured: a timeout is a step that may come. `PROJECT.json` has the reason for each component.

The composition of the fifteen components with the agent is not checked. What crosses the
border is an argument of an action there (an answer, a tool status, a decision), chosen freely, which allows
more than the composition would.

## 7. Plan

1. `PatchApply` for more than two hunks: the argument for the second one, from any hunk to the next.
2. `SessionStore` composed with `SessionRuntime`, so that `SessionStore`'s turns are the runtime's.
