--------------------------- MODULE SessionRuntime ---------------------------
(***************************************************************************)
(* SessionRuntime (runtime/session_runtime.py) driving the agent           *)
(* controller, with the shell (shell/ui.py) as its surface: the submission *)
(* queue, the iterator of the current submission, the approval pause, the  *)
(* interrupt, and what an exception out of an await leaves behind.         *)
(*                                                                         *)
(* Everything runs on one event loop.  A runtime event is handed to the    *)
(* surface (out # "none") and the runtime goes on only when the surface    *)
(* asks for the next one.                                                  *)
(***************************************************************************)
EXTENDS AgentController

CONSTANTS
  Policies,    \* approval_policy of the turns: "shell", "auto", "deny"
  Modes,       \* the modes the user may have the session in: "agent", "chat"
  MaxTurns,    \* bound: user turns submitted
  BreakKinds,  \* exceptions out of an await: "error", or the cancellation that
               \* asyncio.run makes of the first Ctrl+C: "ctrl_c"
  MaxBreaks    \* bound: how many of them

ASSUME RuntimeAssumption ==
  /\ Policies \subseteq {"shell", "auto", "deny"}
  /\ Modes \subseteq {"agent", "chat"}
  /\ MaxTurns \in Nat
  /\ BreakKinds \subseteq {"error", "ctrl_c"}
  /\ MaxBreaks \in Nat

VARIABLES
  queue,     \* _submission_queue
  current,   \* _current_submission_id, 0 for None
  driver,    \* _current_iterator: where the submission's generator is
  sub,       \* the submission it runs
  pending,   \* _pending_approval: its submission id, 0 for None
  out,       \* the RuntimeEvent the surface has not handled yet
  log,       \* the event log: starts and ends of turns, with their ids
  ui,        \* the shell: prompt, drain, handling an exception, or exited
  turns,     \* user turns submitted so far; their ids are 1 .. turns
  breaks,    \* exceptions so far
  stopAsked  \* the user stopped the turn at its approval prompt

iterVars == <<current, driver, sub, pending, log>>
surfaceVars == <<ui, turns, breaks, stopAsked>>
runtimeVars == <<queue, out, iterVars, surfaceVars>>
vars == <<loopVars, controllerVars, runtimeVars>>
-----------------------------------------------------------------------------
Decisions == {"approve", "approve_all", "deny"}
Operations == {"turn", "interrupt"} \union Decisions
NoSubmission == [op |-> "interrupt", id |-> 0, policy |-> "shell", mode |-> "agent"]

\* What is submitted during a turn goes to the submission that is current; the
\* session keeps the mode of the turn meanwhile.
WithinTurn(op, id) == [sub EXCEPT !.op = op, !.id = id]

TurnEnds == {"turn_completed", "turn_failed", "turn_interrupted"}

RuntimeEvents ==
  {"none", "turn_started", "route_selected", "agent_event", "stream_chunk",
   "approval_requested", "error"} \union TurnEnds

\* none     no current iterator
\* ready    created, its first anext() is due
\* turn     turn_started yielded           triage   in await of the triage
\* routed   route_selected yielded         agent    in anext() of the agent events
\* relay    agent_event yielded            resume   the resume task runs
\* stream   in anext() of the stream       tail     its done chunk was relayed
\* last     its last event was yielded     dead     ended by an exception
Drivers ==
  {"none", "ready", "turn", "triage", "routed", "agent", "relay", "resume",
   "stream", "tail", "last", "dead"}

Draining == ui = "drain" /\ out = "none"

\* An event leaves aiter_events; the log gets it first.
Emit(type, next) ==
  /\ out' = type
  /\ driver' = next
  /\ log' = IF type \in {"turn_started"} \union TurnEnds
              THEN Append(log, [type |-> type, id |-> sub.id]) ELSE log

RuntimeInit ==
  /\ LoopInit
  /\ ControllerInit
  /\ queue = <<>>
  /\ current = 0
  /\ driver = "none"
  /\ sub = NoSubmission
  /\ pending = 0
  /\ out = "none"
  /\ log = <<>>
  /\ ui = "prompt"
  /\ turns = 0
  /\ breaks = 0
  /\ stopAsked = FALSE
-----------------------------------------------------------------------------
(* The surface.                                                             *)

\* _ahandle_plain_text: submit the turn and drain.
SubmitTurn(policy, mode) ==
  /\ ui = "prompt"
  /\ turns < MaxTurns
  /\ turns' = turns + 1
  /\ queue' = Append(queue, [op |-> "turn", id |-> turns + 1, policy |-> policy,
                             mode |-> mode])
  /\ ui' = "drain"
  /\ stopAsked' = FALSE
  /\ UNCHANGED <<loopVars, controllerVars, iterVars, out, breaks>>

\* An ordinary event is rendered.
RenderEvent ==
  /\ ui = "drain"
  /\ out \notin {"none", "approval_requested"}
  /\ out' = "none"
  /\ UNCHANGED <<loopVars, controllerVars, queue, iterVars, surfaceVars>>

FreshIdMutant(op) ==
  /\ ui = "drain"
  /\ out = "approval_requested"
  /\ out' = "none"
  /\ queue' = Append(queue, WithinTurn(op, turns + 1))
  /\ stopAsked' = (stopAsked \/ op = "interrupt")
  /\ UNCHANGED <<loopVars, controllerVars, iterVars, ui, turns, breaks>>

\* The inline approval prompt: a decision, or its cancellation, is submitted
\* under the id of the turn and the shell drains on.
AnswerPrompt(op) ==
  /\ ui = "drain"
  /\ out = "approval_requested"
  /\ out' = "none"
  /\ queue' = Append(queue, WithinTurn(op, current))
  /\ stopAsked' = (stopAsked \/ op = "interrupt")
  /\ UNCHANGED <<loopVars, controllerVars, iterVars, ui, turns, breaks>>

\* aiter_events is exhausted.
EndDrain ==
  /\ Draining
  /\ driver = "none"
  /\ queue = <<>>
  /\ ui' = "prompt"
  /\ UNCHANGED <<loopVars, controllerVars, queue, iterVars, out, turns, breaks, stopAsked>>

\* "except Exception": in agent mode the controller is stopped, if it has an
\* active task.
HandleError ==
  /\ ui = "error"
  /\ IF sub.mode = "agent" THEN StopController ELSE ControllerStays
  /\ ui' = "prompt"
  /\ UNCHANGED <<taskVars, agentIter, defaultMode, queue, iterVars, out, turns, breaks,
                 stopAsked>>
-----------------------------------------------------------------------------
(* aiter_events.                                                            *)

PopSubmission ==
  /\ Draining
  /\ driver = "none"
  /\ queue # <<>>
  /\ sub' = Head(queue)
  /\ queue' = Tail(queue)
  /\ current' = Head(queue).id
  /\ driver' = "ready"
  /\ UNCHANGED <<loopVars, controllerVars, pending, log, out, surfaceVars>>

\* The generator of the agent events is closed or has ended.
DropLoop ==
  /\ CloseLoop
  /\ agentIter' = "none"
  /\ UNCHANGED <<plan, step, batch>>

KeepGeneratorMutant ==
  /\ Draining
  /\ driver \in {"last", "dead"}
  /\ driver' = "none"
  /\ current' = IF pending = 0 THEN 0 ELSE current
  /\ UNCHANGED <<loopVars, controllerVars, queue, sub, pending, log, out, surfaceVars>>

\* StopAsyncIteration of the current iterator.  The agent events are released
\* with it, and so closed, unless a pending approval holds on to them; one that
\* a broken turn left behind holds on to the events of that turn.
EndIterator ==
  /\ Draining
  /\ driver \in {"last", "dead"}
  /\ driver' = "none"
  /\ current' = IF pending = 0 THEN 0 ELSE current
  /\ IF pending # sub.id /\ agentIter # "none"
       THEN DropLoop /\ asyncActive' = FALSE
       ELSE UNCHANGED <<taskVars, agentIter, asyncActive>>
  /\ UNCHANGED <<stopRequested, approvalMode, directActive, pendingTool, task, outcomes,
                 approvalMeta, defaultMode, queue, sub, pending, log, out, surfaceVars>>
-----------------------------------------------------------------------------
(* _arun_user_turn.                                                         *)

BeginTurn ==
  /\ Draining
  /\ driver = "ready"
  /\ sub.op = "turn"
  /\ Emit("turn_started", "turn")
  /\ UNCHANGED <<loopVars, controllerVars, queue, current, sub, pending, surfaceVars>>

\* The turn is None: no usable target, or an agent task is running.
RefuseTurn(usable) ==
  /\ Draining
  /\ driver = "turn"
  /\ ~usable \/ (sub.mode = "agent" /\ HasActiveTask)
  /\ Emit("turn_failed", "last")
  /\ UNCHANGED <<loopVars, controllerVars, queue, current, sub, pending, surfaceVars>>

\* get_or_create_agent_controller: the cached controller serves the turn, or a
\* new one when target, session or approval settings have changed.
Dispatch(fresh) ==
  /\ Draining
  /\ driver = "turn"
  /\ sub.mode = "agent"
  /\ fresh \/ ~HasActiveTask
  /\ driver' = "triage"
  /\ IF fresh
       THEN /\ stopRequested' = FALSE
            /\ asyncActive' = FALSE
            /\ directActive' = FALSE
            /\ pendingTool' = FALSE
            /\ defaultMode' = "balanced"
            /\ approvalMode' = "balanced"
       ELSE UNCHANGED <<stopRequested, asyncActive, directActive, pendingTool,
                        defaultMode, approvalMode>>
  /\ UNCHANGED <<taskVars, agentIter, task, outcomes, approvalMeta, queue, current,
                 sub, pending, log, out, surfaceVars>>

\* arun_chat_turn awaits nothing and does not ask the agent controller: the
\* stream is drained at once.
StartChat ==
  /\ Draining
  /\ driver = "turn"
  /\ sub.mode = "chat"
  /\ driver' = "stream"
  /\ UNCHANGED <<loopVars, controllerVars, queue, current, sub, pending, log, out, surfaceVars>>

TriageReturns(route, toolsSupported) ==
  /\ Draining
  /\ driver = "triage"
  /\ RouteInput(route, toolsSupported)
  /\ IF route = "direct_answer" \/ toolsSupported
       THEN Emit("route_selected", "routed") /\ UNCHANGED ui
       ELSE driver' = "dead" /\ ui' = "error" /\ UNCHANGED <<out, log>>
  /\ UNCHANGED <<taskVars, stopRequested, queue, current, sub, pending, turns, breaks,
                 stopAsked>>

StartDrain ==
  /\ Draining
  /\ driver = "routed"
  /\ driver' = IF directActive THEN "stream" ELSE "agent"
  /\ UNCHANGED <<loopVars, controllerVars, queue, current, sub, pending, log, out, surfaceVars>>
-----------------------------------------------------------------------------
(* _adrain_stream over _astream_direct_answer, or the answer of a chat turn. *)

\* The generator of a direct answer ends in its finally clause; the one of a
\* chat turn knows no controller.
StreamEnds(answered) ==
  IF sub.mode = "agent" THEN FinishDirectAnswer(answered)
  ELSE UNCHANGED <<controllerVars, approvalMode, stopRequested>>

RelayChunk(done) ==
  /\ Draining
  /\ driver = "stream"
  /\ Emit(IF done THEN "turn_completed" ELSE "stream_chunk",
          IF done THEN "tail" ELSE "stream")
  /\ UNCHANGED <<loopVars, controllerVars, queue, current, sub, pending, surfaceVars>>

CompleteTwiceMutant(answered) ==
  /\ Draining
  /\ driver \in {"stream", "tail"}
  /\ StreamEnds(answered)
  /\ Emit("turn_completed", "last")
  /\ UNCHANGED <<taskVars, queue, current, sub, pending, surfaceVars>>

\* The stream ends; without a done chunk the runtime makes one up.
EndStream(answered) ==
  /\ Draining
  /\ driver \in {"stream", "tail"}
  /\ StreamEnds(answered)
  /\ Emit(IF driver = "stream" THEN "turn_completed" ELSE "none", "last")
  /\ UNCHANGED <<taskVars, queue, current, sub, pending, surfaceVars>>
-----------------------------------------------------------------------------
(* _adrain_agent_events over the controller's _events().                    *)

AskedForApproval ==
  event.type = "tool_request" /\ event.arg = "approval"

\* The first anext() of _events() yields TaskRouted.
StartEvents ==
  /\ Draining
  /\ driver = "agent"
  /\ agentIter = "fresh"
  /\ agentIter' = "routed"
  /\ asyncActive' = TRUE
  /\ task' = State(task.phase, TRUE)
  /\ Emit("agent_event", "relay")
  /\ UNCHANGED <<loopVars, directActive, pendingTool, outcomes, approvalMeta,
                 defaultMode, queue, current, sub, pending, surfaceVars>>

\* The loop runs inside anext() up to its next event.
LoopAdvances ==
  /\ Draining
  /\ driver \in {"agent", "resume"}
  /\ \/ agentIter = "routed" /\ StartRun /\ UNCHANGED <<stopRequested, approvalMode>>
     \/ agentIter = "live" /\ LoopRuns
  /\ agentIter' = "live"
  /\ UNCHANGED <<asyncActive, directActive, pendingTool, task, outcomes, approvalMeta,
                 defaultMode, runtimeVars>>

\* The controller records the event, the runtime relays it.
RelayEvent ==
  /\ Draining
  /\ driver \in {"agent", "resume"}
  /\ event # NoEvent
  /\ RecordEvent(event)
  /\ pending' = IF driver = "resume" THEN 0 ELSE pending
  /\ Emit("agent_event", "relay")
  /\ UNCHANGED <<taskVars, stopRequested, agentIter, defaultMode, queue, current, sub,
                 surfaceVars>>

\* Neither an approval nor a final event: the next one is asked for.
NextEvent ==
  /\ Draining
  /\ driver = "relay"
  /\ ~AskedForApproval
  /\ event.type \notin Finals
  /\ event' = NoEvent
  /\ driver' = "agent"
  /\ UNCHANGED <<pc, plan, step, batch, approvalWait, stopRequested, approvalMode,
                 controllerVars, queue, current, sub, pending, log, out, surfaceVars>>

DecideBeforeResumeMutant ==
  /\ Draining
  /\ driver = "relay"
  /\ AskedForApproval
  /\ sub.policy # "shell"
  /\ ApplyToolApproval(sub.policy = "auto", sub.policy = "auto")
  /\ event' = NoEvent
  /\ driver' = "agent"
  /\ UNCHANGED <<pc, plan, step, batch, stopRequested, queue, current, sub, pending, log,
                 out, surfaceVars>>

\* Policies "auto" and "deny": a task resumes the generator ...
ResumeByPolicy ==
  /\ Draining
  /\ driver = "relay"
  /\ AskedForApproval
  /\ sub.policy # "shell"
  /\ pending' = sub.id
  /\ event' = NoEvent
  /\ driver' = "resume"
  /\ UNCHANGED <<pc, plan, step, batch, approvalWait, stopRequested, approvalMode,
                 controllerVars, queue, current, sub, log, out, surfaceVars>>

ApproveAlwaysMutant ==
  /\ Draining
  /\ driver = "resume"
  /\ pc = "approval"
  /\ approvalWait = "pending"
  /\ ApplyToolApproval(TRUE, sub.policy = "auto")
  /\ UNCHANGED <<pc, event, plan, step, batch, stopRequested, runtimeVars>>

\* ... and once it waits for the decision, the policy supplies it.
ApplyPolicy ==
  /\ Draining
  /\ driver = "resume"
  /\ pc = "approval"
  /\ approvalWait = "pending"
  /\ ApplyToolApproval(sub.policy = "auto", sub.policy = "auto")
  /\ UNCHANGED <<pc, event, plan, step, batch, stopRequested, runtimeVars>>

\* Policy "shell": the submission ends, the generator is kept where it is.
PauseForApproval ==
  /\ Draining
  /\ driver = "relay"
  /\ AskedForApproval
  /\ sub.policy = "shell"
  /\ pending' = sub.id
  /\ Emit("approval_requested", "last")
  /\ UNCHANGED <<loopVars, controllerVars, queue, current, sub, surfaceVars>>

TurnEnd(type) ==
  CASE type = "task_complete" -> "turn_completed"
    [] type = "task_failed"   -> "turn_failed"
    [] OTHER -> "turn_interrupted"

EndTurn ==
  /\ Draining
  /\ driver = "relay"
  /\ event.type \in Finals
  /\ Emit(TurnEnd(event.type), "last")
  /\ UNCHANGED <<loopVars, controllerVars, queue, current, sub, pending, surfaceVars>>
-----------------------------------------------------------------------------
(* _aresume_approval, _ahandle_interrupt, and exceptions.                   *)

ResumeDecision ==
  /\ Draining
  /\ driver = "ready"
  /\ sub.op \in Decisions
  /\ IF pending = sub.id
       THEN /\ ApplyToolApproval(sub.op # "deny", sub.op = "approve_all")
            /\ pending' = 0
            /\ event' = NoEvent
            /\ driver' = "agent"
            /\ UNCHANGED <<pc, plan, step, batch, stopRequested, log, out>>
       ELSE /\ Emit("error", "last")
            /\ UNCHANGED <<loopVars, controllerVars, pending>>
  /\ UNCHANGED <<queue, current, sub, surfaceVars>>

InterruptKeepsPendingMutant ==
  /\ Draining
  /\ driver = "ready"
  /\ sub.op = "interrupt"
  /\ StopController
  /\ DropLoop
  /\ Emit("turn_interrupted", "last")
  /\ UNCHANGED <<defaultMode, queue, current, sub, pending, surfaceVars>>

InterruptAsDenialMutant ==
  /\ Draining
  /\ driver = "ready"
  /\ sub.op = "interrupt"
  /\ ApplyToolApproval(FALSE, FALSE)
  /\ pending' = 0
  /\ event' = NoEvent
  /\ driver' = "agent"
  /\ UNCHANGED <<pc, plan, step, batch, stopRequested, log, out>>
  /\ UNCHANGED <<queue, current, sub, surfaceVars>>

HandleInterrupt ==
  /\ Draining
  /\ driver = "ready"
  /\ sub.op = "interrupt"
  /\ StopController
  /\ DropLoop
  /\ pending' = 0
  /\ Emit("turn_interrupted", "last")
  /\ UNCHANGED <<defaultMode, queue, current, sub, surfaceVars>>

\* An exception out of what the runtime awaits unwinds every generator; their
\* finally clauses run, and only those.  asyncio.run cancels the main task at
\* the first Ctrl+C: a CancelledError is neither a KeyboardInterrupt nor an
\* Exception, so that no clause of the shell catches it and the program ends.
AwaitBreaks(kind) ==
  /\ Draining
  /\ breaks < MaxBreaks
  /\ breaks' = breaks + 1
  /\ \/ /\ driver = "triage"
        /\ UNCHANGED <<taskVars, stopRequested, approvalMode, controllerVars>>
     \/ /\ driver \in {"agent", "resume"}
        /\ AwaitRaises
        /\ agentIter' = "none"
        /\ asyncActive' = FALSE
        /\ UNCHANGED <<stopRequested, approvalMode, directActive, pendingTool, task,
                       outcomes, approvalMeta, defaultMode>>
     \/ /\ driver \in {"stream", "tail"}
        /\ \E answered \in BOOLEAN : StreamEnds(answered)
        /\ UNCHANGED taskVars
  /\ driver' = "dead"
  /\ ui' = IF kind = "error" THEN "error" ELSE "exited"
  /\ UNCHANGED <<queue, current, sub, pending, log, out, turns, stopAsked>>
-----------------------------------------------------------------------------
SystemNext ==
  \/ RenderEvent \/ EndDrain \/ HandleError
  \/ PopSubmission \/ EndIterator \/ BeginTurn
  \/ \E usable \in BOOLEAN : RefuseTurn(usable)
  \/ \E fresh \in BOOLEAN : Dispatch(fresh)
  \/ StartChat
  \/ \E route \in Routes, toolsSupported \in BOOLEAN : TriageReturns(route, toolsSupported)
  \/ StartDrain
  \/ \E done \in BOOLEAN : RelayChunk(done)
  \/ \E answered \in BOOLEAN : EndStream(answered)
  \/ StartEvents \/ LoopAdvances \/ RelayEvent \/ NextEvent \/ ResumeByPolicy
  \/ ApplyPolicy \/ PauseForApproval \/ EndTurn \/ ResumeDecision \/ HandleInterrupt

AnswersPrompt == \E op \in Decisions \union {"interrupt"} : AnswerPrompt(op)

Next ==
  \/ SystemNext
  \/ AnswersPrompt
  \/ \E policy \in Policies, mode \in Modes : SubmitTurn(policy, mode)
  \/ \E kind \in BreakKinds : AwaitBreaks(kind)

Spec == RuntimeInit /\ [][Next]_vars

\* The event loop keeps running what can run, and a prompt is answered.
FairSpec == Spec /\ WF_vars(SystemNext) /\ WF_vars(AnswersPrompt)
-----------------------------------------------------------------------------
(* Properties.                                                              *)

RuntimeTypeOK ==
  /\ LoopTypeOK
  /\ agentIter \in {"none", "fresh", "routed", "live"}
  /\ {asyncActive, directActive, pendingTool, approvalMeta, stopAsked} \subseteq BOOLEAN
  /\ task \in [phase : Phases, active : BOOLEAN]
  /\ outcomes \in Seq(OutcomeKinds)
  /\ defaultMode \in ApprovalModes
  /\ queue \in Seq([op : Operations, id : 1 .. MaxTurns, policy : Policies, mode : Modes])
  /\ current \in 0 .. MaxTurns
  /\ pending \in 0 .. MaxTurns
  /\ driver \in Drivers
  /\ sub \in [op : Operations, id : 0 .. MaxTurns, policy : Policies \union {"shell"},
             mode : Modes \union {"agent"}]
  /\ out \in RuntimeEvents
  /\ log \in Seq([type : {"turn_started"} \union TurnEnds, id : 1 .. MaxTurns])
  /\ ui \in {"prompt", "drain", "error", "exited"}
  /\ turns \in 0 .. MaxTurns
  /\ breaks \in 0 .. MaxBreaks

\* A task leaves at most one final message in the conversation, however it
\* ends: the stop of the controller, the end of the loop and the end of a
\* direct answer each append one of their own.
OneOutcome == Len(outcomes) <= 1

\* has_pending_approval ("Whether the runtime is paused waiting on approval"):
\* a pending approval always belongs to a generator that is suspended at the
\* very request, or is being resumed from it.
PendingIsSuspendedRequest ==
  pending # 0 =>
    /\ agentIter = "live"
    /\ \/ pc = "open_wait" /\ AskedForApproval
       \/ driver = "resume"

\* The approval policy "deny" holds to the end of the turn: nothing that needs
\* an approval in the mode in force runs on anybody's word but the guardian's.
DenyNeverExecutes ==
  pc = "tool" /\ sub.policy = "deny" =>
    ~RequiresToolApproval(CurrentCall, approvalMode) \/ batch.grant = "guardian"

\* A turn is dispatched, or answered in chat mode, only when no earlier task can
\* still run: its generator is gone, nobody waits for an approval, and the final
\* message of the turn to come is not yet in the history.
NoOverlap ==
  driver = "triage" \/ (driver = "stream" /\ sub.mode = "chat") =>
    agentIter = "none" /\ pc = "idle" /\ ~HasActiveTask

\* controller.stop: "Stop the current task and reset controller state."  A
\* task that starts afterwards is interrupted only if the user asks again.
InterruptedOnlyWhenAsked == out = "turn_interrupted" => stopAsked

\* docs/cli-and-ux.md:298: Ctrl+C while the agent executes: "Stop the current
\* task, record a warning-style `stopped` outcome, and return to the prompt";
\* 304: it "does not crash the application".  Every break is a Ctrl+C in the run
\* that checks it.
CtrlCReturnsPrompt == breaks > 0 ~> ui = "prompt"

\* An approval that is asked for is decided.
ApprovalDecided == pc = "approval" ~> pc # "approval"

\* A turn the user stops at its approval prompt gives the prompt back, whatever
\* a pause, a resumed generator or an exception of an earlier turn has left.
InterruptReturnsPrompt == stopAsked /\ ui = "drain" ~> ui = "prompt"
-----------------------------------------------------------------------------
(* The runtime implements the life cycle of turns; a turn's state is read   *)
(* off the event log, the queue and the pending approval.                   *)

TurnIds == 1 .. MaxTurns

LoggedEnds(t) == {i \in DOMAIN log : log[i].id = t /\ log[i].type # "turn_started"}
LoggedStart(t) == \E i \in DOMAIN log : log[i] = [type |-> "turn_started", id |-> t]
Held(t) == current = t \/ \E i \in DOMAIN queue : queue[i].id = t

TurnStatus(t) ==
  IF t > turns THEN "new"
  ELSE IF LoggedEnds(t) # {} THEN "ended"
  ELSE IF ~LoggedStart(t) THEN "queued"
  ELSE IF ~Held(t) THEN "abandoned"
  ELSE IF pending = t THEN "paused" ELSE "running"

Lifecycle == INSTANCE TurnLifecycle WITH
  Turns <- TurnIds,
  status <- [t \in TurnIds |-> TurnStatus(t)],
  reports <- [t \in TurnIds |-> Cardinality(LoggedEnds(t))]

\* Every behaviour of the runtime is one of the life cycle: turns start in
\* order and one at a time, and each reports its end at most once.
ImplementsTurnLifecycle == Lifecycle!LifecycleSpec
=============================================================================
