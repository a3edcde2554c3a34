---------------------------- MODULE ContextWindow ----------------------------
(***************************************************************************)
(* What of a session the model is shown: the history with its compaction,  *)
(* the instructions in force, the memory of the workspace, the usage that  *)
(* decides when to compact, and the changes of the turn context since the  *)
(* prompt before.  (session/compactor.py, instructions.py, memory.py,      *)
(* usage.py, context_diff.py, task_context.py, agents/chat.py)             *)
(*                                                                         *)
(* A message is named by a number; an entry of the history has a role, a   *)
(* size in tokens and the message it is, or, if it is a summary, the       *)
(* messages it replaces, those of them it tells of, and who made it.       *)
(***************************************************************************)
EXTENDS Naturals, Sequences, FiniteSets, SequencesExt

CONSTANTS
    RecentKept,    \* keep_recent
    FallbackShows, \* messages the fallback summary renders (12)
    DiffShown,     \* max_items of a rendered diff (12)
    WindowLimit,   \* tokens from which history is compacted
    UserSizes,     \* sizes of what the user types
    Pins,          \* instructions a user may pin
    MemoryItems,   \* entries of memory kept in a session
    MaxInputs,     \* bound on the inputs
    MaxSideSteps   \* bound on commands and edits between them

ASSUME ContextWindowAssumption ==
    /\ RecentKept \in Nat \ {0} /\ FallbackShows \in Nat \ {0} /\ DiffShown \in Nat
    /\ WindowLimit \in Nat /\ MaxInputs \in Nat /\ MaxSideSteps \in Nat
    /\ MemoryItems \in Nat /\ UserSizes \subseteq Nat

VARIABLES
    shown_history, \* Session.history
    said,          \* messages of the session so far
    pinned,        \* pinned_instructions
    agents_md,     \* version of AGENTS.md in the workspace
    instruction,   \* workspace_instruction in the metadata
    memories,      \* long_horizon_memory: summaries, by what they replace
    observed,      \* usage_budget.latest: prompt tokens, 0 when unknown
    baseline,      \* context_diff_baseline, NoBaseline at first
    told,          \* what the diffs shown to the agent add up to
    unshown,       \* fields whose last change was left out of its diff (history)
    request_,      \* the messages of the last request
    inTurn,
    inputs, sideSteps

diffVars == <<baseline, told, unshown>>
contextVars == <<shown_history, said, pinned, agents_md, instruction, memories, observed,
                 diffVars, request_, inTurn, inputs, sideSteps>>

EntryOf(role, id, size) ==
    [role |-> role, ids |-> <<id>>, tells |-> {id}, by |-> "speaker", size |-> size]
NoBaseline == [none |-> TRUE]
NoRequest == [system |-> << >>, pins |-> {}, repo |-> 0, memory |-> << >>, talk |-> << >>]

ContextInit ==
    /\ shown_history = << >> /\ said = 0 /\ pinned = {}
    /\ agents_md \in {0, 1} /\ instruction = agents_md
    /\ memories = << >> /\ observed = 0
    /\ baseline = NoBaseline /\ told = [x \in {} |-> 0] /\ unshown = {}
    /\ request_ = NoRequest
    /\ inTurn = FALSE /\ inputs = 0 /\ sideSteps = 0
-----------------------------------------------------------------------------
(* Compaction. *)

SizeOf(entries) == FoldLeft(LAMBDA n, e : n + e.size, 0, entries)

(* build_instruction_messages counts with the history. *)
InstructionSize == Cardinality(pinned) + IF instruction = 0 THEN 0 ELSE 1

(* _estimate_context_tokens: what the provider last reported, if more;     *)
(* after a compaction that is the figure of the prompt before it, until a  *)
(* turn reports a new one.                                                 *)
Estimate(entries) ==
    LET heuristic == SizeOf(entries) + InstructionSize
    IN  IF observed > heuristic THEN observed ELSE heuristic

OverLimit(entries) == Estimate(entries) >= WindowLimit

(* Mutant: one message more is summarized than is left out.                *)
LosesOneMutant(entries) ==
    SubSeq(entries, Len(entries) - RecentKept + 2, Len(entries))

Recent(entries) == SubSeq(entries, Len(entries) - RecentKept + 1, Len(entries))
Older(entries) == SubSeq(entries, 1, Len(entries) - RecentKept)

Covers(entries) == FlattenSeq([k \in DOMAIN entries |-> entries[k].ids])

(* _fallback_summary: a line for each of the last messages, cut if it is   *)
(* long, so that a summary among them is hardly there any more.            *)
ToldByFallback(entries) ==
    LET shown == {k \in DOMAIN entries : k > Len(entries) - FallbackShows}
    IN  {entries[k].ids[1] : k \in {j \in shown : entries[j].role # "system"}}

(* _summarize_messages: what the model's summary tells is up to the model, *)
(* which is not shown the middle of a long transcript.                     *)
SummaryOf(entries, by) ==
    [role |-> "system", ids |-> Covers(entries), by |-> by, size |-> 1,
     tells |-> IF by = "fallback" THEN ToldByFallback(entries) ELSE {}]

Compacted(entries, by) ==
    IF Len(entries) <= RecentKept THEN entries
    ELSE <<SummaryOf(Older(entries), by)>> \o Recent(entries)

CompactedIfNeeded(entries, by) ==
    IF OverLimit(entries) THEN Compacted(entries, by) ELSE entries
-----------------------------------------------------------------------------
(* The request. *)

TalkRoles == {"user", "assistant", "tool"}

(* The loop over the history takes what has one of the roles, in its order. *)
EntriesIn(entries, roles) ==
    LET chosen[k \in 0..Len(entries)] ==
            IF k = 0 THEN << >>
            ELSE IF entries[k].role \in roles THEN Append(chosen[k - 1], entries[k])
            ELSE chosen[k - 1]
    IN  chosen[Len(entries)]

SystemEntries(entries) == EntriesIn(entries, {"system"})
TalkEntries(entries) == EntriesIn(entries, TalkRoles)

(* build_conversation_model_messages: instructions and summaries in the    *)
(* leading system message, then the rest.                                  *)
RequestFor(entries) ==
    [system |-> SystemEntries(entries), pins |-> pinned, repo |-> instruction,
     memory |-> memories, talk |-> TalkEntries(entries)]

(* build_turn_context_snapshot: a value for every field there is one for. *)
Snapshot ==
    LET fields == {"instructions", "memory"} \union (IF inTurn THEN {"task_state"} ELSE {})
    IN  [f \in fields |-> CASE f = "instructions" -> <<pinned, instruction>>
                            [] f = "memory" -> Len(memories)
                            [] OTHER -> inputs]

(* _diff_values and ContextDiffTracker.compute. *)
Before(old) == IF old = NoBaseline THEN [x \in {} |-> 0] ELSE old

DiffOf(old, new) ==
    LET before == Before(old)
        both == DOMAIN before \intersect DOMAIN new
    IN  [added |-> [f \in DOMAIN new \ DOMAIN before |-> new[f]],
         removed |-> DOMAIN before \ DOMAIN new,
         changed |-> [f \in {g \in both : before[g] # new[g]} |-> new[f]]]

ChangedIn(d) == DOMAIN d.added \union d.removed \union DOMAIN d.changed

(* render_context_diff_for_prompt: a long diff is cut after DiffShown      *)
(* fields, which are in the order of their names.                          *)
FieldRank == [instructions |-> 1, memory |-> 2, task_state |-> 3]
ShownOf(d) ==
    {f \in ChangedIn(d) :
        Cardinality({g \in ChangedIn(d) : FieldRank[g] < FieldRank[f]}) < DiffShown}

(* What somebody knows after the fields shown of a diff. *)
ApplyDiff(old, d, shown) ==
    LET given == DOMAIN d.added \union DOMAIN d.changed
    IN  [f \in (DOMAIN old \ (d.removed \intersect shown)) \union (given \intersect shown) |->
            IF f \in DOMAIN d.added \intersect shown THEN d.added[f]
            ELSE IF f \in DOMAIN d.changed \intersect shown THEN d.changed[f] ELSE old[f]]
-----------------------------------------------------------------------------
(* handle_input and _append_user_input: the input joins the history, which *)
(* is then compacted if need be, and the request is built.                 *)
BeginInput(size) ==
    /\ ~inTurn /\ inputs < MaxInputs
    /\ inputs' = inputs + 1
    /\ said' = said + 1
    /\ \E by \in {"model", "fallback"} :
         LET next == CompactedIfNeeded(Append(shown_history, EntryOf("user", said', size)), by)
         IN  shown_history' = next /\ request_' = RequestFor(next)
    /\ inTurn' = TRUE
    /\ UNCHANGED <<pinned, agents_md, instruction, memories, observed, diffVars, sideSteps>>

(* A round of the agent loop: _build_messages tells what changed and moves *)
(* the baseline, whether it was shown or not.                              *)
AgentRound ==
    /\ inTurn /\ baseline # Snapshot
    /\ baseline' = Snapshot
    /\ LET d == DiffOf(baseline, Snapshot) IN
       /\ told' = ApplyDiff(told, d, ShownOf(d))
       /\ unshown' = (unshown \union ChangedIn(d)) \ ShownOf(d)
    /\ UNCHANGED <<shown_history, said, pinned, agents_md, instruction, memories, observed,
                   request_, inTurn, inputs, sideSteps>>

(* A tool result of the agent is recorded in the history. *)
RecordResult ==
    /\ inTurn /\ said < 2 * MaxInputs
    /\ said' = said + 1
    /\ shown_history' = Append(shown_history, EntryOf("tool", said', 1))
    /\ UNCHANGED <<pinned, agents_md, instruction, memories, observed, diffVars,
                   request_, inTurn, inputs, sideSteps>>

(* The shell comes back to its prompt and reads AGENTS.md. *)
BackAtPrompt == inTurn' = FALSE /\ instruction' = agents_md

(* The answer, whose provider may have reported its usage. *)
EndAnswered(reported) ==
    /\ inTurn
    /\ said' = said + 1
    /\ shown_history' = Append(shown_history, EntryOf("assistant", said', 1))
    /\ observed' = IF reported THEN SizeOf(request_.system) + SizeOf(request_.talk) ELSE observed
    /\ BackAtPrompt
    /\ UNCHANGED <<pinned, agents_md, memories, diffVars, request_, inputs, sideSteps>>

(* Interrupted or failed: nothing is recorded. *)
EndUnanswered ==
    /\ inTurn
    /\ BackAtPrompt
    /\ UNCHANGED <<shown_history, said, pinned, agents_md, memories, observed, diffVars,
                   request_, inputs, sideSteps>>
-----------------------------------------------------------------------------
(* Between the inputs. *)

Aside == ~inTurn /\ sideSteps < MaxSideSteps /\ sideSteps' = sideSteps + 1 /\ UNCHANGED inputs

EditInstruction ==
    /\ sideSteps < MaxSideSteps /\ sideSteps' = sideSteps + 1
    /\ agents_md' = agents_md + 1
    /\ UNCHANGED <<shown_history, said, pinned, instruction, memories, observed, diffVars,
                   request_, inTurn, inputs>>

Pin(p) ==
    /\ Aside
    /\ pinned' = IF p \in pinned THEN pinned \ {p} ELSE pinned \union {p}
    /\ BackAtPrompt
    /\ UNCHANGED <<shown_history, said, agents_md, memories, observed, diffVars, request_>>

(* /session clear empties the history; usage, memory and baseline stay. *)
ClearHistory ==
    /\ Aside
    /\ shown_history' = << >> /\ said' = 0
    /\ BackAtPrompt
    /\ UNCHANGED <<pinned, agents_md, memories, observed, diffVars, request_>>

(* extract_session_memory_entries: the summaries, latest first. *)
ExtractedMemories ==
    LET summaries == Reverse(SystemEntries(shown_history))
    IN  SubSeq([k \in DOMAIN summaries |-> summaries[k].ids], 1,
               IF Len(summaries) < MemoryItems THEN Len(summaries) ELSE MemoryItems)

(* A save with the SQLite store; without a summary memory stays as it is. *)
SaveMemory ==
    /\ Aside
    /\ memories' = IF ExtractedMemories = << >> THEN memories ELSE ExtractedMemories
    /\ BackAtPrompt
    /\ UNCHANGED <<shown_history, said, pinned, agents_md, observed, diffVars, request_>>

ContextNext ==
    \/ \E size \in UserSizes : BeginInput(size)
    \/ AgentRound \/ RecordResult \/ EndUnanswered
    \/ \E reported \in BOOLEAN : EndAnswered(reported)
    \/ EditInstruction \/ ClearHistory \/ SaveMemory
    \/ \E p \in Pins : Pin(p)

ContextSpec == ContextInit /\ [][ContextNext]_contextVars
-----------------------------------------------------------------------------
(* Somebody knows the values of all fields but some. *)
Knows(known, values, but) ==
    \A f \in (DOMAIN known \union DOMAIN values) \ but :
        f \in DOMAIN known \intersect DOMAIN values /\ known[f] = values[f]

(* However often history is compacted, and however turns end: the messages *)
(* of a request are the latest of the session, verbatim, once each and in  *)
(* order, RecentKept of them or all, up to the input; the summary before   *)
(* them replaces all earlier ones and nothing else, and a fallback summary *)
(* tells of the last of these.  (What else a summary tells is open: the    *)
(* fallback shows some messages, the model may say anything.)  Of the      *)
(* context the agent knows every field as of its last round whose latest   *)
(* change was not left out of a diff that was too long.                    *)
RequestCoversSession ==
    LET ids == Covers(request_.system) \o Covers(request_.talk)
        talk == request_.talk
        replaced == Len(ids) - Len(talk)
    IN  /\ inTurn =>
             /\ ids = [k \in 1..Len(ids) |-> k]
             /\ \A k \in DOMAIN talk : talk[k].ids = <<replaced + k>>
             /\ talk[Len(talk)].role = "user"
             /\ Len(talk) >= RecentKept \/ replaced = 0
             /\ \A k \in DOMAIN request_.system :
                   request_.system[k].by = "fallback" => replaced \in request_.system[k].tells
             /\ Covers(shown_history) = [k \in 1..said |-> k]
        /\ Knows(told, Before(baseline), unshown)
=============================================================================
