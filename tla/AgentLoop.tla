------------------------------ MODULE AgentLoop ------------------------------
(***************************************************************************)
(* AgentLoop.arun and its helpers (agents/loop.py): one task is a plan of  *)
(* steps, a step is a series of model rounds, a round may carry a batch of *)
(* tool calls that pass the safety layer.                                  *)
(*                                                                         *)
(* The loop is an async generator.  It runs from one suspension to the     *)
(* next: a `yield` (event # NoEvent until the consumer takes it) or an     *)
(* `await` (pc in Awaits).  Between suspensions nothing else runs, so an   *)
(* intermediate control point is a step of the loop only.                  *)
(***************************************************************************)
EXTENDS Integers, Sequences, FiniteSets, FailurePolicy, SafetyPolicy

CONSTANTS
  MaxRounds,         \* AgentLoop(max_step_rounds=24)
  UnifiedTurnLoop,   \* AgentLoop(unified_turn_loop=True)
  TimeoutEnabled,    \* an inactivity timeout is configured
  Kinds,             \* the kinds of tool call the model may emit
  MaxBatch,          \* bound: tool calls in one model response
  MaxSteps           \* bound: steps in a plan

ASSUME LoopAssumption ==
  /\ MaxRounds \in Nat \ {0}
  /\ UnifiedTurnLoop \in BOOLEAN
  /\ TimeoutEnabled \in BOOLEAN
  /\ Kinds \subseteq CallKinds
  /\ MaxBatch \in Nat \ {0}
  /\ MaxSteps \in Nat \ {0}

VARIABLES
  pc,              \* where the generator is (or will resume)
  event,           \* the event yielded and not yet taken, or NoEvent
  plan,            \* TaskPlan: the statuses of its steps, and its own
  step,            \* locals of _arun_step_async and the _AsyncStepDone fields
  batch,           \* locals of _ahandle_tool_calls_async
  stopRequested,   \* self._stop_requested
  approvalWait,    \* self._approval_wait: absent, pending, or its outcome
  approvalMode     \* SafetyLayer's ApprovalManager.mode

taskVars == <<pc, event, plan, step, batch, approvalWait>>
loopVars == <<taskVars, stopRequested, approvalMode>>
-----------------------------------------------------------------------------
NoEvent == [type |-> "none", arg |-> ""]
Event(type, arg) == [type |-> type, arg |-> arg]

Finals == {"task_complete", "task_stopped", "task_timed_out", "task_failed"}

EventTypes ==
  {"none", "phase", "plan_generated", "plan_updated", "step_started", "tool_request",
   "tool_result", "guardian_started", "guardian_completed"} \union Finals

\* What the properties tell apart of an event: its phase, the status of its
\* result, whether a request needs approval, the failure type.
EventArgs ==
  {"", "planning", "executing", "waiting_approval", "retrying", "replanning",
   "recovering", "failed", "auto", "approval", "approved", NoFailure}
  \union ToolStatuses \union FailureClasses

\* The awaits of the generator: model round, planner, guardian, tool thread,
\* parallel tool threads, approval future.
Awaits == {"model", "revise", "guardian", "tool", "gather", "approval"}

Points ==
  Awaits \union
  {"idle", "generate", "announce", "loop_head", "round_head", "call", "ask",
   "open_wait", "guard_ask", "guard_start", "deny", "recover", "batch_done",
   "par_request", "par_result", "par_recover", "step_done", "stop_exit",
   "fail_update", "fail_report", "exit"}

\* The generator is running at point p.
At(p) == pc = p /\ event = NoEvent

\* Other code may run: at a yield, in an await, or with no task.
Suspended == event # NoEvent \/ pc \in Awaits \/ pc = "idle"

Yield(type, arg, next) == event' = Event(type, arg) /\ pc' = next
GoTo(next) == pc' = next /\ UNCHANGED event
-----------------------------------------------------------------------------
StepStatuses == {"pending", "in_progress", "completed", "failed", "skipped"}
PlanStatuses ==
  {"planning", "executing", "completed", "failed", "timed_out", "stopped"}

IndicesIn(p, status) == {i \in DOMAIN p.steps : p.steps[i] = status}

HasNextStep(p) == IndicesIn(p, "pending") # {}

LastStepMutant(p) ==
  CHOOSE i \in IndicesIn(p, "pending") : \A j \in IndicesIn(p, "pending") : i >= j

NextStep(p) ==
  CHOOSE i \in IndicesIn(p, "pending") : \A j \in IndicesIn(p, "pending") : i <= j

BootstrapPlan == [steps |-> <<"pending">>, status |-> "planning"]

MarkRunning(p, status) ==
  [i \in DOMAIN p.steps |->
     IF p.steps[i] = "in_progress" THEN status ELSE p.steps[i]]

ForgetCompletedMutant(p, n) == [i \in 1 .. n |-> "pending"]

\* The completed steps of the old plan, then n pending ones from the planner.
PreserveCompletedSteps(p, n) ==
  LET kept == Cardinality(IndicesIn(p, "completed"))
  IN  [i \in 1 .. kept + n |-> IF i <= kept THEN "completed" ELSE "pending"]

StopPlan(p) ==
  [steps |-> IF HasNextStep(p) THEN MarkRunning(p, "skipped") ELSE p.steps,
   status |-> "stopped"]
-----------------------------------------------------------------------------
NewStep ==
  [round |-> 0, observed |-> FALSE, counters |-> NoCounters, attempts |-> 0,
   failure |-> NoFailure, kind |-> "", summary |-> FALSE]

NoBatch ==
  [calls |-> <<>>, idx |-> 1, answered |-> <<>>, failure |-> NoFailure,
   grant |-> "none", results |-> <<>>]

CurrentCall == batch.calls[batch.idx]
MoreCalls == batch.idx <= Len(batch.calls)

\* A tool message is appended for the current call; the first failure of the
\* batch is the one that is kept.
Answer(b, status) ==
  [b EXCEPT !.answered = Append(@, b.idx),
            !.failure = IF @ = NoFailure THEN ClassifyToolFailure(status) ELSE @]

\* update_failure_counters and the fields the loop derives from it.
CountFailure(s, class) ==
  [s EXCEPT !.failure = class,
            !.counters = UpdateFailureCounters(@, class),
            !.attempts = s.counters[class] + 1]

SpentOneLateMutant(s, class) == s.counters[class] + 1 > RetryBudget(class)

BudgetSpent(s, class) == s.counters[class] + 1 >= RetryBudget(class)

RetryOrExhaust(counted, class, kind) ==
  IF BudgetSpent(step, class)
    THEN /\ step' = [counted EXCEPT !.kind = kind, !.summary = FALSE]
         /\ GoTo("step_done")
    ELSE /\ step' = counted
         /\ Yield("phase", "retrying", "round_head")
-----------------------------------------------------------------------------
LoopInit ==
  /\ pc = "idle"
  /\ event = NoEvent
  /\ plan = BootstrapPlan
  /\ step = NewStep
  /\ batch = NoBatch
  /\ stopRequested = FALSE
  /\ approvalWait = "absent"
  /\ approvalMode \in ApprovalModes

\* The first anext() of arun, given the controller's bootstrap plan.
StartRun ==
  /\ At("idle")
  /\ plan' = BootstrapPlan
  /\ step' = NewStep
  /\ batch' = NoBatch
  /\ Yield("phase", "planning", "generate")
  /\ UNCHANGED approvalWait

GeneratePlan ==
  /\ At("generate")
  /\ plan' = [plan EXCEPT !.status = "executing"]
  /\ Yield("plan_generated", "", "announce")
  /\ UNCHANGED <<step, batch, approvalWait>>

AnnounceExecuting ==
  /\ At("announce")
  /\ Yield("phase", "executing", "loop_head")
  /\ UNCHANGED <<plan, step, batch, approvalWait>>

LeaveLoop ==
  /\ At("loop_head")
  /\ stopRequested
  /\ GoTo("stop_exit")
  /\ UNCHANGED <<plan, step, batch, approvalWait>>

TimeOut ==
  /\ At("loop_head")
  /\ ~stopRequested
  /\ TimeoutEnabled
  /\ plan' = [plan EXCEPT !.status = "timed_out"]
  /\ Yield("task_timed_out", "", "exit")
  /\ UNCHANGED <<step, batch, approvalWait>>

CompleteTask ==
  /\ At("loop_head")
  /\ ~stopRequested
  /\ ~HasNextStep(plan)
  /\ plan' = [plan EXCEPT !.status = "completed"]
  /\ Yield("task_complete", "", "exit")
  /\ UNCHANGED <<step, batch, approvalWait>>

StartStep ==
  /\ At("loop_head")
  /\ ~stopRequested
  /\ HasNextStep(plan)
  /\ plan' = [plan EXCEPT !.steps[NextStep(plan)] = "in_progress"]
  /\ step' = NewStep
  /\ batch' = NoBatch
  /\ Yield("step_started", "", "round_head")
  /\ UNCHANGED approvalWait

StopWithoutReturnMutant ==
  /\ At("stop_exit")
  /\ plan' = StopPlan(plan)
  /\ Yield("task_stopped", "", "loop_head")
  /\ UNCHANGED <<step, batch, approvalWait>>

StopTask ==
  /\ At("stop_exit")
  /\ plan' = StopPlan(plan)
  /\ Yield("task_stopped", "", "exit")
  /\ UNCHANGED <<step, batch, approvalWait>>

FinishRun ==
  /\ At("exit")
  /\ GoTo("idle")
  /\ UNCHANGED <<plan, step, batch, approvalWait>>
-----------------------------------------------------------------------------
(* _arun_step_async: model rounds.                                          *)

RoundsSpent == step.round >= MaxRounds

SpendRounds ==
  /\ At("round_head")
  /\ RoundsSpent
  /\ step' = [step EXCEPT !.kind = "round", !.summary = FALSE]
  /\ GoTo("step_done")
  /\ UNCHANGED <<plan, batch, approvalWait>>

AbandonStep ==
  /\ At("round_head")
  /\ ~RoundsSpent
  /\ stopRequested
  /\ step' = [step EXCEPT !.summary = FALSE]
  /\ GoTo("step_done")
  /\ UNCHANGED <<plan, batch, approvalWait>>

UncountedRoundMutant ==
  /\ At("round_head")
  /\ ~stopRequested
  /\ GoTo("model")
  /\ UNCHANGED <<plan, step, batch, approvalWait>>

CallModel ==
  /\ At("round_head")
  /\ ~RoundsSpent
  /\ ~stopRequested
  /\ step' = [step EXCEPT !.round = @ + 1]
  /\ GoTo("model")
  /\ UNCHANGED <<plan, batch, approvalWait>>

ModelFails(class, reported) ==
  /\ At("model")
  /\ RetryOrExhaust([CountFailure(step, class) EXCEPT !.observed = @ \/ reported],
                    class, "model")
  /\ UNCHANGED <<plan, batch, approvalWait>>

ModelCallsTools(calls) ==
  /\ At("model")
  /\ step' = [step EXCEPT !.observed = TRUE]
  /\ batch' = [NoBatch EXCEPT !.calls = calls]
  /\ GoTo(IF ParallelReadOnly(calls, approvalMode) THEN "par_request" ELSE "call")
  /\ UNCHANGED <<plan, approvalWait>>

ModelAnswers ==
  /\ At("model")
  /\ step' = [step EXCEPT !.observed = TRUE, !.summary = TRUE]
  /\ GoTo("step_done")
  /\ UNCHANGED <<plan, batch, approvalWait>>

\* No text and no tool calls: earlier observations stand in for the summary.
ModelSaysNothing ==
  /\ At("model")
  /\ IF step.observed
       THEN step' = [step EXCEPT !.summary = TRUE] /\ GoTo("step_done")
       ELSE UNCHANGED step /\ GoTo("round_head")
  /\ UNCHANGED <<plan, batch, approvalWait>>

FinishBatch ==
  /\ At("batch_done")
  /\ IF batch.failure # NoFailure
       THEN RetryOrExhaust(CountFailure(step, batch.failure), batch.failure, "tool")
       ELSE /\ step' = [step EXCEPT !.counters = NoCounters, !.attempts = 0,
                                    !.failure = NoFailure]
            /\ GoTo("round_head")
  /\ UNCHANGED <<plan, batch, approvalWait>>
-----------------------------------------------------------------------------
(* _ahandle_tool_calls_async: calls one after the other.                    *)

UnansweredCallMutant ==
  /\ At("call")
  /\ MoreCalls
  /\ CurrentCall \in Unresolved
  /\ batch' = [batch EXCEPT !.idx = @ + 1]
  /\ Yield("tool_result", "error", "call")
  /\ UNCHANGED <<plan, step, approvalWait>>

\* An unknown tool or unparsable arguments; no recovering phase is yielded.
RejectCall ==
  /\ At("call")
  /\ MoreCalls
  /\ CurrentCall \in Unresolved
  /\ batch' = [Answer(batch, "error") EXCEPT !.idx = @ + 1]
  /\ Yield("tool_result", "error", "call")
  /\ UNCHANGED <<plan, step, approvalWait>>

Decision == CheckAndApprove(CurrentCall, approvalMode)

Resolved == At("call") /\ MoreCalls /\ CurrentCall \notin Unresolved

BlockCall ==
  /\ Resolved
  /\ Decision = "blocked"
  /\ batch' = Answer(batch, "blocked")
  /\ Yield("tool_result", "blocked", "recover")
  /\ UNCHANGED <<plan, step, approvalWait>>

RequestAutomatic ==
  /\ Resolved
  /\ Decision = "approved"
  /\ batch' = [batch EXCEPT !.grant = "policy"]
  /\ Yield("tool_request", "auto", "tool")
  /\ UNCHANGED <<plan, step, approvalWait>>

AnnounceApproval ==
  /\ Resolved
  /\ Decision = "needs_approval"
  /\ batch' = [batch EXCEPT !.grant = "none"]
  /\ Yield("phase", "waiting_approval",
           IF RouteToGuardian(CurrentCall) THEN "guard_ask" ELSE "ask")
  /\ UNCHANGED <<plan, step, approvalWait>>

RequestApproval ==
  /\ At("ask")
  /\ Yield("tool_request", "approval", "open_wait")
  /\ UNCHANGED <<plan, step, batch, approvalWait>>

\* _await_tool_approval creates the future only when the consumer resumes it.
OpenApprovalWait ==
  /\ At("open_wait")
  /\ approvalWait' = "pending"
  /\ GoTo("approval")
  /\ UNCHANGED <<plan, step, batch>>

ApprovalArrives ==
  /\ At("approval")
  /\ approvalWait \in {"approved", "denied"}
  /\ approvalWait' = "absent"
  /\ IF approvalWait = "approved"
       THEN batch' = [batch EXCEPT !.grant = "user"] /\ GoTo("tool")
       ELSE UNCHANGED batch /\ GoTo("deny")
  /\ UNCHANGED <<plan, step>>

RequestGuardian ==
  /\ At("guard_ask")
  /\ Yield("tool_request", "auto", "guard_start")
  /\ UNCHANGED <<plan, step, batch, approvalWait>>

StartGuardianReview ==
  /\ At("guard_start")
  /\ Yield("guardian_started", "", "guardian")
  /\ UNCHANGED <<plan, step, batch, approvalWait>>

GuardianDecides(approved) ==
  /\ At("guardian")
  /\ IF approved
       THEN /\ batch' = [batch EXCEPT !.grant = "guardian"]
            /\ Yield("guardian_completed", "approved", "tool")
       ELSE /\ UNCHANGED batch
            /\ Yield("guardian_completed", "denied", "deny")
  /\ UNCHANGED <<plan, step, approvalWait>>

DenyCall ==
  /\ At("deny")
  /\ batch' = Answer(batch, "denied")
  /\ Yield("tool_result", "denied", "recover")
  /\ UNCHANGED <<plan, step, approvalWait>>

ToolReturns(status) ==
  /\ At("tool")
  /\ IF status = "success"
       THEN /\ batch' = [Answer(batch, status) EXCEPT !.idx = @ + 1]
            /\ Yield("tool_result", status, "call")
       ELSE /\ batch' = Answer(batch, status)
            /\ Yield("tool_result", status, "recover")
  /\ UNCHANGED <<plan, step, approvalWait>>

AnnounceRecovery ==
  /\ At("recover")
  /\ batch' = [batch EXCEPT !.idx = @ + 1]
  /\ Yield("phase", "recovering", "call")
  /\ UNCHANGED <<plan, step, approvalWait>>

EndCalls ==
  /\ At("call")
  /\ ~MoreCalls
  /\ GoTo("batch_done")
  /\ UNCHANGED <<plan, step, batch, approvalWait>>
-----------------------------------------------------------------------------
(* _ahandle_tool_calls_async: a read-only batch run on worker threads.      *)

RequestParallel ==
  /\ At("par_request")
  /\ MoreCalls
  /\ batch' = [batch EXCEPT !.idx = @ + 1]
  /\ Yield("tool_request", "auto", "par_request")
  /\ UNCHANGED <<plan, step, approvalWait>>

StartParallel ==
  /\ At("par_request")
  /\ ~MoreCalls
  /\ batch' = [batch EXCEPT !.idx = 1, !.grant = "policy"]
  /\ GoTo("gather")
  /\ UNCHANGED <<plan, step, approvalWait>>

\* asyncio.gather returns the results in the order of the calls, whatever the
\* order in which the threads finished.
GatherResults(results) ==
  /\ At("gather")
  /\ batch' = [batch EXCEPT !.results = results]
  /\ GoTo("par_result")
  /\ UNCHANGED <<plan, step, approvalWait>>

ReportParallel ==
  /\ At("par_result")
  /\ MoreCalls
  /\ LET status == batch.results[batch.idx]
     IN IF status = "success"
          THEN /\ batch' = [Answer(batch, status) EXCEPT !.idx = @ + 1]
               /\ Yield("tool_result", status, "par_result")
          ELSE /\ batch' = Answer(batch, status)
               /\ Yield("tool_result", status, "par_recover")
  /\ UNCHANGED <<plan, step, approvalWait>>

AnnounceParallelRecovery ==
  /\ At("par_recover")
  /\ batch' = [batch EXCEPT !.idx = @ + 1]
  /\ Yield("phase", "recovering", "par_result")
  /\ UNCHANGED <<plan, step, approvalWait>>

EndParallel ==
  /\ At("par_result")
  /\ ~MoreCalls
  /\ GoTo("batch_done")
  /\ UNCHANGED <<plan, step, batch, approvalWait>>
-----------------------------------------------------------------------------
(* arun: what it does with a finished step.                                 *)

\* Whether an unfinished step is handed to the planner or fails the task.
Replans ==
  \/ /\ step.kind \in {"model", "tool"}
     /\ ShouldReplan(step.failure)
  \/ /\ ~UnifiedTurnLoop
     /\ step.kind # "model"
     /\ step.attempts >= MaxConsecutiveErrors

StepStopped ==
  /\ At("step_done")
  /\ stopRequested
  /\ GoTo("stop_exit")
  /\ UNCHANGED <<plan, step, batch, approvalWait>>

CompleteStep ==
  /\ At("step_done")
  /\ ~stopRequested
  /\ step.summary
  /\ plan' = [plan EXCEPT !.steps = MarkRunning(plan, "completed")]
  /\ Yield("plan_updated", "", "loop_head")
  /\ UNCHANGED <<step, batch, approvalWait>>

StartReplan ==
  /\ At("step_done")
  /\ ~stopRequested
  /\ ~step.summary
  /\ Replans
  /\ Yield("phase", "replanning", "revise")
  /\ UNCHANGED <<plan, step, batch, approvalWait>>

\* arevise_plan answers with n pending steps (a heuristic plan when the
\* model's answer cannot be parsed), _preserve_completed_steps merges them.
RevisePlan(n) ==
  /\ At("revise")
  /\ plan' = [steps |-> PreserveCompletedSteps(plan, n), status |-> "executing"]
  /\ Yield("plan_updated", "", "announce")
  /\ UNCHANGED <<step, batch, approvalWait>>

FailStep ==
  /\ At("step_done")
  /\ ~stopRequested
  /\ ~step.summary
  /\ ~Replans
  /\ plan' = [steps |-> MarkRunning(plan, "failed"), status |-> "failed"]
  /\ Yield("phase", "failed", "fail_update")
  /\ UNCHANGED <<step, batch, approvalWait>>

ReportFailedStep ==
  /\ At("fail_update")
  /\ Yield("plan_updated", "", "fail_report")
  /\ UNCHANGED <<plan, step, batch, approvalWait>>

FailureType == IF UnifiedTurnLoop /\ step.kind = "round" THEN "unknown" ELSE step.failure

FailTask ==
  /\ At("fail_report")
  /\ Yield("task_failed", FailureType, "exit")
  /\ UNCHANGED <<plan, step, batch, approvalWait>>
-----------------------------------------------------------------------------
(* An exception out of an await (provider, tool, cancellation, Ctrl+C)      *)
(* unwinds the generator: no final event; _await_tool_approval's finally    *)
(* clears the future.                                                       *)
AwaitRaises ==
  /\ pc \in Awaits
  /\ event = NoEvent
  /\ GoTo("idle")
  /\ approvalWait' = "absent"
  /\ UNCHANGED <<plan, step, batch>>

\* stop() has cancelled the pending future.
ApprovalCancelled == approvalWait = "cancelled" /\ AwaitRaises

Batches == UNION {[1 .. n -> Kinds] : n \in 1 .. MaxBatch}

RunResults == {"success", "timeout", "error"}

RoomForSteps == MaxSteps - Cardinality(IndicesIn(plan, "completed"))

\* Steps of the generator itself.
LoopSegment ==
  \/ GeneratePlan \/ AnnounceExecuting \/ LeaveLoop \/ TimeOut \/ CompleteTask
  \/ StartStep \/ StopTask \/ FinishRun \/ SpendRounds \/ AbandonStep \/ CallModel
  \/ FinishBatch \/ RejectCall \/ BlockCall \/ RequestAutomatic
  \/ AnnounceApproval \/ RequestApproval \/ OpenApprovalWait \/ ApprovalArrives
  \/ RequestGuardian \/ StartGuardianReview \/ DenyCall \/ AnnounceRecovery
  \/ EndCalls \/ RequestParallel \/ StartParallel \/ ReportParallel
  \/ AnnounceParallelRecovery \/ EndParallel \/ StepStopped \/ CompleteStep
  \/ StartReplan \/ FailStep \/ ReportFailedStep \/ FailTask \/ ApprovalCancelled

\* Answers of what the generator awaits: model, planner, guardian, tools.
AwaitedReturns ==
  \/ \E class \in ModelFailureClasses, reported \in BOOLEAN : ModelFails(class, reported)
  \/ \E calls \in Batches : ModelCallsTools(calls)
  \/ ModelAnswers
  \/ ModelSaysNothing
  \/ \E approved \in BOOLEAN : GuardianDecides(approved)
  \/ \E status \in RunResults : ToolReturns(status)
  \/ \E results \in [DOMAIN batch.calls -> RunResults] : GatherResults(results)
  \/ \E n \in 1 .. RoomForSteps : RevisePlan(n)

LoopRuns == (LoopSegment \/ AwaitedReturns) /\ UNCHANGED <<stopRequested, approvalMode>>

\* AgentLoop.stop
Stop ==
  /\ stopRequested' = TRUE
  /\ approvalWait' = IF approvalWait = "pending" THEN "cancelled" ELSE approvalWait

\* AgentLoop.supply_tool_approval: dropped unless the future is waiting.
SupplyToolApproval(approved) ==
  approvalWait' =
    IF approvalWait = "pending"
      THEN (IF approved THEN "approved" ELSE "denied")
      ELSE approvalWait
-----------------------------------------------------------------------------
(* The loop on its own: a consumer that takes every event, a user who may   *)
(* stop the task or answer an approval whenever the loop is suspended.      *)

TakeEvent ==
  /\ event # NoEvent
  /\ event' = NoEvent
  /\ UNCHANGED <<pc, plan, step, batch, approvalWait, stopRequested, approvalMode>>

StartTask == StartRun /\ UNCHANGED <<stopRequested, approvalMode>>

UserStops ==
  /\ Suspended
  /\ pc # "idle"
  /\ ~stopRequested
  /\ Stop
  /\ UNCHANGED <<pc, event, plan, step, batch, approvalMode>>

UserAnswers(approved) ==
  /\ Suspended
  /\ approvalWait = "pending"
  /\ SupplyToolApproval(approved)
  /\ UNCHANGED <<pc, event, plan, step, batch, stopRequested, approvalMode>>

UserGoesAutonomous ==
  /\ Suspended
  /\ approvalMode' = "autonomous"
  /\ UNCHANGED <<taskVars, stopRequested>>

AwaitFails == AwaitRaises /\ UNCHANGED <<stopRequested, approvalMode>>

LoopNext ==
  \/ StartTask
  \/ TakeEvent
  \/ LoopRuns
  \/ UserStops
  \/ \E approved \in BOOLEAN : UserAnswers(approved)
  \/ UserGoesAutonomous
  \/ AwaitFails

LoopSpec == LoopInit /\ [][LoopNext]_loopVars

\* The consumer drains the stream, awaited calls return, and an approval that
\* is asked for is answered; nobody has to start, stop or break a task.
LoopFairSpec ==
  /\ LoopSpec
  /\ WF_loopVars(TakeEvent)
  /\ WF_loopVars(LoopRuns)
  /\ WF_loopVars(\E approved \in BOOLEAN : UserAnswers(approved))
-----------------------------------------------------------------------------
(* Properties.                                                              *)

Events == [type : EventTypes, arg : EventArgs]

Plans == [steps : Seq(StepStatuses), status : PlanStatuses]

StepLocals ==
  [round : 0 .. MaxRounds, observed : BOOLEAN, counters : [FailureClasses -> Nat],
   attempts : Nat, failure : FailureClasses \union {NoFailure},
   kind : {"", "model", "tool", "round"}, summary : BOOLEAN]

BatchLocals ==
  [calls : Seq(Kinds), idx : Nat \ {0}, answered : Seq(Nat),
   failure : FailureClasses \union {NoFailure},
   grant : {"none", "policy", "user", "guardian"}, results : Seq(RunResults)]

LoopTypeOK ==
  /\ pc \in Points
  /\ event \in Events
  /\ plan \in Plans
  /\ step \in StepLocals
  /\ batch \in BatchLocals
  /\ stopRequested \in BOOLEAN
  /\ approvalWait \in {"absent", "pending", "approved", "denied", "cancelled"}
  /\ approvalMode \in ApprovalModes

Permitted(kind) == kind \notin Unresolved /\ ~Blocked(kind)

\* A tool runs only when the policy in force lets it: never a call the posture
\* or the boundary blocks, and one that needs approval only with the user's or
\* the guardian's approval of this very call, even though a batch goes on to
\* other calls and the approval mode may change under it.  Calls that run on
\* parallel threads are read-only and need no approval at all.  What needs
\* approval is what requires_tool_approval says: not a tool registered without
\* it, so that a model may spawn, feed and close agents unasked.
ExecutionAuthorised ==
  /\ pc = "tool" =>
       /\ Permitted(CurrentCall)
       /\ RequiresToolApproval(CurrentCall, approvalMode) => batch.grant \in {"user", "guardian"}
  /\ pc = "gather" =>
       \A i \in DOMAIN batch.calls :
         /\ Permitted(batch.calls[i])
         /\ ReadOnly(batch.calls[i])
         /\ ~RequiresToolApproval(batch.calls[i], approvalMode)

\* When a batch is folded back into the conversation every tool call the model
\* made has exactly one tool message, in the order of the calls: a provider
\* rejects a conversation with an unanswered call.
EveryCallAnswered ==
  pc = "batch_done" => batch.answered = [i \in DOMAIN batch.calls |-> i]

\* A model round never starts with a retry budget already spent: the step has
\* been given up at the failure that used up the budget of its class.
RoundsWithinBudget ==
  pc = "model" =>
    \A class \in FailureClasses : step.counters[class] < RetryBudget(class)

\* Steps run strictly in order, also across replanning: whatever precedes a
\* step that has started is completed; a plan reported complete has nothing
\* left, and a replanned or finished one has no step still running.
PlanInOrder ==
  /\ \A i, j \in DOMAIN plan.steps :
       i < j /\ plan.steps[j] # "pending" => plan.steps[i] = "completed"
  /\ plan.status = "completed" => \A i \in DOMAIN plan.steps : plan.steps[i] = "completed"
  /\ plan.status = "failed" => IndicesIn(plan, "in_progress") = {}

\* A task never loses a completed step, whatever the planner answers.
CompletedStepsKept ==
  [][pc # "idle" =>
       Cardinality(IndicesIn(plan', "completed")) >= Cardinality(IndicesIn(plan, "completed"))]_loopVars

\* A stop request always ends the task, wherever it finds the loop.
StopEndsTask == stopRequested /\ pc # "idle" ~> pc = "idle"

\* Whatever the model and the tools answer, a step comes to an end: its rounds
\* and its retries are bounded.
StepEnds == pc = "model" ~> pc \in {"step_done", "idle"}

\* docs/agent-system.md:453: "repeated model/tool failures now terminate with
\* explicit threshold reasons".
TaskEnds == pc = "generate" ~> pc = "idle"
=============================================================================
