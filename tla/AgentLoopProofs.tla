--------------------------- MODULE AgentLoopProofs ---------------------------
(***************************************************************************)
(* Theorems about the agent loop, for every round limit, batch size, plan  *)
(* size, sandbox posture, reviewer and set of tool-call kinds.             *)
(***************************************************************************)
EXTENDS AgentLoop, TLAPS, FiniteSetTheorems, SequenceTheorems, WellFoundedInduction

\* A function on 1 .. n is a sequence.
LEMMA FunctionIsSeq ==
  ASSUME NEW S, NEW n \in Nat, NEW f \in [1 .. n -> S]
  PROVE  f \in Seq(S) /\ Len(f) = n /\ DOMAIN f = 1 .. n
BY SeqDef

LEMMA SeqIsFunction ==
  ASSUME NEW S, NEW f \in Seq(S)
  PROVE  Len(f) \in Nat /\ f \in [1 .. Len(f) -> S] /\ DOMAIN f = 1 .. Len(f)
BY LenProperties

\* The batches the model may answer with are non-empty sequences of kinds.
LEMMA BatchesAreSequences ==
  ASSUME NEW calls \in Batches
  PROVE  calls \in Seq(Kinds) /\ Len(calls) >= 1
<1>1. PICK n \in 1 .. MaxBatch : calls \in [1 .. n -> Kinds]
  BY DEF Batches
<1>2. n \in Nat /\ n >= 1
  BY <1>1, LoopAssumption
<1> QED
  BY <1>1, <1>2, FunctionIsSeq

LEMMA CompletedIsFinite ==
  ASSUME NEW p, p.steps \in Seq(StepStatuses), NEW status
  PROVE  Cardinality(IndicesIn(p, status)) \in Nat
<1>1. DOMAIN p.steps = 1 .. Len(p.steps) /\ Len(p.steps) \in Nat
  BY SeqIsFunction
<1>2. IndicesIn(p, status) \in SUBSET (1 .. Len(p.steps))
  BY <1>1 DEF IndicesIn
<1>3. IsFiniteSet(1 .. Len(p.steps))
  BY <1>1, FS_Interval
<1> QED
  BY <1>2, <1>3, FS_Subset, FS_CardinalityType

\* What is done to the steps of a plan leaves a sequence of statuses.
LEMMA StepsStaySequences ==
  ASSUME NEW p, p.steps \in Seq(StepStatuses), NEW status \in StepStatuses
  PROVE  /\ MarkRunning(p, status) \in Seq(StepStatuses)
         /\ \A i : [p.steps EXCEPT ![i] = status] \in Seq(StepStatuses)
         /\ \A n \in Nat : PreserveCompletedSteps(p, n) \in Seq(StepStatuses)
<1>1. p.steps \in [1 .. Len(p.steps) -> StepStatuses] /\ Len(p.steps) \in Nat
  BY SeqIsFunction
<1>2. MarkRunning(p, status) \in [1 .. Len(p.steps) -> StepStatuses]
  BY <1>1 DEF MarkRunning
<1>3. \A i : [p.steps EXCEPT ![i] = status] \in [1 .. Len(p.steps) -> StepStatuses]
  BY <1>1
<1>4. ASSUME NEW n \in Nat
      PROVE  PreserveCompletedSteps(p, n) \in Seq(StepStatuses)
  <2> DEFINE kept == Cardinality(IndicesIn(p, "completed"))
  <2>1. kept \in Nat
    BY CompletedIsFinite
  <2>2. PreserveCompletedSteps(p, n) \in [1 .. kept + n -> StepStatuses]
    BY DEF PreserveCompletedSteps, StepStatuses
  <2>3. kept + n \in Nat
    BY <2>1
  <2> QED
    BY <2>2, <2>3, FunctionIsSeq
<1> QED
  BY <1>1, <1>2, <1>3, <1>4, FunctionIsSeq

\* What the loop does to its records leaves them well typed.
LEMMA NextCallTypes ==
  ASSUME NEW b \in BatchLocals
  PROVE  /\ [b EXCEPT !.idx = @ + 1] \in BatchLocals
         /\ [b EXCEPT !.idx = 1, !.grant = "policy"] \in BatchLocals
<1>1. b.idx \in Nat \ {0} /\ b.idx + 1 \in Nat \ {0}
  BY DEF BatchLocals
<1>2. \A n \in Nat \ {0} : [b EXCEPT !.idx = n] \in BatchLocals
  BY DEF BatchLocals
<1>3. [b EXCEPT !.idx = b.idx + 1] \in BatchLocals
  BY <1>1, <1>2
<1>4. [b EXCEPT !.idx = @ + 1] = [b EXCEPT !.idx = b.idx + 1]
  BY DEF BatchLocals
<1>5. \A n \in Nat \ {0} : [b EXCEPT !.idx = n, !.grant = "policy"] \in BatchLocals
  BY DEF BatchLocals
<1>6. 1 \in Nat \ {0}
  OBVIOUS
<1>7. [b EXCEPT !.idx = 1, !.grant = "policy"] \in BatchLocals
  BY <1>5, <1>6
<1> QED
  BY <1>3, <1>4, <1>7

LEMMA AnswerTypes ==
  ASSUME NEW b \in BatchLocals, NEW status \in ToolStatuses
  PROVE  Answer(b, status) \in BatchLocals
<1>1. ClassifyToolFailure(status) \in FailureClasses \union {NoFailure}
  BY DEF ClassifyToolFailure, ToolStatuses, FailureClasses
<1>2. Append(b.answered, b.idx) \in Seq(Nat)
  BY AppendProperties DEF BatchLocals
<1> DEFINE failure == IF b.failure = NoFailure THEN ClassifyToolFailure(status) ELSE b.failure
<1>3. failure \in FailureClasses \union {NoFailure}
  BY <1>1 DEF BatchLocals
<1>4. Answer(b, status) =
        [b EXCEPT !.answered = Append(b.answered, b.idx), !.failure = failure]
  BY DEF Answer, BatchLocals
<1> HIDE DEF failure
<1> QED
  BY <1>2, <1>3, <1>4 DEF BatchLocals

LEMMA CountFailureTypes ==
  ASSUME NEW s \in StepLocals, NEW class \in FailureClasses
  PROVE  CountFailure(s, class) \in StepLocals
<1>1. s.counters \in [FailureClasses -> Nat]
  BY DEF StepLocals
<1>2. s.counters[class] + 1 \in Nat
  BY <1>1
<1>3. UpdateFailureCounters(s.counters, class) \in [FailureClasses -> Nat]
  BY <1>1, <1>2 DEF UpdateFailureCounters
<1>4. \A c \in [FailureClasses -> Nat], n \in Nat :
        [s EXCEPT !.failure = class, !.counters = c, !.attempts = n] \in StepLocals
  BY DEF StepLocals
<1> QED
  BY <1>2, <1>3, <1>4 DEF CountFailure

LEMMA FreshLocalsTypes ==
  NewStep \in StepLocals /\ NoBatch \in BatchLocals /\ BootstrapPlan \in Plans
<1>1. NewStep \in StepLocals
  BY LoopAssumption DEF NewStep, StepLocals, NoCounters
<1>2. NoBatch \in BatchLocals
  BY EmptySeq DEF NoBatch, BatchLocals
<1>3. <<"pending">> \in Seq(StepStatuses)
  BY DEF StepStatuses
<1> QED
  BY <1>1, <1>2, <1>3 DEF BootstrapPlan, Plans, PlanStatuses

\* Every event the loop yields is well typed.
LEMMA EventsTypes ==
  ASSUME NEW type, NEW arg, NEW next, Yield(type, arg, next),
         type \in EventTypes, arg \in EventArgs
  PROVE  event' \in Events /\ pc' = next
BY DEF Yield, Event, Events

LEMMA EventArgsKnown ==
  /\ ToolStatuses \union FailureClasses \union {NoFailure} \subseteq EventArgs
  /\ {"", "planning", "executing", "waiting_approval", "retrying", "replanning",
      "recovering", "failed", "auto", "approval", "approved", "denied"} \subseteq EventArgs
  /\ {"phase", "plan_generated", "plan_updated", "step_started", "tool_request",
      "tool_result", "guardian_started", "guardian_completed", "task_complete",
      "task_stopped", "task_timed_out", "task_failed"} \subseteq EventTypes
BY DEF EventArgs, EventTypes, Finals, ToolStatuses

LEMMA RetryTypes ==
  ASSUME LoopTypeOK, event = NoEvent, NEW counted \in StepLocals,
         NEW class, NEW kind \in {"model", "tool"}, RetryOrExhaust(counted, class, kind)
  PROVE  step' \in StepLocals /\ event' \in Events /\ pc' \in {"step_done", "round_head"}
<1>1. CASE BudgetSpent(step, class)
  <2>1. [counted EXCEPT !.kind = kind, !.summary = FALSE] \in StepLocals
    BY DEF StepLocals
  <2> QED
    BY <1>1, <2>1 DEF RetryOrExhaust, GoTo, LoopTypeOK
<1>2. CASE ~BudgetSpent(step, class)
  <2>1. step' = counted /\ Yield("phase", "retrying", "round_head")
    BY <1>2 DEF RetryOrExhaust
  <2> QED
    BY <2>1, EventsTypes, EventArgsKnown
<1> QED
  BY <1>1, <1>2
-----------------------------------------------------------------------------
(* Inductive invariants.                                                    *)

\* A call that was resolved and let through is being decided on or run.
InCall == {"ask", "open_wait", "approval", "guard_ask", "guard_start", "guardian", "tool"}

StepPoints ==
  InCall \union
    {"round_head", "model", "call", "deny", "recover", "batch_done", "par_request", "gather",
     "par_result", "par_recover"}

\* Authorisation is settled when the call is announced, not when it runs.
AuthorisedInv ==
  /\ pc \in InCall => Permitted(CurrentCall)
  /\ pc = "tool" =>
       (RequiresToolApproval(CurrentCall, approvalMode) => batch.grant \in {"user", "guardian"})
  /\ pc \in {"par_request", "gather"} =>
       \A i \in DOMAIN batch.calls :
         /\ Permitted(batch.calls[i])
         /\ ReadOnly(batch.calls[i])
         /\ ~RequiresToolApproval(batch.calls[i], approvalMode)

\* No budget is spent anywhere inside a step.
BudgetInv ==
  pc \in StepPoints =>
    \A class \in FailureClasses : step.counters[class] < RetryBudget(class)

AnsweredUpTo(n) == batch.answered = [i \in 1 .. n |-> i]

\* The calls before the current one are answered, and at a recovery it too.
AnsweredInv ==
  /\ pc \in InCall \union {"call", "deny", "par_result"} =>
       batch.idx <= Len(batch.calls) + 1 /\ AnsweredUpTo(batch.idx - 1)
  /\ pc \in InCall \union {"deny"} => MoreCalls
  /\ pc \in {"recover", "par_recover"} => MoreCalls /\ AnsweredUpTo(batch.idx)
  /\ pc \in {"par_request", "gather"} => AnsweredUpTo(0)
  /\ pc = "gather" => batch.idx = 1
  /\ pc = "par_request" => batch.idx <= Len(batch.calls) + 1
  /\ pc = "batch_done" => AnsweredUpTo(Len(batch.calls))

ResultsMatchCalls ==
  pc \in {"par_result", "par_recover"} => DOMAIN batch.results = DOMAIN batch.calls

\* What type correctness needs to be inductive: the length of the results.
TypeInv == LoopTypeOK /\ ResultsMatchCalls
-----------------------------------------------------------------------------
(* Type correctness.                                                        *)

LEMMA TypesInit == LoopInit => TypeInv
<1> SUFFICES ASSUME LoopInit PROVE TypeInv
  OBVIOUS
<1>1. plan \in Plans /\ step \in StepLocals /\ batch \in BatchLocals
  BY FreshLocalsTypes DEF LoopInit
<1>2. event \in Events
  BY EventArgsKnown DEF LoopInit, NoEvent, Events, EventTypes
<1> QED
  BY <1>1, <1>2 DEF LoopInit, TypeInv, LoopTypeOK, ResultsMatchCalls, Points

\* A step of the generator keeps its locals well typed.
LEMMA TypesLoopStep ==
  ASSUME LoopTypeOK, ResultsMatchCalls, LoopRuns
  PROVE  LoopTypeOK'
<1>0. LoopSegment \/ AwaitedReturns
  BY DEF LoopRuns
<1> UNCHANGED <<stopRequested, approvalMode>>
  BY DEF LoopRuns
<1>1. ASSUME GeneratePlan
      PROVE  LoopTypeOK'
  BY <1>1, EventsTypes, EventArgsKnown DEF GeneratePlan, LoopTypeOK, At, Points, Plans,
     PlanStatuses
<1>2. ASSUME AnnounceExecuting
      PROVE  LoopTypeOK'
  BY <1>2, EventsTypes, EventArgsKnown DEF AnnounceExecuting, LoopTypeOK, At, Points
<1>3. ASSUME LeaveLoop
      PROVE  LoopTypeOK'
  BY <1>3 DEF LeaveLoop, LoopTypeOK, At, Points, GoTo
<1>4. ASSUME TimeOut
      PROVE  LoopTypeOK'
  BY <1>4, EventsTypes, EventArgsKnown DEF TimeOut, LoopTypeOK, At, Points, Plans,
     PlanStatuses
<1>5. ASSUME CompleteTask
      PROVE  LoopTypeOK'
  BY <1>5, EventsTypes, EventArgsKnown DEF CompleteTask, LoopTypeOK, At, Points, Plans,
     PlanStatuses
<1>6. ASSUME StartStep
      PROVE  LoopTypeOK'
  BY <1>6, EventsTypes, EventArgsKnown, FreshLocalsTypes, StepsStaySequences DEF StartStep,
     LoopTypeOK, At, Points, Plans, StepStatuses
<1>7. ASSUME StopTask
      PROVE  LoopTypeOK'
  BY <1>7, EventsTypes, EventArgsKnown, StepsStaySequences DEF StopTask, LoopTypeOK, At,
     Points, Plans, StepStatuses, PlanStatuses, StopPlan
<1>8. ASSUME FinishRun
      PROVE  LoopTypeOK'
  BY <1>8 DEF FinishRun, LoopTypeOK, At, Points, GoTo
<1>9. ASSUME SpendRounds
      PROVE  LoopTypeOK'
  BY <1>9 DEF SpendRounds, LoopTypeOK, At, Points, GoTo, StepLocals
<1>10. ASSUME AbandonStep
      PROVE  LoopTypeOK'
  BY <1>10 DEF AbandonStep, LoopTypeOK, At, Points, GoTo, StepLocals
<1>11. ASSUME CallModel
      PROVE  LoopTypeOK'
  <2>1. step.round \in 0 .. MaxRounds /\ ~RoundsSpent
    BY <1>11 DEF LoopTypeOK, StepLocals, CallModel
  <2>2. step.round + 1 \in 0 .. MaxRounds
    BY <2>1, LoopAssumption DEF RoundsSpent
  <2>3. \A n \in 0 .. MaxRounds : [step EXCEPT !.round = n] \in StepLocals
    BY DEF LoopTypeOK, StepLocals
  <2>4. [step EXCEPT !.round = step.round + 1] \in StepLocals
    BY <2>2, <2>3
  <2>5. step' \in StepLocals
    BY <1>11, <2>4 DEF CallModel
  <2> QED
    BY <1>11, <2>5 DEF CallModel, LoopTypeOK, Points, Awaits, GoTo
<1>12. ASSUME FinishBatch
      PROVE  LoopTypeOK'
  <2>1. CASE batch.failure # NoFailure
    <3>1. batch.failure \in FailureClasses
      BY <2>1 DEF LoopTypeOK, BatchLocals
    <3>2. CountFailure(step, batch.failure) \in StepLocals
      BY <3>1, CountFailureTypes DEF LoopTypeOK
    <3>3. RetryOrExhaust(CountFailure(step, batch.failure), batch.failure, "tool")
      BY <1>12, <2>1 DEF FinishBatch
    <3> QED
      BY <1>12, <3>2, <3>3, RetryTypes DEF FinishBatch, At, LoopTypeOK, Points
  <2>2. CASE batch.failure = NoFailure
    <3>1. NoCounters \in [FailureClasses -> Nat]
      BY DEF NoCounters
    <3>2. [step EXCEPT !.counters = NoCounters, !.attempts = 0, !.failure = NoFailure] \in StepLocals
      BY <3>1 DEF LoopTypeOK, StepLocals
    <3> QED
      BY <1>12, <2>2, <3>2 DEF FinishBatch, GoTo, LoopTypeOK, Points
  <2> QED
    BY <2>1, <2>2
<1>13. ASSUME RejectCall
      PROVE  LoopTypeOK'
  BY <1>13, EventsTypes, EventArgsKnown, NextCallTypes, AnswerTypes DEF RejectCall,
     LoopTypeOK, At, Points, ToolStatuses
<1>14. ASSUME BlockCall
      PROVE  LoopTypeOK'
  BY <1>14, EventsTypes, EventArgsKnown, AnswerTypes DEF BlockCall, LoopTypeOK, At, Points,
     ToolStatuses, Resolved
<1>15. ASSUME RequestAutomatic
      PROVE  LoopTypeOK'
  <2>1. batch' \in BatchLocals
    BY <1>15 DEF RequestAutomatic, LoopTypeOK, BatchLocals
  <2>2. event' \in Events /\ pc' \in Points
    BY <1>15, EventsTypes, EventArgsKnown DEF RequestAutomatic, Points, Awaits
  <2> QED
    BY <1>15, <2>1, <2>2 DEF RequestAutomatic, LoopTypeOK
<1>16. ASSUME AnnounceApproval
      PROVE  LoopTypeOK'
  <2>1. batch' \in BatchLocals
    BY <1>16 DEF AnnounceApproval, LoopTypeOK, BatchLocals
  <2>2. event' \in Events /\ pc' \in Points
    BY <1>16, EventsTypes, EventArgsKnown DEF AnnounceApproval, Points, Awaits
  <2> QED
    BY <1>16, <2>1, <2>2 DEF AnnounceApproval, LoopTypeOK
<1>17. ASSUME RequestApproval
      PROVE  LoopTypeOK'
  BY <1>17, EventsTypes, EventArgsKnown DEF RequestApproval, LoopTypeOK, At, Points
<1>18. ASSUME OpenApprovalWait
      PROVE  LoopTypeOK'
  BY <1>18 DEF OpenApprovalWait, LoopTypeOK, At, Points, GoTo, Awaits
<1>19. ASSUME ApprovalArrives
      PROVE  LoopTypeOK'
  BY <1>19 DEF ApprovalArrives, LoopTypeOK, At, Points, GoTo, Awaits, BatchLocals
<1>20. ASSUME RequestGuardian
      PROVE  LoopTypeOK'
  BY <1>20, EventsTypes, EventArgsKnown DEF RequestGuardian, LoopTypeOK, At, Points
<1>21. ASSUME StartGuardianReview
      PROVE  LoopTypeOK'
  BY <1>21, EventsTypes, EventArgsKnown DEF StartGuardianReview, LoopTypeOK, At, Points,
     Awaits
<1>22. ASSUME DenyCall
      PROVE  LoopTypeOK'
  BY <1>22, EventsTypes, EventArgsKnown, AnswerTypes DEF DenyCall, LoopTypeOK, At, Points,
     ToolStatuses
<1>23. ASSUME AnnounceRecovery
      PROVE  LoopTypeOK'
  BY <1>23, EventsTypes, EventArgsKnown, NextCallTypes DEF AnnounceRecovery, LoopTypeOK, At,
     Points
<1>24. ASSUME EndCalls
      PROVE  LoopTypeOK'
  BY <1>24 DEF EndCalls, LoopTypeOK, At, Points, GoTo
<1>25. ASSUME RequestParallel
      PROVE  LoopTypeOK'
  BY <1>25, EventsTypes, EventArgsKnown, NextCallTypes DEF RequestParallel, LoopTypeOK, At,
     Points
<1>26. ASSUME StartParallel
      PROVE  LoopTypeOK'
  BY <1>26, NextCallTypes DEF StartParallel, LoopTypeOK, At, Points, GoTo, Awaits
<1>27. ASSUME ReportParallel
      PROVE  LoopTypeOK'
  <2>0. batch.results[batch.idx] \in RunResults
    <3>1. batch.calls \in Seq(Kinds) /\ batch.results \in Seq(RunResults) /\ batch.idx \in Nat \ {0}
      BY DEF LoopTypeOK, BatchLocals
    <3>2. batch.idx \in DOMAIN batch.results
      BY <1>27, <3>1, SeqIsFunction DEF ReportParallel, MoreCalls, ResultsMatchCalls, At
    <3> QED
      BY <3>1, <3>2, SeqIsFunction
  <2> DEFINE status == batch.results[batch.idx]
  <2>1. status \in ToolStatuses
    BY <2>0 DEF RunResults, ToolStatuses
  <2>2. Answer(batch, status) \in BatchLocals
    BY <2>1, AnswerTypes DEF LoopTypeOK
  <2>3. batch' \in BatchLocals
    BY <1>27, <2>2, NextCallTypes DEF ReportParallel
  <2>4. event' \in Events /\ pc' \in Points
    BY <1>27, <2>1, EventsTypes, EventArgsKnown DEF ReportParallel, Points
  <2> QED
    BY <1>27, <2>3, <2>4 DEF ReportParallel, LoopTypeOK
<1>28. ASSUME AnnounceParallelRecovery
      PROVE  LoopTypeOK'
  BY <1>28, EventsTypes, EventArgsKnown, NextCallTypes DEF AnnounceParallelRecovery,
     LoopTypeOK, At, Points
<1>29. ASSUME EndParallel
      PROVE  LoopTypeOK'
  BY <1>29 DEF EndParallel, LoopTypeOK, At, Points, GoTo
<1>30. ASSUME StepStopped
      PROVE  LoopTypeOK'
  BY <1>30 DEF StepStopped, LoopTypeOK, At, Points, GoTo
<1>31. ASSUME CompleteStep
      PROVE  LoopTypeOK'
  BY <1>31, EventsTypes, EventArgsKnown, StepsStaySequences DEF CompleteStep, LoopTypeOK, At,
     Points, Plans, StepStatuses
<1>32. ASSUME StartReplan
      PROVE  LoopTypeOK'
  BY <1>32, EventsTypes, EventArgsKnown DEF StartReplan, LoopTypeOK, At, Points, Awaits
<1>33. ASSUME FailStep
      PROVE  LoopTypeOK'
  BY <1>33, EventsTypes, EventArgsKnown, StepsStaySequences DEF FailStep, LoopTypeOK, At,
     Points, Plans, StepStatuses, PlanStatuses
<1>34. ASSUME ReportFailedStep
      PROVE  LoopTypeOK'
  BY <1>34, EventsTypes, EventArgsKnown DEF ReportFailedStep, LoopTypeOK, At, Points
<1>35. ASSUME FailTask
      PROVE  LoopTypeOK'
  <2>1. FailureType \in EventArgs
    <3>1. step.failure \in FailureClasses \union {NoFailure} /\ "unknown" \in FailureClasses
      BY DEF LoopTypeOK, StepLocals, FailureClasses
    <3> QED
      BY <3>1, EventArgsKnown DEF FailureType
  <2>2. event' \in Events /\ pc' \in Points
    BY <1>35, <2>1, EventsTypes, EventArgsKnown DEF FailTask, Points
  <2> QED
    BY <1>35, <2>2 DEF FailTask, LoopTypeOK
<1>36. ASSUME ApprovalCancelled
      PROVE  LoopTypeOK'
  BY <1>36 DEF ApprovalCancelled, LoopTypeOK, At, Points, AwaitRaises, GoTo
<1>37. ASSUME NEW class \in ModelFailureClasses, NEW reported \in BOOLEAN,
              ModelFails(class, reported)
      PROVE  LoopTypeOK'
  <2> DEFINE counted == [CountFailure(step, class) EXCEPT !.observed = @ \/ reported]
  <2>1. class \in FailureClasses
    BY DEF FailureClasses
  <2>2. CountFailure(step, class) \in StepLocals
    BY <2>1, CountFailureTypes DEF LoopTypeOK
  <2>3. counted \in StepLocals
    BY <2>2 DEF StepLocals
  <2>4. RetryOrExhaust(counted, class, "model")
    BY <1>37 DEF ModelFails
  <2> HIDE DEF counted
  <2> QED
    BY <1>37, <2>3, <2>4, RetryTypes DEF ModelFails, At, LoopTypeOK, Points
<1>38. ASSUME NEW calls \in Batches, ModelCallsTools(calls)
      PROVE  LoopTypeOK'
  <2>1. [NoBatch EXCEPT !.calls = calls] \in BatchLocals
    BY BatchesAreSequences, FreshLocalsTypes DEF BatchLocals
  <2>2. [step EXCEPT !.observed = TRUE] \in StepLocals
    BY DEF LoopTypeOK, StepLocals
  <2> QED
    BY <1>38, <2>1, <2>2 DEF ModelCallsTools, LoopTypeOK, GoTo, Points
<1>39. ASSUME ModelAnswers
      PROVE  LoopTypeOK'
  BY <1>39 DEF ModelAnswers, LoopTypeOK, At, Points, GoTo, StepLocals
<1>40. ASSUME ModelSaysNothing
      PROVE  LoopTypeOK'
  BY <1>40 DEF ModelSaysNothing, LoopTypeOK, At, Points, GoTo, StepLocals
<1>41. ASSUME NEW approved \in BOOLEAN, GuardianDecides(approved)
      PROVE  LoopTypeOK'
  <2>1. batch' \in BatchLocals
    BY <1>41 DEF GuardianDecides, LoopTypeOK, BatchLocals
  <2>2. event' \in Events /\ pc' \in Points
    BY <1>41, EventsTypes, EventArgsKnown DEF GuardianDecides, Points, Awaits
  <2> QED
    BY <1>41, <2>1, <2>2 DEF GuardianDecides, LoopTypeOK
<1>42. ASSUME NEW status \in RunResults, ToolReturns(status)
      PROVE  LoopTypeOK'
  <2>1. status \in ToolStatuses
    BY DEF RunResults, ToolStatuses
  <2>2. Answer(batch, status) \in BatchLocals
    BY <2>1, AnswerTypes DEF LoopTypeOK
  <2>3. batch' \in BatchLocals
    BY <1>42, <2>2, NextCallTypes DEF ToolReturns
  <2>4. event' \in Events /\ pc' \in Points
    BY <1>42, <2>1, EventsTypes, EventArgsKnown DEF ToolReturns, Points
  <2> QED
    BY <1>42, <2>3, <2>4 DEF ToolReturns, LoopTypeOK
<1>43. ASSUME NEW results \in [DOMAIN batch.calls -> RunResults], GatherResults(results)
      PROVE  LoopTypeOK'
  <2>1. batch.calls \in Seq(Kinds)
    BY DEF LoopTypeOK, BatchLocals
  <2>2. results \in Seq(RunResults)
    BY <2>1, SeqIsFunction, FunctionIsSeq
  <2>3. [batch EXCEPT !.results = results] \in BatchLocals
    BY <2>2 DEF LoopTypeOK, BatchLocals
  <2> QED
    BY <1>43, <2>3 DEF GatherResults, LoopTypeOK, GoTo, Points
<1>44. ASSUME NEW n \in 1 .. RoomForSteps, RevisePlan(n)
      PROVE  LoopTypeOK'
  <2>1. plan.steps \in Seq(StepStatuses)
    BY DEF LoopTypeOK, Plans
  <2>2. n \in Nat
    BY CompletedIsFinite, <2>1, LoopAssumption DEF RoomForSteps
  <2>3. PreserveCompletedSteps(plan, n) \in Seq(StepStatuses)
    BY <2>1, <2>2, StepsStaySequences DEF StepStatuses
  <2>4. plan' \in Plans
    BY <1>44, <2>3 DEF RevisePlan, Plans, PlanStatuses
  <2> QED
    BY <1>44, <2>4 DEF RevisePlan, LoopTypeOK, Yield, Points, Event, Events, EventTypes, EventArgs
<1> QED
  BY <1>0, <1>1, <1>2, <1>3, <1>4, <1>5, <1>6, <1>7, <1>8, <1>9, <1>10, <1>11, <1>12, <1>13,
     <1>14, <1>15, <1>16, <1>17, <1>18, <1>19, <1>20, <1>21, <1>22, <1>23, <1>24, <1>25,
     <1>26, <1>27, <1>28, <1>29, <1>30, <1>31, <1>32, <1>33, <1>34, <1>35, <1>36, <1>37,
     <1>38, <1>39, <1>40, <1>41, <1>42, <1>43, <1>44 DEF LoopSegment, AwaitedReturns

\* Between two steps of the plan, and when the generator ends.
BetweenSteps ==
  GeneratePlan \/ AnnounceExecuting \/ LeaveLoop \/ TimeOut \/ CompleteTask \/ StopTask \/
  FinishRun \/ SpendRounds \/ AbandonStep \/ StepStopped \/ CompleteStep \/ StartReplan \/
  FailStep \/ ReportFailedStep \/ FailTask \/ ApprovalCancelled \/ ModelAnswers \/
  (\E n \in 1 .. RoomForSteps : RevisePlan(n))

LEMMA BetweenStepsLeaves ==
  ASSUME BetweenSteps PROVE pc' \notin StepPoints
BY DEF BetweenSteps, GeneratePlan, AnnounceExecuting, LeaveLoop, TimeOut, CompleteTask,
   StopTask, FinishRun, SpendRounds, AbandonStep, StepStopped, CompleteStep, StartReplan,
   FailStep, ReportFailedStep, FailTask, ApprovalCancelled, ModelAnswers, RevisePlan, GoTo,
   Yield, AwaitRaises, FailureType, StepPoints, InCall

LEMMA ResultsStep ==
  ASSUME TypeInv, [LoopNext]_loopVars
  PROVE  ResultsMatchCalls'
<1> USE DEF ResultsMatchCalls, TypeInv
<1>1. CASE UNCHANGED loopVars
  BY <1>1 DEF loopVars, taskVars
<1>2. CASE TakeEvent \/ UserStops \/ UserGoesAutonomous \/
           \E approved \in BOOLEAN : UserAnswers(approved)
  BY <1>2 DEF TakeEvent, UserStops, UserGoesAutonomous, UserAnswers, taskVars
<1>3. CASE StartTask \/ AwaitFails
  BY <1>3 DEF StartTask, StartRun, AwaitFails, AwaitRaises, Yield, GoTo
<1>4. CASE LoopRuns
  <2>1. ASSUME NEW results \in [DOMAIN batch.calls -> RunResults], GatherResults(results)
        PROVE  ResultsMatchCalls'
    BY <2>1 DEF GatherResults, LoopTypeOK, BatchLocals
  <2>2. CASE ReportParallel \/ AnnounceParallelRecovery
    BY <2>2 DEF ReportParallel, AnnounceParallelRecovery, Answer, At, LoopTypeOK, BatchLocals
  <2>3. CASE BetweenSteps
    BY <2>3, BetweenStepsLeaves DEF StepPoints
  <2>4. CASE StartStep \/ CallModel \/ FinishBatch \/ RejectCall \/ BlockCall \/
            RequestAutomatic \/ AnnounceApproval \/ RequestApproval \/ OpenApprovalWait \/
            ApprovalArrives \/ RequestGuardian \/ StartGuardianReview \/ DenyCall \/
            AnnounceRecovery \/ EndCalls \/ RequestParallel \/ StartParallel \/
            EndParallel \/
            (\E class \in ModelFailureClasses, reported \in BOOLEAN :
               ModelFails(class, reported)) \/
            (\E calls \in Batches : ModelCallsTools(calls)) \/ ModelSaysNothing \/
            (\E approved \in BOOLEAN : GuardianDecides(approved)) \/
            (\E status \in RunResults : ToolReturns(status))
    BY <2>4 DEF StartStep, CallModel, FinishBatch, RejectCall, BlockCall, RequestAutomatic,
       AnnounceApproval, RequestApproval, OpenApprovalWait, ApprovalArrives, RequestGuardian,
       StartGuardianReview, DenyCall, AnnounceRecovery, EndCalls, RequestParallel,
       StartParallel, EndParallel, ModelFails, ModelCallsTools, ModelSaysNothing,
       GuardianDecides, ToolReturns, GoTo, Yield, RetryOrExhaust, Resolved
  <2> QED
    BY <1>4, <2>1, <2>2, <2>3, <2>4 DEF LoopRuns, LoopSegment, AwaitedReturns, BetweenSteps
<1> QED
  BY <1>1, <1>2, <1>3, <1>4 DEF LoopNext

LEMMA TypesStep == TypeInv /\ [LoopNext]_loopVars => TypeInv'
<1> SUFFICES ASSUME TypeInv, [LoopNext]_loopVars PROVE LoopTypeOK'
  BY ResultsStep DEF TypeInv
<1> USE DEF TypeInv
<1>1. CASE UNCHANGED loopVars
  BY <1>1 DEF loopVars, taskVars, LoopTypeOK
<1>2. CASE StartTask
  BY <1>2, EventsTypes, EventArgsKnown, FreshLocalsTypes DEF StartTask, StartRun, LoopTypeOK, Points
<1>3. CASE TakeEvent
  BY <1>3, EventArgsKnown DEF TakeEvent, NoEvent, Events, EventTypes, LoopTypeOK
<1>4. CASE UserStops
  BY <1>4 DEF UserStops, Stop, LoopTypeOK
<1>5. ASSUME NEW approved \in BOOLEAN, UserAnswers(approved) PROVE LoopTypeOK'
  BY <1>5 DEF UserAnswers, SupplyToolApproval, LoopTypeOK
<1>6. CASE UserGoesAutonomous
  BY <1>6 DEF UserGoesAutonomous, taskVars, ApprovalModes, LoopTypeOK
<1>7. CASE AwaitFails
  BY <1>7 DEF AwaitFails, AwaitRaises, GoTo, Points, LoopTypeOK
<1>8. CASE LoopRuns
  BY <1>8, TypesLoopStep
<1> QED
  BY <1>1, <1>2, <1>3, <1>4, <1>5, <1>6, <1>7, <1>8 DEF LoopNext

\* The loop's variables keep their types, for every value of its parameters.
THEOREM TypeCorrect == LoopSpec => []LoopTypeOK
<1>1. TypeInv => LoopTypeOK
  BY DEF TypeInv
<1> QED
  BY TypesInit, TypesStep, <1>1, PTL DEF LoopSpec
-----------------------------------------------------------------------------
(* Authorisation.                                                           *)

\* Going autonomous can only drop the need for an approval.
LEMMA AutonomyRelaxes ==
  ASSUME NEW kind, NEW mode \in ApprovalModes, RequiresToolApproval(kind, "autonomous")
  PROVE  RequiresToolApproval(kind, mode)
BY DEF RequiresToolApproval, ApprovalModes

LEMMA AuthorisedLoopStep ==
  ASSUME LoopTypeOK, AuthorisedInv, LoopRuns
  PROVE  AuthorisedInv'
<1>0. LoopSegment \/ AwaitedReturns
  BY DEF LoopRuns
<1> UNCHANGED approvalMode
  BY DEF LoopRuns
<1> USE DEF At, GoTo, Yield, InCall, AuthorisedInv
<1>1. CASE BetweenSteps
  BY <1>1, BetweenStepsLeaves DEF StepPoints
<1>2. ASSUME NEW class \in ModelFailureClasses, NEW reported \in BOOLEAN,
             ModelFails(class, reported)
      PROVE  AuthorisedInv'
  BY <1>2 DEF ModelFails, RetryOrExhaust
<1>3. ASSUME NEW status \in RunResults, ToolReturns(status)
      PROVE  AuthorisedInv'
  BY <1>3 DEF ToolReturns
<1>4. ASSUME NEW results \in [DOMAIN batch.calls -> RunResults], GatherResults(results)
      PROVE  AuthorisedInv'
  BY <1>4 DEF GatherResults
<1>5. CASE StartStep \/ CallModel \/ FinishBatch \/ ModelSaysNothing
  BY <1>5 DEF StartStep, CallModel, FinishBatch, ModelSaysNothing, RetryOrExhaust
<1>6. CASE RejectCall \/ BlockCall \/ DenyCall \/ AnnounceRecovery \/ EndCalls
  BY <1>6 DEF RejectCall, BlockCall, DenyCall, AnnounceRecovery, EndCalls
<1>7. CASE ReportParallel \/ AnnounceParallelRecovery \/ EndParallel
  BY <1>7 DEF ReportParallel, AnnounceParallelRecovery, EndParallel
<1>8. CASE RequestAutomatic
  BY <1>8 DEF RequestAutomatic, Resolved, Decision, CheckAndApprove, CurrentCall, Permitted,
     LoopTypeOK, BatchLocals
<1>9. CASE AnnounceApproval
  BY <1>9 DEF AnnounceApproval, Resolved, Decision, CheckAndApprove, CurrentCall, Permitted,
     LoopTypeOK, BatchLocals
<1>10. CASE RequestApproval \/ OpenApprovalWait \/ RequestGuardian \/ StartGuardianReview
  BY <1>10 DEF RequestApproval, OpenApprovalWait, RequestGuardian, StartGuardianReview,
     CurrentCall
<1>11. CASE ApprovalArrives
  BY <1>11 DEF ApprovalArrives, CurrentCall, LoopTypeOK, BatchLocals
<1>12. ASSUME NEW approved \in BOOLEAN, GuardianDecides(approved)
       PROVE  AuthorisedInv'
  BY <1>12 DEF GuardianDecides, CurrentCall, LoopTypeOK, BatchLocals
<1>13. ASSUME NEW calls \in Batches, ModelCallsTools(calls)
       PROVE  AuthorisedInv'
  BY <1>13 DEF ModelCallsTools, NoBatch, ParallelReadOnly, CheckAndApprove, Permitted
<1>14. CASE RequestParallel \/ StartParallel
  BY <1>14 DEF RequestParallel, StartParallel, LoopTypeOK, BatchLocals
<1> QED
  BY <1>0, <1>1, <1>2, <1>3, <1>4, <1>5, <1>6, <1>7, <1>8, <1>9, <1>10, <1>11, <1>12, <1>13,
     <1>14 DEF LoopSegment, AwaitedReturns, BetweenSteps

LEMMA AuthorisedStep ==
  LoopTypeOK /\ AuthorisedInv /\ [LoopNext]_loopVars => AuthorisedInv'
<1> SUFFICES ASSUME LoopTypeOK, AuthorisedInv, [LoopNext]_loopVars PROVE AuthorisedInv'
  OBVIOUS
<1> USE DEF AuthorisedInv, CurrentCall
<1>1. CASE UNCHANGED loopVars
  BY <1>1 DEF loopVars, taskVars
<1>2. CASE TakeEvent \/ UserStops \/ \E approved \in BOOLEAN : UserAnswers(approved)
  BY <1>2 DEF TakeEvent, UserStops, UserAnswers
<1>3. CASE UserGoesAutonomous
  BY <1>3, AutonomyRelaxes DEF UserGoesAutonomous, taskVars, LoopTypeOK
<1>4. CASE StartTask \/ AwaitFails
  BY <1>4 DEF StartTask, StartRun, AwaitFails, AwaitRaises, Yield, GoTo, InCall
<1>5. CASE LoopRuns
  BY <1>5, AuthorisedLoopStep
<1> QED
  BY <1>1, <1>2, <1>3, <1>4, <1>5 DEF LoopNext

\* No tool call runs that the posture, the boundary or the approval policy
\* forbids (AgentLoop._ahandle_tool_calls_async), whatever the kinds of call,
\* the batch, the posture and the reviewer, and whenever the mode changes.
THEOREM Authorised == LoopSpec => []ExecutionAuthorised
<1>1. LoopInit => AuthorisedInv
  BY DEF LoopInit, AuthorisedInv, InCall
<1>2. AuthorisedInv => ExecutionAuthorised
  BY DEF AuthorisedInv, ExecutionAuthorised, InCall
<1> QED
  BY TypeCorrect, AuthorisedStep, <1>1, <1>2, PTL DEF LoopSpec
-----------------------------------------------------------------------------
(* Retry budgets.                                                           *)

LEMMA BudgetsPositive ==
  \A class \in FailureClasses : RetryBudget(class) \in Nat \ {0}
BY MaxConsecutiveErrorsAssumption DEF RetryBudget, DefaultRetryBudget

LEMMA RetryKeepsBudget ==
  ASSUME LoopTypeOK, BudgetInv, pc \in StepPoints, NEW class \in FailureClasses,
         NEW counted, counted.counters = UpdateFailureCounters(step.counters, class),
         NEW kind, RetryOrExhaust(counted, class, kind)
  PROVE  BudgetInv'
<1>1. CASE BudgetSpent(step, class)
  BY <1>1 DEF RetryOrExhaust, GoTo, BudgetInv, StepPoints, InCall
<1>2. CASE ~BudgetSpent(step, class)
  <2>1. step' = counted
    BY <1>2 DEF RetryOrExhaust
  <2>2. step.counters \in [FailureClasses -> Nat]
    BY DEF LoopTypeOK, StepLocals
  <2>3. step.counters[class] + 1 < RetryBudget(class)
    BY <1>2, <2>2, BudgetsPositive DEF BudgetSpent
  <2>4. \A c \in FailureClasses :
          step'.counters[c] = IF c = class THEN step.counters[c] + 1 ELSE step.counters[c]
    BY <2>1, <2>2 DEF UpdateFailureCounters
  <2>5. \A c \in FailureClasses : step.counters[c] < RetryBudget(c)
    BY DEF BudgetInv
  <2> QED
    BY <2>3, <2>4, <2>5 DEF BudgetInv
<1> QED
  BY <1>1, <1>2

LEMMA FreshCountersKeepBudget ==
  ASSUME step'.counters = NoCounters PROVE BudgetInv'
BY BudgetsPositive DEF BudgetInv, NoCounters

LEMMA BudgetLoopStep ==
  ASSUME LoopTypeOK, BudgetInv, LoopRuns
  PROVE  BudgetInv'
<1>0. LoopSegment \/ AwaitedReturns
  BY DEF LoopRuns
<1> USE DEF At, StepPoints, InCall
<1>1. CASE BetweenSteps
  BY <1>1, BetweenStepsLeaves DEF BudgetInv
<1>2. CASE StartStep
  BY <1>2, FreshCountersKeepBudget DEF StartStep, NewStep
<1>3. CASE CallModel \/ ModelSaysNothing
  BY <1>3 DEF CallModel, ModelSaysNothing, GoTo, BudgetInv, LoopTypeOK, StepLocals
<1>4. ASSUME NEW class \in ModelFailureClasses, NEW reported \in BOOLEAN,
             ModelFails(class, reported)
      PROVE  BudgetInv'
  <2> DEFINE counted == [CountFailure(step, class) EXCEPT !.observed = @ \/ reported]
  <2>1. counted.counters = UpdateFailureCounters(step.counters, class)
    BY DEF CountFailure, LoopTypeOK, StepLocals
  <2>2. RetryOrExhaust(counted, class, "model")
    BY <1>4 DEF ModelFails
  <2>3. class \in FailureClasses /\ pc \in StepPoints
    BY <1>4 DEF FailureClasses, ModelFails
  <2> HIDE DEF counted
  <2> QED
    BY <2>1, <2>2, <2>3, RetryKeepsBudget
<1>5. CASE FinishBatch /\ batch.failure # NoFailure
  <2>1. batch.failure \in FailureClasses
    BY <1>5 DEF LoopTypeOK, BatchLocals
  <2>2. CountFailure(step, batch.failure).counters =
          UpdateFailureCounters(step.counters, batch.failure)
    BY DEF CountFailure, LoopTypeOK, StepLocals
  <2>3. RetryOrExhaust(CountFailure(step, batch.failure), batch.failure, "tool")
    BY <1>5 DEF FinishBatch
  <2>4. pc \in StepPoints
    BY <1>5 DEF FinishBatch
  <2> QED
    BY <2>1, <2>2, <2>3, <2>4, RetryKeepsBudget
<1>6. CASE FinishBatch /\ batch.failure = NoFailure
  BY <1>6, FreshCountersKeepBudget DEF FinishBatch, LoopTypeOK, StepLocals
<1>7. ASSUME NEW calls \in Batches, ModelCallsTools(calls)
      PROVE  BudgetInv'
  BY <1>7 DEF ModelCallsTools, GoTo, BudgetInv, LoopTypeOK, StepLocals
<1>8. ASSUME UNCHANGED step, pc \in StepPoints
      PROVE  BudgetInv'
  BY <1>8 DEF BudgetInv
<1>9. CASE RejectCall \/ BlockCall \/ RequestAutomatic \/ AnnounceApproval \/ RequestApproval \/
           OpenApprovalWait \/ ApprovalArrives \/ RequestGuardian \/ StartGuardianReview \/
           DenyCall \/ AnnounceRecovery \/ EndCalls \/ RequestParallel \/ StartParallel \/
           ReportParallel \/ AnnounceParallelRecovery \/ EndParallel \/
           (\E approved \in BOOLEAN : GuardianDecides(approved)) \/
           (\E status \in RunResults : ToolReturns(status)) \/
           (\E results \in [DOMAIN batch.calls -> RunResults] : GatherResults(results))
  BY <1>8, <1>9 DEF RejectCall, BlockCall, RequestAutomatic, AnnounceApproval, RequestApproval,
     OpenApprovalWait, ApprovalArrives, RequestGuardian, StartGuardianReview, DenyCall,
     AnnounceRecovery, EndCalls, RequestParallel, StartParallel, ReportParallel,
     AnnounceParallelRecovery, EndParallel, GuardianDecides, ToolReturns, GatherResults,
     Resolved
<1> QED
  BY <1>0, <1>1, <1>2, <1>3, <1>4, <1>5, <1>6, <1>7, <1>9
     DEF LoopSegment, AwaitedReturns, BetweenSteps

LEMMA BudgetStep ==
  LoopTypeOK /\ BudgetInv /\ [LoopNext]_loopVars => BudgetInv'
<1> SUFFICES ASSUME LoopTypeOK, BudgetInv, [LoopNext]_loopVars PROVE BudgetInv'
  OBVIOUS
<1>1. CASE UNCHANGED loopVars
  BY <1>1 DEF loopVars, taskVars, BudgetInv
<1>2. CASE TakeEvent \/ UserStops \/ UserGoesAutonomous \/
           \E approved \in BOOLEAN : UserAnswers(approved)
  BY <1>2 DEF TakeEvent, UserStops, UserGoesAutonomous, UserAnswers, taskVars, BudgetInv
<1>3. CASE StartTask \/ AwaitFails
  BY <1>3 DEF StartTask, StartRun, AwaitFails, AwaitRaises, Yield, GoTo, BudgetInv,
     StepPoints, InCall
<1>4. CASE LoopRuns
  BY <1>4, BudgetLoopStep
<1> QED
  BY <1>1, <1>2, <1>3, <1>4 DEF LoopNext

\* AgentLoop never asks the model again once the retry budget of a failure
\* class (recovery.py, min'ed with max_consecutive_errors) is spent, whatever
\* that maximum and however failures of several classes and successes mix.
THEOREM BudgetsHold == LoopSpec => []RoundsWithinBudget
<1>1. LoopInit => BudgetInv
  BY DEF LoopInit, BudgetInv, StepPoints, InCall
<1>2. BudgetInv => RoundsWithinBudget
  BY DEF BudgetInv, RoundsWithinBudget, StepPoints
<1> QED
  BY TypeCorrect, BudgetStep, <1>1, <1>2, PTL DEF LoopSpec
-----------------------------------------------------------------------------
(* Every call is answered.                                                  *)

\* Answering the current call, and moving to the next one, covers one more.
LEMMA AnswerCovers ==
  ASSUME NEW b \in BatchLocals, NEW status, b.answered = [i \in 1 .. b.idx - 1 |-> i]
  PROVE  /\ Answer(b, status).answered = [i \in 1 .. b.idx |-> i]
         /\ Answer(b, status).idx = b.idx
         /\ Answer(b, status).calls = b.calls
         /\ [Answer(b, status) EXCEPT !.idx = @ + 1].answered = [i \in 1 .. b.idx |-> i]
         /\ [Answer(b, status) EXCEPT !.idx = @ + 1].idx = b.idx + 1
         /\ [Answer(b, status) EXCEPT !.idx = @ + 1].calls = b.calls
<1>1. b.idx \in Nat \ {0} /\ b.answered \in Seq(Nat)
  BY DEF BatchLocals
<1>2. Len(b.answered) = b.idx - 1
  BY <1>1, SeqIsFunction
<1>3. Append(b.answered, b.idx) \in Seq(Nat) /\ Len(Append(b.answered, b.idx)) = b.idx
  BY <1>1, <1>2, AppendProperties
<1>4. \A i \in 1 .. b.idx : Append(b.answered, b.idx)[i] = i
  BY <1>1, <1>2, AppendProperties
<1>5. Append(b.answered, b.idx) = [i \in 1 .. b.idx |-> i]
  BY <1>3, <1>4, SeqIsFunction
<1> QED
  BY <1>5 DEF Answer, BatchLocals

\* Moving on from an answered call.
LEMMA NextCallAnswered ==
  ASSUME LoopTypeOK, MoreCalls, batch'.idx = batch.idx + 1, batch'.calls = batch.calls,
         batch'.answered = [i \in 1 .. batch.idx |-> i], pc' \in {"call", "par_result"}
  PROVE  AnsweredInv'
<1>1. batch.idx \in Nat \ {0} /\ Len(batch.calls) \in Nat
  BY SeqIsFunction DEF LoopTypeOK, BatchLocals
<1>2. batch'.idx - 1 = batch.idx /\ batch'.idx <= Len(batch'.calls) + 1
  BY <1>1 DEF MoreCalls
<1>3. pc' \notin InCall \union {"deny", "recover", "par_recover", "par_request", "gather",
                              "batch_done"}
  BY DEF InCall
<1> QED
  BY <1>2, <1>3 DEF AnsweredInv, AnsweredUpTo

LEMMA AnsweredLoopStep ==
  ASSUME LoopTypeOK, AnsweredInv, LoopRuns
  PROVE  AnsweredInv'
<1>0. LoopSegment \/ AwaitedReturns
  BY DEF LoopRuns
<1> DEFINE length == Len(batch.calls)
<1>a. batch \in BatchLocals /\ batch.idx \in Nat \ {0} /\ length \in Nat
  BY SeqIsFunction DEF LoopTypeOK, BatchLocals
<1> USE DEF At, GoTo, Yield, InCall, AnsweredInv, AnsweredUpTo, MoreCalls
<1>1. CASE BetweenSteps
  BY <1>1, BetweenStepsLeaves DEF StepPoints
<1>2. CASE StartStep \/ CallModel \/ FinishBatch \/ ModelSaysNothing
  BY <1>2 DEF StartStep, CallModel, FinishBatch, ModelSaysNothing, RetryOrExhaust
<1>3. ASSUME NEW class \in ModelFailureClasses, NEW reported \in BOOLEAN,
             ModelFails(class, reported)
      PROVE  AnsweredInv'
  BY <1>3 DEF ModelFails, RetryOrExhaust
<1>4. ASSUME NEW calls \in Batches, ModelCallsTools(calls)
      PROVE  AnsweredInv'
  <2>1. Len(calls) >= 1 /\ Len(calls) \in Nat
    BY BatchesAreSequences, SeqIsFunction
  <2>2. batch'.calls = calls /\ batch'.idx = 1 /\ batch'.answered = << >>
    BY <1>4 DEF ModelCallsTools, NoBatch
  <2>3. << >> = [i \in 1 .. 0 |-> i] /\ 1 - 1 = 0
    OBVIOUS
  <2> QED
    BY <1>4, <2>1, <2>2, <2>3 DEF ModelCallsTools
<1>5. CASE RejectCall
  <2>1. MoreCalls /\ batch.answered = [i \in 1 .. batch.idx - 1 |-> i]
    BY <1>5 DEF RejectCall
  <2> QED
    BY <1>5, <1>a, <2>1, AnswerCovers, NextCallAnswered DEF RejectCall
<1>6. CASE BlockCall
  BY <1>6, <1>a, AnswerCovers DEF BlockCall, Resolved
<1>7. CASE RequestAutomatic \/ AnnounceApproval
  BY <1>7, <1>a DEF RequestAutomatic, AnnounceApproval, Resolved, BatchLocals
<1>8. CASE RequestApproval \/ OpenApprovalWait \/ RequestGuardian \/ StartGuardianReview
  BY <1>8 DEF RequestApproval, OpenApprovalWait, RequestGuardian, StartGuardianReview
<1>9. CASE ApprovalArrives
  BY <1>9, <1>a DEF ApprovalArrives, BatchLocals
<1>10. ASSUME NEW approved \in BOOLEAN, GuardianDecides(approved)
       PROVE  AnsweredInv'
  BY <1>10, <1>a DEF GuardianDecides, BatchLocals
<1>11. CASE DenyCall
  BY <1>11, <1>a, AnswerCovers DEF DenyCall
<1>12. ASSUME NEW status \in RunResults, ToolReturns(status)
       PROVE  AnsweredInv'
  <2>1. MoreCalls /\ batch.answered = [i \in 1 .. batch.idx - 1 |-> i]
    BY <1>12 DEF ToolReturns
  <2>2. /\ Answer(batch, status).answered = [i \in 1 .. batch.idx |-> i]
        /\ Answer(batch, status).idx = batch.idx
        /\ Answer(batch, status).calls = batch.calls
        /\ [Answer(batch, status) EXCEPT !.idx = @ + 1].answered = [i \in 1 .. batch.idx |-> i]
        /\ [Answer(batch, status) EXCEPT !.idx = @ + 1].idx = batch.idx + 1
        /\ [Answer(batch, status) EXCEPT !.idx = @ + 1].calls = batch.calls
    BY <1>a, <2>1, AnswerCovers
  <2>3. CASE status = "success"
    <3>1. /\ batch' = [Answer(batch, status) EXCEPT !.idx = @ + 1]
          /\ pc' \in {"call", "par_result"}
      BY <1>12, <2>3 DEF ToolReturns
    <3> QED
      BY <2>1, <2>2, <3>1, NextCallAnswered
  <2>4. CASE status # "success"
    <3>1. batch' = Answer(batch, status) /\ pc' \in {"recover", "par_recover"}
      BY <1>12, <2>4 DEF ToolReturns
    <3> QED
      BY <2>1, <2>2, <3>1
  <2> QED
    BY <2>3, <2>4
<1>13. CASE AnnounceRecovery \/ AnnounceParallelRecovery
  BY <1>13, <1>a, NextCallAnswered DEF AnnounceRecovery, AnnounceParallelRecovery, BatchLocals
<1>14. CASE EndCalls \/ EndParallel
  <2>1. batch.idx - 1 = length
    BY <1>14, <1>a DEF EndCalls, EndParallel
  <2> QED
    BY <1>14, <2>1 DEF EndCalls, EndParallel
<1>15. CASE RequestParallel
  BY <1>15, <1>a DEF RequestParallel, BatchLocals
<1>16. CASE StartParallel
  BY <1>16, <1>a DEF StartParallel, BatchLocals
<1>17. ASSUME NEW results \in [DOMAIN batch.calls -> RunResults], GatherResults(results)
       PROVE  AnsweredInv'
  BY <1>17, <1>a DEF GatherResults, BatchLocals
<1>18. CASE ReportParallel
  <2> DEFINE status == batch.results[batch.idx]
  <2>1. MoreCalls /\ batch.answered = [i \in 1 .. batch.idx - 1 |-> i]
    BY <1>18 DEF ReportParallel
  <2>2. /\ Answer(batch, status).answered = [i \in 1 .. batch.idx |-> i]
        /\ Answer(batch, status).idx = batch.idx
        /\ Answer(batch, status).calls = batch.calls
        /\ [Answer(batch, status) EXCEPT !.idx = @ + 1].answered = [i \in 1 .. batch.idx |-> i]
        /\ [Answer(batch, status) EXCEPT !.idx = @ + 1].idx = batch.idx + 1
        /\ [Answer(batch, status) EXCEPT !.idx = @ + 1].calls = batch.calls
    BY <1>a, <2>1, AnswerCovers
  <2>3. CASE status = "success"
    <3>1. /\ batch' = [Answer(batch, status) EXCEPT !.idx = @ + 1]
          /\ pc' \in {"call", "par_result"}
      BY <1>18, <2>3 DEF ReportParallel
    <3> QED
      BY <2>1, <2>2, <3>1, NextCallAnswered
  <2>4. CASE status # "success"
    <3>1. batch' = Answer(batch, status) /\ pc' \in {"recover", "par_recover"}
      BY <1>18, <2>4 DEF ReportParallel
    <3> QED
      BY <2>1, <2>2, <3>1
  <2> QED
    BY <2>3, <2>4
<1> QED
  BY <1>0, <1>1, <1>2, <1>3, <1>4, <1>5, <1>6, <1>7, <1>8, <1>9, <1>10, <1>11, <1>12, <1>13,
     <1>14, <1>15, <1>16, <1>17, <1>18 DEF LoopSegment, AwaitedReturns, BetweenSteps

LEMMA AnsweredStep ==
  LoopTypeOK /\ AnsweredInv /\ [LoopNext]_loopVars => AnsweredInv'
<1> SUFFICES ASSUME LoopTypeOK, AnsweredInv, [LoopNext]_loopVars PROVE AnsweredInv'
  OBVIOUS
<1> USE DEF AnsweredInv, AnsweredUpTo, MoreCalls, InCall
<1>1. CASE UNCHANGED loopVars
  BY <1>1 DEF loopVars, taskVars
<1>2. CASE TakeEvent \/ UserStops \/ UserGoesAutonomous \/
           \E approved \in BOOLEAN : UserAnswers(approved)
  BY <1>2 DEF TakeEvent, UserStops, UserGoesAutonomous, UserAnswers, taskVars
<1>3. CASE StartTask \/ AwaitFails
  BY <1>3 DEF StartTask, StartRun, AwaitFails, AwaitRaises, Yield, GoTo
<1>4. CASE LoopRuns
  BY <1>4, AnsweredLoopStep
<1> QED
  BY <1>1, <1>2, <1>3, <1>4 DEF LoopNext

\* The tool messages of a finished batch answer its calls one for one and in
\* order, for batches of any size and however each call ended: rejected,
\* blocked, denied, failed, on the sequential path or on parallel threads.
THEOREM CallsAnswered == LoopSpec => []EveryCallAnswered
<1>1. LoopInit => AnsweredInv
  BY DEF LoopInit, AnsweredInv, InCall
<1>2. LoopTypeOK /\ AnsweredInv => EveryCallAnswered
  BY SeqIsFunction DEF LoopTypeOK, BatchLocals, AnsweredInv, AnsweredUpTo, EveryCallAnswered
<1> QED
  BY TypeCorrect, AnsweredStep, <1>1, <1>2, PTL DEF LoopSpec
-----------------------------------------------------------------------------
(* The plan of a task: the order of its steps, and that completed steps    *)
(* are kept, for plans of any size and any number of replans.              *)

\* The statuses that occur in a plan are among these.
OnlyStatuses(p, statuses) == \A i \in DOMAIN p.steps : p.steps[i] \in statuses

\* A step is in progress only while it is worked on, and a plan in use has
\* not been closed.
PlanInv ==
  /\ PlanInOrder
  /\ pc \in {"generate", "announce", "loop_head"} =>
       OnlyStatuses(plan, {"completed", "pending"})
  /\ pc \in StepPoints \union {"step_done"} =>
       OnlyStatuses(plan, {"completed", "pending", "in_progress"})
  /\ pc \in StepPoints \union {"announce", "loop_head", "step_done"} =>
       plan.status = "executing"
-----------------------------------------------------------------------------
(* The operations on a plan.                                                *)

LEMMA LeastNatural ==
  ASSUME NEW S \in SUBSET Nat, S # {}
  PROVE  \E n \in S : \A m \in S : n <= m
<1> DEFINE R == OpToRel(<, Nat)
<1>1. IsWellFoundedOn(R, Nat)
  BY NatLessThanWellFounded
<1>2. \A x, y \in Nat : y < x => <<y, x>> \in R
  BY DEF OpToRel
<1> HIDE DEF R
<1>3. \E x \in S : \A y \in S : ~ (<<y, x>> \in R)
  BY <1>1, WFMin
<1>4. PICK x \in S : \A y \in S : ~ (<<y, x>> \in R)
  BY <1>3
<1>5. ASSUME NEW y \in S PROVE x <= y
  <2>1. x \in Nat /\ y \in Nat
    BY <1>4
  <2>2. ~ (y < x)
    BY <1>2, <1>4, <2>1
  <2> QED
    BY <2>1, <2>2
<1> QED
  BY <1>4, <1>5

\* The next step is the first pending one.
LEMMA NextStepIsFirst ==
  ASSUME NEW p, p.steps \in Seq(StepStatuses), HasNextStep(p)
  PROVE  /\ NextStep(p) \in DOMAIN p.steps
         /\ p.steps[NextStep(p)] = "pending"
         /\ \A i \in DOMAIN p.steps : i < NextStep(p) => p.steps[i] # "pending"
<1> DEFINE pending == IndicesIn(p, "pending")
<1>1. DOMAIN p.steps = 1 .. Len(p.steps) /\ Len(p.steps) \in Nat
  BY SeqIsFunction
<1>2. pending \in SUBSET Nat /\ pending # {}
  BY <1>1 DEF IndicesIn, HasNextStep
<1>3. \E i \in pending : \A j \in pending : i <= j
  BY <1>2, LeastNatural
<1>4. NextStep(p) \in pending /\ \A j \in pending : NextStep(p) <= j
  BY <1>3 DEF NextStep
<1>5. \A i \in pending : i \in DOMAIN p.steps /\ p.steps[i] = "pending"
  BY DEF IndicesIn
<1>6. \A i \in DOMAIN p.steps : p.steps[i] = "pending" => i \in pending
  BY DEF IndicesIn
<1> HIDE DEF pending
<1>7. NextStep(p) \in DOMAIN p.steps /\ p.steps[NextStep(p)] = "pending"
  BY <1>4, <1>5
<1>8. ASSUME NEW i \in DOMAIN p.steps, i < NextStep(p) PROVE p.steps[i] # "pending"
  <2>1. i \in Nat /\ NextStep(p) \in Nat
    BY <1>1, <1>7
  <2>2. i \notin pending
    BY <1>4, <1>8, <2>1
  <2> QED
    BY <1>6, <2>2
<1> QED
  BY <1>7, <1>8

\* Whatever an operation leaves, finished and pending steps keep their order.
Ordered(steps) ==
  \A i, j \in DOMAIN steps : i < j /\ steps[j] # "pending" => steps[i] = "completed"

LEMMA MarkRunningKeepsOrder ==
  ASSUME NEW p, p.steps \in Seq(StepStatuses), NEW status, status # "pending",
         status # "in_progress", Ordered(p.steps)
  PROVE  /\ Ordered(MarkRunning(p, status))
         /\ \A i \in DOMAIN MarkRunning(p, status) : MarkRunning(p, status)[i] # "in_progress"
BY DEF Ordered, MarkRunning

LEMMA PreservedIsOrdered ==
  ASSUME NEW p, p.steps \in Seq(StepStatuses), NEW n \in Nat
  PROVE  /\ Ordered(PreserveCompletedSteps(p, n))
         /\ \A i \in DOMAIN PreserveCompletedSteps(p, n) :
              PreserveCompletedSteps(p, n)[i] \in {"completed", "pending"}
<1> DEFINE kept == Cardinality(IndicesIn(p, "completed"))
<1>1. kept \in Nat
  BY CompletedIsFinite
<1>2. PreserveCompletedSteps(p, n) =
        [i \in 1 .. kept + n |-> IF i <= kept THEN "completed" ELSE "pending"]
  BY DEF PreserveCompletedSteps
<1> HIDE DEF kept
<1> QED
  BY <1>1, <1>2 DEF Ordered

\* Starting the first pending step of a plan that has no step in progress.
LEMMA StartKeepsOrder ==
  ASSUME NEW p, p.steps \in Seq(StepStatuses), HasNextStep(p), Ordered(p.steps),
         OnlyStatuses(p, {"completed", "pending"})
  PROVE  LET started == [p.steps EXCEPT ![NextStep(p)] = "in_progress"]
         IN  /\ Ordered(started)
             /\ \A i \in DOMAIN started : started[i] \in {"completed", "pending", "in_progress"}
<1> DEFINE next == NextStep(p)
<1>1. /\ next \in DOMAIN p.steps
      /\ p.steps[next] = "pending"
      /\ \A i \in DOMAIN p.steps : i < next => p.steps[i] # "pending"
  BY NextStepIsFirst
<1>2. DOMAIN p.steps = 1 .. Len(p.steps) /\ Len(p.steps) \in Nat
  BY SeqIsFunction
<1> HIDE DEF next
<1>3. \A i \in DOMAIN p.steps : i < next => p.steps[i] = "completed"
  BY <1>1 DEF OnlyStatuses
<1>4. \A i \in DOMAIN p.steps : next < i => p.steps[i] = "pending"
  BY <1>1 DEF Ordered
<1>5. Ordered([p.steps EXCEPT ![next] = "in_progress"])
  BY <1>1, <1>2, <1>3, <1>4 DEF Ordered
<1> QED
  BY <1>5 DEF OnlyStatuses, next
-----------------------------------------------------------------------------
(* The order of the steps.                                                  *)

\* An action that leaves the plan alone keeps the invariant when it leads to
\* a point that asks no more of the plan than the one it comes from.
LEMMA PlanUntouched ==
  ASSUME PlanInv, UNCHANGED plan,
         \/ pc' = pc
         \/ pc \in StepPoints /\ pc' \in StepPoints \union {"step_done"}
         \/ pc = "announce" /\ pc' = "loop_head"
         \/ pc' \notin StepPoints \union {"generate", "announce", "loop_head", "step_done"}
  PROVE  PlanInv'
BY DEF PlanInv, PlanInOrder, OnlyStatuses, IndicesIn, StepPoints, InCall

\* What is to be shown of a plan an action has changed.
LEMMA PlanChanged ==
  ASSUME Ordered(plan'.steps),
         plan'.status = "completed" => OnlyStatuses(plan', {"completed"}),
         plan'.status = "failed" => \A i \in DOMAIN plan'.steps : plan'.steps[i] # "in_progress",
         pc' \in {"generate", "announce", "loop_head"} =>
           OnlyStatuses(plan', {"completed", "pending"}),
         pc' \in StepPoints \union {"step_done"} =>
           OnlyStatuses(plan', {"completed", "pending", "in_progress"}),
         pc' \in StepPoints \union {"announce", "loop_head", "step_done"} =>
           plan'.status = "executing"
  PROVE  PlanInv'
<1>1. PlanInOrder'
  BY DEF PlanInOrder, Ordered, OnlyStatuses, IndicesIn
<1> QED
  BY <1>1 DEF PlanInv, OnlyStatuses, StepPoints, InCall

\* The actions that lead from one point inside a step to the next.
InsideStep ==
  SpendRounds \/ AbandonStep \/ CallModel \/ FinishBatch \/ RejectCall \/ BlockCall \/
  RequestAutomatic \/ AnnounceApproval \/ RequestApproval \/ OpenApprovalWait \/
  ApprovalArrives \/ RequestGuardian \/ StartGuardianReview \/ DenyCall \/ AnnounceRecovery \/
  EndCalls \/ RequestParallel \/ StartParallel \/ ReportParallel \/
  AnnounceParallelRecovery \/ EndParallel \/ ModelAnswers \/ ModelSaysNothing \/
  (\E class \in ModelFailureClasses, reported \in BOOLEAN : ModelFails(class, reported)) \/
  (\E calls \in Batches : ModelCallsTools(calls)) \/
  (\E approved \in BOOLEAN : GuardianDecides(approved)) \/
  (\E status \in RunResults : ToolReturns(status)) \/
  (\E results \in [DOMAIN batch.calls -> RunResults] : GatherResults(results))

LEMMA InsideStepMoves ==
  ASSUME InsideStep
  PROVE  UNCHANGED plan /\ pc \in StepPoints /\ pc' \in StepPoints \union {"step_done"}
BY DEF InsideStep, SpendRounds, AbandonStep, CallModel, FinishBatch, RejectCall, BlockCall,
   RequestAutomatic, AnnounceApproval, RequestApproval, OpenApprovalWait, ApprovalArrives,
   RequestGuardian, StartGuardianReview, DenyCall, AnnounceRecovery, EndCalls,
   RequestParallel, StartParallel, ReportParallel, AnnounceParallelRecovery, EndParallel,
   ModelAnswers, ModelSaysNothing, ModelFails, ModelCallsTools, GuardianDecides, ToolReturns,
   GatherResults, Resolved, RetryOrExhaust, At, GoTo, Yield, StepPoints, InCall

LEMMA PlanLoopStep ==
  ASSUME LoopTypeOK, PlanInv, LoopRuns
  PROVE  PlanInv'
<1>0. LoopSegment \/ AwaitedReturns
  BY DEF LoopRuns
<1>1. plan.steps \in Seq(StepStatuses) /\ Ordered(plan.steps)
  BY DEF LoopTypeOK, Plans, PlanInv, PlanInOrder, Ordered
<1>t. plan = [steps |-> plan.steps, status |-> plan.status]
  BY DEF LoopTypeOK, Plans
<1>2. CASE InsideStep
  BY <1>2, InsideStepMoves, PlanUntouched
<1>3. CASE AnnounceExecuting \/ LeaveLoop \/ FinishRun \/ StepStopped \/ StartReplan \/
           ReportFailedStep \/ FailTask \/ ApprovalCancelled
  <2>1. /\ UNCHANGED plan
        /\ \/ pc = "announce" /\ pc' = "loop_head"
           \/ pc' \notin StepPoints \union {"generate", "announce", "loop_head", "step_done"}
    BY <1>3 DEF AnnounceExecuting, LeaveLoop, FinishRun, StepStopped, StartReplan,
       ReportFailedStep, FailTask, ApprovalCancelled, AwaitRaises, At, GoTo, Yield,
       StepPoints, InCall
  <2> QED
    BY <2>1, PlanUntouched
<1>4. CASE GeneratePlan
  <2>1. /\ plan'.steps = plan.steps /\ plan'.status = "executing" /\ pc' = "announce"
        /\ pc = "generate"
    BY <1>t, <1>4 DEF GeneratePlan, At, Yield
  <2> QED
    BY <1>1, <2>1, PlanChanged DEF PlanInv, OnlyStatuses, StepPoints, InCall
<1>5. CASE TimeOut
  <2>1. plan'.steps = plan.steps /\ plan'.status = "timed_out" /\ pc' = "exit"
    BY <1>t, <1>5 DEF TimeOut, Yield
  <2> QED
    BY <1>1, <2>1, PlanChanged DEF StepPoints, InCall
<1>6. CASE CompleteTask
  <2>1. /\ plan'.steps = plan.steps /\ plan'.status = "completed" /\ pc' = "exit"
        /\ pc = "loop_head" /\ ~HasNextStep(plan)
    BY <1>t, <1>6 DEF CompleteTask, At, Yield
  <2>2. OnlyStatuses(plan', {"completed"})
    BY <2>1 DEF HasNextStep, IndicesIn, PlanInv, OnlyStatuses
  <2> QED
    BY <1>1, <2>1, <2>2, PlanChanged DEF StepPoints, InCall
<1>7. CASE StartStep
  <2>1. /\ plan'.steps = [plan.steps EXCEPT ![NextStep(plan)] = "in_progress"]
        /\ plan'.status = plan.status /\ pc' = "round_head"
        /\ pc = "loop_head" /\ HasNextStep(plan)
    BY <1>t, <1>7 DEF StartStep, At, Yield
  <2>2. OnlyStatuses(plan, {"completed", "pending"}) /\ plan.status = "executing"
    BY <2>1 DEF PlanInv
  <2>3. Ordered(plan'.steps) /\ OnlyStatuses(plan', {"completed", "pending", "in_progress"})
    BY <1>1, <2>1, <2>2, StartKeepsOrder DEF OnlyStatuses
  <2> QED
    BY <2>1, <2>2, <2>3, PlanChanged
<1>8. CASE StopTask
  <2>1. /\ plan'.steps = plan.steps \/ plan'.steps = MarkRunning(plan, "skipped")
        /\ plan'.status = "stopped" /\ pc' = "exit"
    BY <1>8 DEF StopTask, StopPlan, Yield
  <2>2. Ordered(plan'.steps)
    BY <1>1, <2>1, MarkRunningKeepsOrder
  <2> QED
    BY <2>1, <2>2, PlanChanged DEF StepPoints, InCall
<1>9. CASE CompleteStep
  <2>1. /\ plan'.steps = MarkRunning(plan, "completed") /\ plan'.status = plan.status
        /\ pc' = "loop_head" /\ pc = "step_done"
    BY <1>t, <1>9 DEF CompleteStep, At, Yield
  <2>2. /\ OnlyStatuses(plan, {"completed", "pending", "in_progress"})
        /\ plan.status = "executing"
    BY <2>1 DEF PlanInv
  <2>3. OnlyStatuses(plan', {"completed", "pending"})
    BY <2>1, <2>2 DEF OnlyStatuses, MarkRunning
  <2>4. Ordered(plan'.steps)
    BY <1>1, <2>1, MarkRunningKeepsOrder
  <2> QED
    BY <2>1, <2>2, <2>3, <2>4, PlanChanged DEF StepPoints, InCall
<1>10. ASSUME NEW n \in 1 .. RoomForSteps, RevisePlan(n)
       PROVE  PlanInv'
  <2>1. /\ plan'.steps = PreserveCompletedSteps(plan, n) /\ plan'.status = "executing"
        /\ pc' = "announce"
    BY <1>10 DEF RevisePlan, Yield
  <2>2. n \in Nat
    BY <1>1, CompletedIsFinite, LoopAssumption DEF RoomForSteps
  <2>3. Ordered(plan'.steps) /\ OnlyStatuses(plan', {"completed", "pending"})
    BY <1>1, <2>1, <2>2, PreservedIsOrdered DEF OnlyStatuses
  <2> QED
    BY <2>1, <2>3, PlanChanged DEF StepPoints, InCall
<1>11. CASE FailStep
  <2>1. /\ plan'.steps = MarkRunning(plan, "failed") /\ plan'.status = "failed"
        /\ pc' = "fail_update"
    BY <1>11 DEF FailStep, Yield
  <2>2. /\ Ordered(plan'.steps)
        /\ \A i \in DOMAIN plan'.steps : plan'.steps[i] # "in_progress"
    BY <1>1, <2>1, MarkRunningKeepsOrder
  <2> QED
    BY <2>1, <2>2, PlanChanged DEF StepPoints, InCall
<1> QED
  BY <1>0, <1>2, <1>3, <1>4, <1>5, <1>6, <1>7, <1>8, <1>9, <1>10, <1>11
     DEF LoopSegment, AwaitedReturns, InsideStep

\* The plan a task starts with has one pending step.
LEMMA BootstrapPlanInOrder ==
  /\ Ordered(BootstrapPlan.steps)
  /\ OnlyStatuses(BootstrapPlan, {"completed", "pending"})
  /\ BootstrapPlan.status = "planning"
<1>1. DOMAIN BootstrapPlan.steps = {1} /\ BootstrapPlan.steps[1] = "pending"
  BY DEF BootstrapPlan
<1> QED
  BY <1>1 DEF Ordered, OnlyStatuses, BootstrapPlan

LEMMA PlanInit == LoopInit => PlanInv
BY BootstrapPlanInOrder DEF LoopInit, PlanInv, PlanInOrder, Ordered, StepPoints, InCall

LEMMA PlanStep ==
  LoopTypeOK /\ PlanInv /\ [LoopNext]_loopVars => PlanInv'
<1> SUFFICES ASSUME LoopTypeOK, PlanInv, [LoopNext]_loopVars PROVE PlanInv'
  OBVIOUS
<1>1. CASE UNCHANGED loopVars
  BY <1>1, PlanUntouched DEF loopVars, taskVars
<1>2. CASE TakeEvent \/ UserStops \/ UserGoesAutonomous \/
           \E approved \in BOOLEAN : UserAnswers(approved)
  BY <1>2, PlanUntouched DEF TakeEvent, UserStops, UserGoesAutonomous, UserAnswers, taskVars
<1>3. CASE StartTask
  <2>1. plan' = BootstrapPlan /\ pc' = "generate"
    BY <1>3 DEF StartTask, StartRun, Yield
  <2> QED
    BY <2>1, BootstrapPlanInOrder, PlanChanged DEF StepPoints, InCall
<1>4. CASE AwaitFails
  <2>1. UNCHANGED plan /\ pc' = "idle"
    BY <1>4 DEF AwaitFails, AwaitRaises, GoTo
  <2> QED
    BY <2>1, PlanUntouched DEF StepPoints, InCall
<1>5. CASE LoopRuns
  BY <1>5, PlanLoopStep
<1> QED
  BY <1>1, <1>2, <1>3, <1>4, <1>5 DEF LoopNext

\* Steps run strictly in the order of the plan, however often it is replanned,
\* stopped, broken off by an exception or timed out; a task is reported
\* complete only with all its steps completed.
THEOREM PlanOrdered == LoopSpec => []PlanInOrder
<1>1. PlanInv => PlanInOrder
  BY DEF PlanInv
<1> QED
  BY TypeCorrect, PlanInit, PlanStep, <1>1, PTL DEF LoopSpec
-----------------------------------------------------------------------------
(* Completed steps are kept.                                                *)

\* A set of indices that contains the old one is at least as large.
LEMMA MoreCompleted ==
  ASSUME NEW p, p.steps \in Seq(StepStatuses), NEW q, q.steps \in Seq(StepStatuses),
         IndicesIn(p, "completed") \subseteq IndicesIn(q, "completed")
  PROVE  Cardinality(IndicesIn(q, "completed")) >= Cardinality(IndicesIn(p, "completed"))
<1>1. DOMAIN q.steps = 1 .. Len(q.steps) /\ Len(q.steps) \in Nat
  BY SeqIsFunction
<1>2. IndicesIn(q, "completed") \subseteq 1 .. Len(q.steps)
  BY <1>1 DEF IndicesIn
<1>3. IsFiniteSet(1 .. Len(q.steps))
  BY <1>1, FS_Interval
<1>4. IsFiniteSet(IndicesIn(q, "completed"))
  BY <1>2, <1>3, FS_Subset
<1> QED
  BY <1>4, FS_Subset, CompletedIsFinite

LEMMA MarkRunningKeepsCompleted ==
  ASSUME NEW p, p.steps \in Seq(StepStatuses), NEW status, NEW q,
         q.steps = MarkRunning(p, status)
  PROVE  IndicesIn(p, "completed") \subseteq IndicesIn(q, "completed")
BY DEF MarkRunning, IndicesIn

\* The steps the planner puts behind the completed ones do not replace them.
LEMMA PreservedCompleted ==
  ASSUME NEW p, p.steps \in Seq(StepStatuses), NEW n \in Nat, NEW q,
         q.steps = PreserveCompletedSteps(p, n)
  PROVE  Cardinality(IndicesIn(q, "completed")) = Cardinality(IndicesIn(p, "completed"))
<1> DEFINE kept == Cardinality(IndicesIn(p, "completed"))
<1>1. kept \in Nat
  BY CompletedIsFinite
<1>2. q.steps = [i \in 1 .. kept + n |-> IF i <= kept THEN "completed" ELSE "pending"]
  BY DEF PreserveCompletedSteps
<1> HIDE DEF kept
<1>3. IndicesIn(q, "completed") = 1 .. kept
  BY <1>1, <1>2 DEF IndicesIn
<1>4. Cardinality(1 .. kept) = kept
  BY <1>1, FS_Interval
<1> QED
  BY <1>3, <1>4 DEF kept

KeptByStep ==
  pc # "idle" =>
    Cardinality(IndicesIn(plan', "completed")) >= Cardinality(IndicesIn(plan, "completed"))

LEMMA StepsKept ==
  ASSUME LoopTypeOK, LoopTypeOK', [LoopNext]_loopVars
  PROVE  KeptByStep
<1>1. plan.steps \in Seq(StepStatuses) /\ plan'.steps \in Seq(StepStatuses)
  BY DEF LoopTypeOK, Plans
<1>t. plan = [steps |-> plan.steps, status |-> plan.status]
  BY DEF LoopTypeOK, Plans
<1>2. ASSUME UNCHANGED plan PROVE KeptByStep
  BY <1>1, <1>2, MoreCompleted DEF KeptByStep
<1>3. ASSUME plan'.steps = plan.steps \/
             \E status : plan'.steps = MarkRunning(plan, status)
      PROVE  KeptByStep
  <2>1. CASE plan'.steps = plan.steps
    <3>1. IndicesIn(plan', "completed") = IndicesIn(plan, "completed")
      BY <2>1 DEF IndicesIn
    <3> QED
      BY <1>1, <3>1, MoreCompleted DEF KeptByStep
  <2>2. ASSUME NEW status, plan'.steps = MarkRunning(plan, status)
        PROVE  KeptByStep
    <3>1. IndicesIn(plan, "completed") \subseteq IndicesIn(plan', "completed")
      BY <1>1, <2>2, MarkRunningKeepsCompleted
    <3> QED
      BY <1>1, <3>1, MoreCompleted DEF KeptByStep
  <2> QED
    BY <1>3, <2>1, <2>2
<1>4. CASE UNCHANGED loopVars
  BY <1>2, <1>4 DEF loopVars, taskVars
<1>5. CASE TakeEvent \/ UserStops \/ UserGoesAutonomous \/ AwaitFails \/
           \E approved \in BOOLEAN : UserAnswers(approved)
  BY <1>2, <1>5 DEF TakeEvent, UserStops, UserGoesAutonomous, AwaitFails, AwaitRaises,
     UserAnswers, taskVars
<1>6. CASE StartTask
  BY <1>6 DEF StartTask, StartRun, At, KeptByStep
<1>7. CASE LoopRuns
  <2>1. LoopSegment \/ AwaitedReturns
    BY <1>7 DEF LoopRuns
  <2>2. CASE InsideStep
    BY <1>2, <2>2, InsideStepMoves
  <2>3. CASE AnnounceExecuting \/ LeaveLoop \/ FinishRun \/ StepStopped \/ StartReplan \/
             ReportFailedStep \/ FailTask \/ ApprovalCancelled
    BY <1>2, <2>3 DEF AnnounceExecuting, LeaveLoop, FinishRun, StepStopped, StartReplan,
       ReportFailedStep, FailTask, ApprovalCancelled, AwaitRaises
  <2>4. CASE GeneratePlan \/ TimeOut \/ CompleteTask \/ StopTask \/ CompleteStep \/ FailStep
    <3>1. CASE GeneratePlan \/ TimeOut \/ CompleteTask
      <4>1. plan'.steps = plan.steps
        BY <1>t, <3>1 DEF GeneratePlan, TimeOut, CompleteTask
      <4> QED
        BY <1>3, <4>1
    <3>2. CASE StopTask
      <4>1. plan'.steps = plan.steps \/ plan'.steps = MarkRunning(plan, "skipped")
        BY <3>2 DEF StopTask, StopPlan
      <4> QED
        BY <1>3, <4>1
    <3>3. CASE CompleteStep
      <4>1. plan'.steps = MarkRunning(plan, "completed")
        BY <1>t, <3>3 DEF CompleteStep
      <4> QED
        BY <1>3, <4>1
    <3>4. CASE FailStep
      <4>1. plan'.steps = MarkRunning(plan, "failed")
        BY <3>4 DEF FailStep
      <4> QED
        BY <1>3, <4>1
    <3> QED
      BY <2>4, <3>1, <3>2, <3>3, <3>4
  <2>5. CASE StartStep
    <3>1. /\ plan'.steps = [plan.steps EXCEPT ![NextStep(plan)] = "in_progress"]
          /\ HasNextStep(plan)
      BY <1>t, <2>5 DEF StartStep
    <3>2. plan.steps[NextStep(plan)] = "pending"
      BY <1>1, <3>1, NextStepIsFirst
    <3>3. IndicesIn(plan, "completed") \subseteq IndicesIn(plan', "completed")
      BY <3>1, <3>2 DEF IndicesIn
    <3> QED
      BY <1>1, <3>3, MoreCompleted DEF KeptByStep
  <2>6. ASSUME NEW n \in 1 .. RoomForSteps, RevisePlan(n)
        PROVE  KeptByStep
    <3>1. plan'.steps = PreserveCompletedSteps(plan, n)
      BY <2>6 DEF RevisePlan
    <3>2. n \in Nat
      BY <1>1, CompletedIsFinite, LoopAssumption DEF RoomForSteps
    <3> QED
      BY <1>1, <3>1, <3>2, PreservedCompleted, CompletedIsFinite DEF KeptByStep
  <2> QED
    BY <2>1, <2>2, <2>3, <2>4, <2>5, <2>6 DEF LoopSegment, AwaitedReturns, InsideStep
<1> QED
  BY <1>4, <1>5, <1>6, <1>7 DEF LoopNext

\* No step of a task, and no replanning by the model, loses a completed step.
THEOREM CompletedKept == LoopSpec => CompletedStepsKept
<1>1. LoopTypeOK /\ LoopTypeOK' /\ [LoopNext]_loopVars =>
        [pc # "idle" => Cardinality(IndicesIn(plan', "completed")) >=
                          Cardinality(IndicesIn(plan, "completed"))]_loopVars
  BY StepsKept DEF KeptByStep
<1> QED
  BY TypeCorrect, <1>1, PTL DEF LoopSpec, CompletedStepsKept
=============================================================================
