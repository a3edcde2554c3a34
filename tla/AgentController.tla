--------------------------- MODULE AgentController ---------------------------
(***************************************************************************)
(* AgentController (agents/controller.py), the asynchronous path: dispatch *)
(* of one input, the recording of every event the loop yields, approval    *)
(* decisions, stop, and the end of a task.  The controller is cached by    *)
(* the runtime and serves one task after the other, with one AgentLoop.    *)
(*                                                                         *)
(* The definitions are effects on the controller's state; SessionRuntime   *)
(* composes them into the handlers it runs.                                *)
(***************************************************************************)
EXTENDS AgentLoop

VARIABLES
  agentIter,     \* the _events() generator: none, fresh, routed or live
  asyncActive,   \* self._async_agent_active
  directActive,  \* self._direct_stream_active
  pendingTool,   \* self._pending_tool is set
  task,          \* session.metadata["agent_task_state"]: phase and active
  outcomes,      \* final messages appended to the history since the dispatch
  approvalMeta,  \* session.metadata has "approval_mode"
  defaultMode    \* ApprovalManager._default_mode

controllerVars ==
  <<agentIter, asyncActive, directActive, pendingTool, task, outcomes,
    approvalMeta, defaultMode>>
-----------------------------------------------------------------------------
OutcomeKinds == {"completed", "stopped", "timed_out", "failed", "direct_answer"}

Phases ==
  {"", "planning", "executing", "waiting_approval", "retrying", "replanning",
   "recovering", "stopped", "timed_out", "completed", "failed"}

InactivePhases == {"stopped", "timed_out", "completed", "failed"}

HasActiveTask == pendingTool \/ directActive \/ asyncActive

State(phase, active) == [phase |-> phase, active |-> active]

\* _finish_task, after the state and the message of the outcome.
FinishTask(phase) ==
  /\ pendingTool' = FALSE
  /\ directActive' = FALSE
  /\ asyncActive' = FALSE
  /\ approvalMode' = defaultMode
  /\ approvalMeta' = FALSE
  /\ task' = State(phase, FALSE)

RecordOutcome(kind) ==
  /\ outcomes' = Append(outcomes, kind)
  /\ FinishTask(kind)

RecordState(phase, active, pending) ==
  /\ task' = State(phase, active)
  /\ pendingTool' = pending
  /\ UNCHANGED <<asyncActive, directActive, outcomes, approvalMode, approvalMeta>>

OutcomeOf(type) ==
  CASE type = "task_complete"  -> "completed"
    [] type = "task_stopped"   -> "stopped"
    [] type = "task_timed_out" -> "timed_out"
    [] type = "task_failed"    -> "failed"

\* _record_event
RecordEvent(e) ==
  \/ /\ e.type = "phase"
     /\ RecordState(e.arg, e.arg \notin InactivePhases, pendingTool)
  \/ /\ e.type \in {"plan_generated", "plan_updated"}
     /\ RecordState(task.phase, task.active, pendingTool)
  \/ /\ e.type = "step_started"
     /\ RecordState("executing", TRUE, pendingTool)
  \/ /\ e.type = "tool_result"
     /\ RecordState(IF e.arg = "success" THEN "executing" ELSE "recovering", TRUE,
                    pendingTool)
  \/ /\ e.type = "tool_request"
     /\ IF e.arg = "approval"
          THEN RecordState("waiting_approval", TRUE, TRUE)
          ELSE RecordState("executing", TRUE, FALSE)
  \/ /\ e.type = "guardian_started"
     /\ RecordState("waiting_approval", TRUE, FALSE)
  \/ /\ e.type = "guardian_completed"
     /\ RecordState(IF e.arg = "approved" THEN "executing" ELSE "recovering", TRUE,
                    pendingTool)
  \/ /\ e.type \in Finals
     /\ RecordOutcome(OutcomeOf(e.type))

ControllerInit ==
  /\ agentIter = "none"
  /\ asyncActive = FALSE
  /\ directActive = FALSE
  /\ pendingTool = FALSE
  /\ task = State("", FALSE)
  /\ outcomes = <<>>
  /\ approvalMeta = FALSE
  /\ defaultMode = approvalMode

Routes == {"direct_answer", "single_step_task", "multi_step_task"}

\* adispatch_input once triage has answered; the caller owns the exception of
\* a target that cannot execute tools.
RouteInput(route, toolsSupported) ==
  /\ outcomes' = <<>>
  /\ IF route = "direct_answer"
       THEN /\ directActive' = TRUE
            /\ task' = State("executing", TRUE)
            /\ UNCHANGED <<agentIter, approvalMeta>>
       ELSE /\ UNCHANGED directActive
            /\ IF toolsSupported
                 THEN /\ task' = State("planning", TRUE)
                      /\ approvalMeta' = TRUE
                      /\ agentIter' = "fresh"
                 ELSE /\ task' = State("failed", FALSE)
                      /\ UNCHANGED <<agentIter, approvalMeta>>
  /\ UNCHANGED <<asyncActive, pendingTool, approvalMode, defaultMode>>

\* apply_tool_approval: the decision goes to whatever future is waiting.
ApplyToolApproval(approved, autonomousAll) ==
  /\ IF autonomousAll
       THEN approvalMode' = "autonomous" /\ defaultMode' = "autonomous" /\ approvalMeta' = TRUE
       ELSE UNCHANGED <<approvalMode, defaultMode, approvalMeta>>
  /\ task' = State(IF approved THEN task.phase ELSE "recovering", TRUE)
  /\ pendingTool' = FALSE
  /\ SupplyToolApproval(approved)
  /\ UNCHANGED <<agentIter, asyncActive, directActive, outcomes>>

\* The generators are closed at the point where they are suspended; the
\* finally clauses clear the future and the active flag.
CloseLoop == pc' = "idle" /\ event' = NoEvent /\ approvalWait' = "absent"

StopAnyhowMutant == stopRequested' = TRUE /\ RecordOutcome("stopped")

ControllerStays ==
  UNCHANGED <<stopRequested, pendingTool, directActive, asyncActive, approvalMode,
              approvalMeta, task, outcomes>>

\* AgentController.stop: nothing at all without an active task.  The future it
\* cancels goes with the generator, which the callers have closed or close.
StopController ==
  IF HasActiveTask
    THEN stopRequested' = TRUE /\ RecordOutcome("stopped")
    ELSE ControllerStays

\* The finally clause of _astream_direct_answer.
FinishDirectAnswer(answered) ==
  /\ outcomes' = IF answered /\ task.phase # "stopped"
                   THEN Append(outcomes, "direct_answer") ELSE outcomes
  /\ FinishTask(IF answered /\ task.phase # "stopped" THEN "completed" ELSE task.phase)
  /\ UNCHANGED <<agentIter, defaultMode, stopRequested>>
=============================================================================
