--------------------------- MODULE FailurePolicy ---------------------------
(***************************************************************************)
(* Failure classes, retry budgets and the replanning policy of the agent   *)
(* loop (agents/recovery.py).  A failure detail is abstracted to the class *)
(* its keywords select.                                                    *)
(***************************************************************************)
EXTENDS Integers

CONSTANT MaxConsecutiveErrors   \* AgentLoop(max_consecutive_errors=5)

ASSUME MaxConsecutiveErrorsAssumption == MaxConsecutiveErrors \in Nat \ {0}

ModelFailureClasses == {"model_transient", "model_terminal"}

FailureClasses ==
  ModelFailureClasses \union
    {"tool_timeout", "tool_denied", "tool_blocked", "tool_error", "unknown"}

NoFailure == "none"

\* ToolResult.status; "blocked" is an error whose summary is "Blocked tool ...".
ToolStatuses == {"success", "timeout", "denied", "blocked", "error"}

DefaultRetryBudget(class) ==
  CASE class = "model_transient" -> 3
    [] class \in {"tool_timeout", "tool_error"} -> 2
    [] OTHER -> 1

\* min(budget_state.retry_budget, self._max_consecutive_errors)
RetryBudget(class) ==
  IF DefaultRetryBudget(class) < MaxConsecutiveErrors
    THEN DefaultRetryBudget(class)
    ELSE MaxConsecutiveErrors

ShouldReplan(class) == class \in {"tool_denied", "tool_blocked", "tool_error"}

ClassifyToolFailure(status) ==
  CASE status = "success" -> NoFailure
    [] status = "timeout" -> "tool_timeout"
    [] status = "denied"  -> "tool_denied"
    [] status = "blocked" -> "tool_blocked"
    [] status = "error"   -> "tool_error"
    [] OTHER -> "unknown"

NoCounters == [class \in FailureClasses |-> 0]

UpdateFailureCounters(counters, class) == [counters EXCEPT ![class] = @ + 1]
=============================================================================
