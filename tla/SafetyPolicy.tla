---------------------------- MODULE SafetyPolicy ----------------------------
(***************************************************************************)
(* The decision SafetyLayer.check_and_approve takes for one tool call:     *)
(* sandbox posture, workspace boundary, risk class and approval mode.      *)
(* A tool call is abstracted to its kind, the combination of attributes    *)
(* that decision reads:                                                    *)
(*   unknown    the tool is not registered                                 *)
(*   badargs    the arguments do not parse                                 *)
(*   escape     a path outside the workspace boundary                      *)
(*   read       a read-only tool                                           *)
(*   secret     a read-only tool on a sensitive path (high risk)           *)
(*   delegate   spawn_agent, send_input, close_agent, resume_agent: not    *)
(*              read-only, registered as requiring no approval             *)
(*   write      file_write / patch_apply on an ordinary path, an ordinary  *)
(*              shell command, an MCP tool without readOnlyHint            *)
(*   overwrite  file_write / patch_apply on a sensitive path (high risk)   *)
(*   shell      shell_execute with a high-risk command                     *)
(*   commit     git_commit, test_execute, python_repl: never routed to the *)
(*              guardian                                                   *)
(*   publish    git_commit / test_execute on a sensitive path (high risk)  *)
(***************************************************************************)
CONSTANTS
  SandboxMode,          \* safety.sandbox_mode
  ApprovalsReviewer     \* safety.approvals_reviewer

SandboxPostures == {"workspace-write", "read-only", "danger-full-access"}

ASSUME SandboxModeAssumption == SandboxMode \in SandboxPostures
ASSUME ReviewerAssumption == ApprovalsReviewer \in {"user", "guardian_subagent"}

CallKinds ==
  {"unknown", "badargs", "escape", "read", "secret", "delegate",
   "write", "overwrite", "shell", "commit", "publish"}

Unresolved == {"unknown", "badargs"}

ApprovalModes == {"balanced", "autonomous"}

ReadOnly(kind) == kind \in {"read", "secret"}

\* RiskLevel.HIGH
HighRisk(kind) == kind \in {"secret", "overwrite", "shell", "publish"}

\* Tool.requires_approval: TRUE unless the tool says otherwise.
AsksApproval(kind) == kind \notin {"read", "secret", "delegate"}

SideEffectBlocked(kind) == SandboxMode = "read-only" /\ ~ReadOnly(kind)

RequiresToolApproval(kind, mode) ==
  IF HighRisk(kind)
    THEN ~ /\ kind = "shell"
           /\ mode = "autonomous"
           /\ SandboxMode = "danger-full-access"
    ELSE ~ReadOnly(kind) /\ AsksApproval(kind) /\ mode # "autonomous"

Blocked(kind) == SideEffectBlocked(kind) \/ kind = "escape"

OnlyHighRiskAsksMutant(kind, mode) ==
  IF Blocked(kind) THEN "blocked"
  ELSE IF HighRisk(kind) THEN "needs_approval"
  ELSE "approved"

\* ApprovalResult.status
CheckAndApprove(kind, mode) ==
  IF Blocked(kind) THEN "blocked"
  ELSE IF RequiresToolApproval(kind, mode) THEN "needs_approval"
  ELSE "approved"

RouteToGuardian(kind) ==
  ApprovalsReviewer = "guardian_subagent" /\ kind \in {"write", "overwrite", "shell"}

\* _parallel_read_only_batch_eligible
ParallelReadOnly(calls, mode) ==
  /\ DOMAIN calls # {1}
  /\ \A i \in DOMAIN calls :
       /\ calls[i] \notin Unresolved
       /\ ReadOnly(calls[i])
       /\ CheckAndApprove(calls[i], mode) = "approved"
=============================================================================
