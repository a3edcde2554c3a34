SPECIFICATION FairSpec
CONSTANTS
  MaxConsecutiveErrors = 1
  SandboxMode = "workspace-write"
  ApprovalsReviewer = "guardian_subagent"
  MaxRounds = 2
  UnifiedTurnLoop = TRUE
  TimeoutEnabled = FALSE
  Kinds <- MCWriteCommit
  MaxBatch = 1
  MaxSteps = 2
  Modes = {"agent", "chat"}
  Policies = {"auto", "deny"}
  MaxTurns = 2
  BreakKinds = {"ctrl_c"}
  MaxBreaks = 1
CHECK_DEADLOCK FALSE
INVARIANTS
  DenyNeverExecutes
PROPERTIES
  ApprovalDecided
