SPECIFICATION Spec
CONSTANTS
  MaxConsecutiveErrors = 1
  SandboxMode = "workspace-write"
  ApprovalsReviewer = "user"
  MaxRounds = 2
  UnifiedTurnLoop = TRUE
  TimeoutEnabled = FALSE
  Kinds <- MCWrite
  MaxBatch = 1
  MaxSteps = 2
  Modes = {"agent"}
  Policies = {"shell"}
  MaxTurns = 2
  BreakKinds = {"ctrl_c"}
  MaxBreaks = 0
CHECK_DEADLOCK FALSE
INVARIANTS
  InterruptedOnlyWhenAsked
