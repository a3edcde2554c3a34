SPECIFICATION FairSpec
CONSTANTS
  MaxConsecutiveErrors = 1
  SandboxMode = "workspace-write"
  ApprovalsReviewer = "user"
  MaxRounds = 2
  UnifiedTurnLoop = TRUE
  TimeoutEnabled = FALSE
  Kinds <- MCWriteRead
  MaxBatch = 1
  MaxSteps = 2
  Modes = {"agent", "chat"}
  Policies = {"shell"}
  MaxTurns = 3
  BreakKinds = {"error", "ctrl_c"}
  MaxBreaks = 1
CHECK_DEADLOCK FALSE
INVARIANTS
  RuntimeTypeOK
  OneOutcome
  PendingIsSuspendedRequest
  NoOverlap
PROPERTIES
  ImplementsTurnLifecycle
  InterruptReturnsPrompt
