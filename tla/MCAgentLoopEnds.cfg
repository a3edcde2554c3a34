SPECIFICATION LoopFairSpec
CONSTANTS
  MaxConsecutiveErrors = 5
  SandboxMode = "workspace-write"
  ApprovalsReviewer = "guardian_subagent"
  MaxRounds = 2
  UnifiedTurnLoop = TRUE
  TimeoutEnabled = TRUE
  Kinds <- MCGuardKinds
  MaxBatch = 1
  MaxSteps = 2
PROPERTIES
  TaskEnds
