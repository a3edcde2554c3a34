SPECIFICATION LoopSpec
CONSTANTS
  MaxConsecutiveErrors = 5
  SandboxMode = "workspace-write"
  ApprovalsReviewer = "user"
  MaxRounds = 3
  UnifiedTurnLoop = TRUE
  TimeoutEnabled = TRUE
  Kinds <- MCManyKinds
  MaxBatch = 2
  MaxSteps = 2
INVARIANTS
  ExecutionAuthorised
  EveryCallAnswered
  RoundsWithinBudget
  PlanInOrder
PROPERTIES
  CompletedStepsKept
