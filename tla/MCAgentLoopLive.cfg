SPECIFICATION LoopFairSpec
CONSTANTS
  MaxConsecutiveErrors = 1
  SandboxMode = "danger-full-access"
  ApprovalsReviewer = "guardian_subagent"
  MaxRounds = 2
  UnifiedTurnLoop = FALSE
  TimeoutEnabled = FALSE
  Kinds <- MCRiskyKinds
  MaxBatch = 2
  MaxSteps = 2
PROPERTIES
  StopEndsTask
  StepEnds
