SPECIFICATION FairSpec
CONSTANTS
  Agents <- MCTwoAgents
  MaxAgents = 1
  MaxQueue = 1
  MaxThreads = 2
CHECK_DEADLOCK FALSE
INVARIANTS
  SubAgentsTypeOK
  AcceptedHasThread
  RunningIsAtWork
  AtMostOneLateInput
PROPERTIES
  StaleThreadsInert
  ClosedComesToRest
  InputServed
