SPECIFICATION Spec
CONSTANTS
  Agents <- MCOneAgent
  MaxAgents = 1
  MaxQueue = 2
  MaxThreads = 1
CHECK_DEADLOCK FALSE
PROPERTIES
  WaitMeansDone
