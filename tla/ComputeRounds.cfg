CONSTANTS
  MaxInflight = 4
  MaxRetries = 1
  DispatchLatency = 4
  CopyLatency = 2
  Timeout = 3
  SimplerProcess = TRUE
  MaxOps = 12
  MaxSubmitTime = 100
  MaxNow = 100
  Rounds = 4
  PollSteps = {1, 3, 4, 6}
CHECK_DEADLOCK FALSE
SPECIFICATION WSpec
INVARIANTS
  WTypeOK
  RoundsAreIsolated
  RefusedOnlyIfNotAmple
PROPERTIES
  WorkloadTerminates
