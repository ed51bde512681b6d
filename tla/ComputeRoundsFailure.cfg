CONSTANTS
  MaxInflight = 4
  MaxRetries = 1
  DispatchLatency = 4
  CopyLatency = 2
  Timeout = 3
  SimplerProcess = TRUE
  MaxOps = 6
  MaxSubmitTime = 100
  MaxNow = 100
  Rounds = 2
  PollSteps = {1, 3, 4, 6}
CHECK_DEADLOCK FALSE
SPECIFICATION WSpec
INVARIANT
  ExecutionFailureFailsWorkload
