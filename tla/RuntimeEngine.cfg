CONSTANTS
  MaxInflight = 2
  MaxRetries = 1
  DispatchLatency = 3
  CopyLatency = 1
  Timeout = 2
  SimplerProcess = TRUE
  MaxOps = 3
  MaxSubmitTime = 2
  MaxNow = 8
SPECIFICATION FairSpec
INVARIANTS
  TypeOK
  SlotsAccounted
  OneCompletion
  BudgetSpent
PROPERTIES
  FinalIsFinal
  EventuallyDelivered
