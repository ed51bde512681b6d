CONSTANTS
  NodeCount = 2
  Lossy = FALSE
  Duplicating = FALSE
  LocalFaults = FALSE
  Patient = TRUE
CHECK_DEADLOCK FALSE
SPECIFICATION PoolSpec
INVARIANT
  EveryNodePasses
