CONSTANTS
  NodeCount = 2
  Lossy = TRUE
  Duplicating = TRUE
  LocalFaults = TRUE
  Patient = FALSE
CHECK_DEADLOCK FALSE
SPECIFICATION PoolFairSpec
INVARIANTS
  PoolTypeOK
  BarrierHolds
  SingleOwner
  RoundsAfterImport
  ReadsExportedRegion
  GoneOwnerStops
PROPERTIES
  EveryNodeEnds
