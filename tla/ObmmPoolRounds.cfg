CONSTANTS
  NodeCount = 3
  Lossy = TRUE
  Duplicating = FALSE
  LocalFaults = FALSE
  Patient = FALSE
CHECK_DEADLOCK FALSE
SPECIFICATION FairRoundsSpec
PROPERTIES
  EveryNodeEnds
