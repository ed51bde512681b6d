CONSTANTS
  Exporter = nodeA
  Importer = nodeB
  ObmmFaults = TRUE
CHECK_DEADLOCK FALSE
SPECIFICATION ObmmFairSpec
INVARIANTS
  RegionIsPassedOn
PROPERTIES
  ObmmPassUnlessDisturbed
