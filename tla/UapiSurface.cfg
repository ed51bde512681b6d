CONSTANTS
  Guests = {g1, g2}
  default_cq = g1
  Keys = {k1}
  Ops = {"WriteBlock", "DfsWrite", "DfsRead", "BadIo"}
  CmdDepth = 2
  RuntimeDepth = 2
  ServiceDepth <- MCServiceDepth
  MaxRetries = 1
  MaxCmds = 3
SPECIFICATION Spec
INVARIANTS
  TypeOK
  EachInOnePlace
  ReadsOwnWrites
PROPERTIES
  RetryCoversTwiceDepth
  EventuallyAnswered
