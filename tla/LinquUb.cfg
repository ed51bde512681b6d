CONSTANTS
  Guests = {e1}
  default_cq = e1
  endpoint1 = e1
  Keys = {k1}
  Ops = {"DbGet"}
  CmdDepth = 2
  RuntimeDepth = 1
  ServiceDepth <- MCServiceDepth
  MaxRetries = 1
  MaxCmds = 4
  cmdq_depth = 3
  cq_depth = 2
  MaxResets = 1
SPECIFICATION DevSpec
INVARIANTS
  DevTypeOK
  HandedOverOnce
  ReadsOwnInOrder
  SignalIntact
PROPERTIES
  EverythingArrives
CHECK_DEADLOCK FALSE
