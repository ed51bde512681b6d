CONSTANTS
  sq_depth = 3
  rq_depth = 2
  cq_depth = 3
  Addrs = {"UPI", "TH_EN", "EU_TBA_L", "MATT_BA0", "NUM_PORTS"}
  Values = {1, 2}
  UpiSize = 2
  MaxReqs = 3
  MaxFails = 2
  MaxRsts = 1
SPECIFICATION MsgqSpec
INVARIANTS
  MsgqTypeOK
  AnswersAreRight
PROPERTIES
  RequestsAnswered
CHECK_DEADLOCK FALSE
