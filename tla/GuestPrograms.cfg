SPECIFICATION Spec
CONSTANTS
  nodeA = nodeA
  nodeB = nodeB
  InitGuests <- TheGuests
  Boots <- TheBoots
  BizCases = 2
  UrmaA = nodeA
  UrmaB = nodeB
  MaxSeq = 2
  BenchPkts = 1
  MaxDone = 1
  MaxLoss = 0
  UrmaFaults = TRUE
  Initiator = nodeA
  Responder = nodeB
  ChatRounds = 2
  RpcClients <- TheClients
  RpcServer = nodeB
  Script <- TheScript
  ExpectedCalls = 2
  MaxSeen = 1
  MaxRetries = 2
  RpcFaults = TRUE
  TcpA = nodeA
  TcpB = nodeB
  MaxAttempts = 2
  TcpFaults = TRUE
  RdmaInitiator = nodeA
  RdmaResponder = nodeB
  UnimportTries = 2
  RdmaFaults = TRUE
  NodeIndex <- TheIndex
  NodeCount = 2
  Lossy = TRUE
  Duplicating = TRUE
  LocalFaults = TRUE
  Patient = FALSE
INVARIANTS
  GuestsTypeOK
  PassIsMeant
  PeersInStep
  LeavesNothingBehind
PROPERTIES
  ImplementsRpcService
  EveryGuestEnds
  UndisturbedPass
CHECK_DEADLOCK FALSE
