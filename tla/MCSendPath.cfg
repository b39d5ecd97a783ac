SPECIFICATION Spec
CONSTANTS
  w1 = w1
  w2 = w2
  n1 = n1
  p1 = p1
  db = db
  None = None
  Worker <- TwoWorkers
  Node <- MCNode
  Peer <- MCPeer
  Sid <- MCSid
  SidOf <- MCSidOf
  MaxConn = 3
  MaxFd = 2
  MaxSend = 1
SYMMETRY WorkerSymmetry
INVARIANTS
  Safety
  OneConnectionPerNode
  StrandedOnlyIfLate
  HalfSentStaysArmed
PROPERTIES
  NoRevival
  StreamsRefined
CHECK_DEADLOCK FALSE
