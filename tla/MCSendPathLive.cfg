SPECIFICATION FairSpec
CONSTANTS
  w1 = w1
  w2 = w2
  n1 = n1
  p1 = p1
  db = db
  None = None
  Worker <- OneWorker
  Node <- MCNode
  Peer <- MCPeer
  Sid <- MCSid
  SidOf <- MCSidOf
  MaxConn = 2
  MaxFd = 2
  MaxSend = 2
PROPERTIES
  Delivery
CHECK_DEADLOCK FALSE
