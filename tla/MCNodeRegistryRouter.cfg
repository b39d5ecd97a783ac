SPECIFICATION FairSpec
CONSTANTS
  p1 = p1
  p2 = p2
  None = None
  Router = Router
  Peer <- OnePeer
  MaxRetry = 2
  MaxConn = 3
PROPERTIES
  RouterIsRegisteredAgain
