SPECIFICATION FairSpec
CONSTANTS
  p1 = p1
  p2 = p2
  None = None
  Router = Router
  Peer <- TwoPeers
  MaxRetry = 3
  MaxConn = 4
INVARIANTS
  NodeFollowsConn
  CallbackAlive
  ConnsOwned
PROPERTIES
  GivenUpOnlyAfterRetries
  ToldOfFailures
  FailedIsDealtWith
