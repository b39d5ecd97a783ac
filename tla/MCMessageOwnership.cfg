SPECIFICATION MCSpec
CONSTANTS
  w1 = w1
  w2 = w2
  w3 = w3
  Worker <- TwoWorkers
  MaxAddr = 4
  MaxRequest = 2
  MaxOp = 3
  HeadLen = 3
  Wrap = 16
  Bodies = {2, 5}
  Careful = TRUE
SYMMETRY WorkerSymmetry
INVARIANTS
  AnyOneOwner
  NoLeak
  HealthyConnection
  ReceiverInStep
CHECK_DEADLOCK FALSE
