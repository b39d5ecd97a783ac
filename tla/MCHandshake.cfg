SPECIFICATION Spec
CONSTANTS
  Node = {1, 2, 3}
  Dials <- Chain
  MaxLink = 4
  MaxAsk = 1
  MaxCut = 2
  None = None
INVARIANTS
  LinksAreTrue
PROPERTIES
  EventuallyAble
CHECK_DEADLOCK FALSE
