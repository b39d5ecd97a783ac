SPECIFICATION FairSpec
CONSTANTS
  HeadLen = 4
  BufLen = 8
  Tag1 <- T1
  Tag2 <- T2
  Body <- AnyBody
  Junk <- SomeJunk
  MaxFrame = 4
INVARIANTS
  PacketsIntact
  JunkIsPassedOver
PROPERTIES
  OneBehind
CHECK_DEADLOCK FALSE
