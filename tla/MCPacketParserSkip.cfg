SPECIFICATION Spec
CONSTANTS
  HeadLen = 4
  BufLen = 8
  Tag1 <- T1
  Tag2 <- T2
  Body <- PlainBody
  Junk <- SomeJunk
  MaxFrame = 2
PROPERTIES
  HeaderIsFound
CHECK_DEADLOCK FALSE
