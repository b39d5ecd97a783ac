SPECIFICATION PoolsSpec
CONSTANTS
  MaxThreads = 3
  MinThreads = 2
  MaxJob = 4
  MostThreads = 4
  LeastThreads = 1
  Gradient = 1
  Word = 1096
  Samples = {0, 50}
  High = 250
  Low = 200
INVARIANTS
  EachJobOnceInOrder
  NoSleepOnJob
  ParkedHaveNoJob
  ChosenAreAwake
  AwakeFirst
PROPERTIES
  EventuallyHandled
  NoLostWakeUp
CHECK_DEADLOCK FALSE
