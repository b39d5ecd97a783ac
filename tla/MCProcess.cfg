SPECIFICATION ProcessSpec
CONSTANTS
  Pid = {p1, p2, p3}
  NoPid = NoPid
  Daemon = TRUE
  Http = TRUE
  MaxCommands = 3
  Worker = {w1, w2}
  MaxTimers = 4
  MaxSock = 2
  MaxQuery = 6
  MaxFail = 6
  None = None
  Chars = {"1", "2", "=", "#", "SP", "CR", "LF"}
  Digits = {"1", "2"}
  Files <- MCFiles
  BufLen = 9
  MaxType = 3
  Key <- MCKey
  Known <- MCKnown
INVARIANTS
  PidFileNamesServer
  QueriesSafe
  ConfigIsFile
PROPERTIES
  StopEndsServer
  NothingHangs
  ListIsStill
CHECK_DEADLOCK FALSE
