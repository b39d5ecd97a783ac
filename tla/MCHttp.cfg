SPECIFICATION HttpSpec
CONSTANTS
  MaxLen = 30
  MaxHeader = 1000
  Answers = {0, 1}
  Beginnings <- AllBeginnings
  MaxMore = 5
  Alphabet = {"content-length", "upgrade", "2", ":", ",", "SP", "CR", "LF"}
  UrlChars = {"a", "9", "/", "?", "#", "@", ":", "[", "]", "%"}
  MaxUrl = 5
  MaxPort = 99
INVARIANTS
  CutsMakeNoDifference
  UrlIsItsFields
CHECK_DEADLOCK FALSE
