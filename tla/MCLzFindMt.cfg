SPECIFICATION Spec
CONSTANTS
  HistorySize = 4
  Word = 72
  MoveAlign = 2
  BlockReserve = 2
  HashBlockSize = 4
  NumHashBlocks = 2
  BtBlockSize = 21
  NumBtBlocks = 2
  Cases <- MCCases
  AddBefore = 1
  AddAfter = 1
  SkipNums = {3}
  RestartAt = {5, 40}
  MaxSessions = 2
INVARIANTS MatchesReal LongestFound AvailRight BlocksKept
PROPERTY CallsReturn
CHECK_DEADLOCK FALSE
