SPECIFICATION FairSpec
CONSTANTS
  a = a
  b = b
  Messages = {a, b}
  None = None
  Height <- Heights
  MaxHistory = 2
  MaxCalls = 4
  MaxRows = 10
CHECK_DEADLOCK FALSE
INVARIANTS LogLinesStay ScreenIsLogAndLiveBlock
PROPERTIES LoopEnds
