SPECIFICATION FairSpec
CONSTANTS
  NumTables = 2
  Full = 3
  MinIncrement = 1
  MaxIncrement = 2
  MinRows = 1
  MaxRows = 1
  TotalRows = 7
  LogLimit = 3
  MaxChanges = 2
  MaxKeys = 3
INVARIANTS PausedIsLogged DemoTables
PROPERTIES CatchesUp DemoEnds QuitEnds
CHECK_DEADLOCK FALSE
