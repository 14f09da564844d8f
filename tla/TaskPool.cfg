SPECIFICATION OrderSpec
CONSTANTS
  Workers = {w1, w2}
  MaxTasks = 3
  MaxList = 2
  MaxLost = 3
  Nesting = TRUE
INVARIANTS
  TypeOK
  NoUseAfterFree
  NoLeak
  NoLostWakeup
  RecvNeverDisconnected
  ResultsAreGenuine
  WinnerNotListedAfterDone
PROPERTIES
  FuturesSpec
CHECK_DEADLOCK FALSE
