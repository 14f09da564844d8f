SPECIFICATION FairSpec
CONSTANTS
  Workers = {w1}
  MaxTasks = 3
  MaxList = 2
  MaxLost = 1
  Nesting = FALSE
INVARIANTS
  AwaitedHasStarted
PROPERTIES
  WorkEnds
