SPECIFICATION Spec
CONSTANTS
  Procs = {p1, p2}
  Missing = Missing
  MaxSyncs = 3
  MaxCleans = 1
  MaxKills = 2
INVARIANTS
  SlotIsTheRev
  OutcomesAreRight
PROPERTIES
  SlotAtRestIsKept
  SyncEnds
CHECK_DEADLOCK FALSE
