CONSTANTS
  Suites    <- MCSuites
  Jobs      = 2
  PipeSize  = 1
  MaxFiles  = 3
  MaxFaults = 1
  None      = None
SPECIFICATION Spec
INVARIANTS
  TapIsRight
  NothingIsLeft
PROPERTIES
  CommandExits
CHECK_DEADLOCK FALSE
