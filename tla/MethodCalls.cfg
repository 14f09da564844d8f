SPECIFICATION Spec
CONSTANTS
  Headers <- MCHeaders
  Methods <- MCMethods
  MaxCalls = 3
INVARIANTS
  CallsAreRight
  BeliefsAreTrue
CHECK_DEADLOCK FALSE
