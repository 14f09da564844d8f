SPECIFICATION Spec
CONSTANTS
  x = x
  y = y
  Unit = Unit
  Null = Null
  Tomb = Tomb
  Keys <- MCKeys
  Vals <- MCVals
  HashFns <- MCHashFns
  Hashes <- MCHashes
  MinCap = 4
  Levels = 3
INVARIANTS
  StructureIsSound
  InterpreterAgrees
PROPERTY
  OperationsAreRight
CHECK_DEADLOCK FALSE
