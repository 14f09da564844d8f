CONSTANTS
  Types    <- MCTypes
  Scalars  <- MCScalars
  MaxArms  <- MCMaxArms
  Programs <- MCPrograms
  Width    = 3
  Depth    = 4
SPECIFICATION SpecBoth
INVARIANTS
  FirstMatchRuns
  VerdictIsRight
  ComparisonsAreRight
CHECK_DEADLOCK FALSE
