SPECIFICATION Spec
CONSTANTS
  MaxRounds = 4
  Sources <- MCSources
  Engines = {"native", "interpreted"}
INVARIANTS
  RunsAsWritten
  AcceptedAwaitsOnce
  ReportsAreTrue
