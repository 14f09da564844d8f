SPECIFICATION FairSpec
CONSTANTS
  Docs = {d1, d2}
  Slots = {h1, h2}
  MaxEdits = 2
  MaxDisk = 1
INVARIANTS
  EntriesHoldTogether
  SerialHandlingConverges
PROPERTIES
  EditsAreAnswered
CHECK_DEADLOCK FALSE
