\* Four chunks: enough for a doubled text that is longer than the answer before all of it has come.
SPECIFICATION FairSpec
CONSTANTS
  MaxChunks = 4
  MaxExtras = 0
  MaxInFlight = 1
  MaxReads = 0
  MaxDrains = 0
CHECK_DEADLOCK FALSE
PROPERTIES
  CompletedIsWhole
