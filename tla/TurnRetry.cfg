SPECIFICATION Spec
CONSTANTS
  MaxChunks = 1
  MaxExtras = 1
  MaxInFlight = 2
  MaxReads = 0
  MaxDrains = 1
CHECK_DEADLOCK FALSE
INVARIANTS
  RetryDoesNotEnd
