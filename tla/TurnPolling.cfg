SPECIFICATION FairSpec
CONSTANTS
  MaxChunks = 2
  MaxExtras = 1
  MaxInFlight = 2
  MaxReads = 1
  MaxDrains = 1
CHECK_DEADLOCK FALSE
INVARIANTS
  EndHasReason
  NothingSkipped
PROPERTIES
  EventEndIsExact
  CompletedIsShown
  EndIsSeen
