\* Deadlock: once the turns and the items are used up, nothing is left to do.
SPECIFICATION FairSpec
CONSTANTS
  Inputs = {u1}
  Notes = {n1}
  Mails = {m1}
  Triggers = {m1}
  MaxTurns = 2
  MaxRounds = 1
  Recovers = TRUE
INVARIANTS
  OneWorker
  AskKept
PROPERTIES
  ItemsKept
  EveryTurnEndsUnlessCutOff
CHECK_DEADLOCK FALSE
