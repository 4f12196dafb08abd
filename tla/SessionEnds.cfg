\* One turn, which nobody interrupts or steers unless TLC wants it to.
SPECIFICATION FairSpec
CONSTANTS
  Inputs = {u1}
  Notes = {n1}
  Mails = {}
  Triggers = {}
  MaxTurns = 1
  MaxRounds = 1
  Recovers = TRUE
PROPERTIES
  EveryTurnEnds
CHECK_DEADLOCK FALSE
