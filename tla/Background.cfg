\* Deadlock: once turns, connections, claims and clears are used up, nothing is left to do.
SPECIFICATION BackgroundSpec
CONSTANTS
  MaxConns = 3
  MaxSaves = 1
  MaxTurns = 2
  Threads = {t1, t2}
  Workers = {w1, w2}
  None = None
  MaxRunning = 1
  Retries = 1
  MaxClock = 2
  MaxTokens = 3
  MaxClears = 1
SYMMETRY Symmetry
INVARIANTS
  ClosingEnds
  FreshConfig
  AcceptedAlive
  Heard
  RunningCapped
  SuccessCoversInput
  ConsolidationNotLost
  PollutedIsForgotten
  ClearIsFinal
CHECK_DEADLOCK FALSE
