SPECIFICATION FairSpec
CONSTANTS
  Ui = ui
  Workers = {w1}
  Approvals = {}
  Unsupported = {d1}
  Capacity = 2
  MaxConns = 1
  MaxNotes = 2
  MaxDecisions = 1
  None = None
PROPERTIES
  CallsReturn
CHECK_DEADLOCK FALSE
