SPECIFICATION HostCallsSpec
CONSTANTS
  Ui = ui
  Workers = {w1}
  Approvals = {a1}
  Unsupported = {d1}
  Capacity = 1
  MaxConns = 1
  MaxNotes = 0
  MaxDecisions = 1
  None = None
  MaxStarts = 2
INVARIANTS
  OneServer
  NeverDisowned
PROPERTIES
  CallsReturnUnlessWedged
  StartReturns
CHECK_DEADLOCK FALSE
