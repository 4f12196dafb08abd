SPECIFICATION Spec
CONSTANTS
  Ui = ui
  Workers = {w1}
  Approvals = {a1}
  Unsupported = {}
  Capacity = 1
  MaxConns = 1
  MaxNotes = 1
  MaxDecisions = 1
  None = None
SYMMETRY Symmetry
INVARIANTS
  InterruptHeard
CHECK_DEADLOCK FALSE
