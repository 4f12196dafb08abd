SPECIFICATION Spec
CONSTANTS
  Ui = ui
  Workers = {w1}
  Approvals = {a1, a2}
  Unsupported = {}
  Capacity = 1
  MaxConns = 2
  MaxNotes = 1
  MaxDecisions = 1
  None = None
SYMMETRY Symmetry
INVARIANTS
  OnlyHolderInside
  ClientNeverLost
PROPERTIES
  DeskRefined
  SlotClearedByAnswer
CHECK_DEADLOCK FALSE
