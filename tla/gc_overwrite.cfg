CONSTANTS
  Cell = {c1, c2, c3}
  NIL = NIL
  BlockSize = 3
  Overwrite = TRUE
  Delayed = FALSE
  MaxPasses = 1
  MaxPending = 1
  MaxTimers = 0
  MaxGlobals = 0
SPECIFICATION Spec
SYMMETRY Symmetry
INVARIANT LiveCellsKept
