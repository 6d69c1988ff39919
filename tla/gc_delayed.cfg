CONSTANTS
  Cell = {c1, c2}
  NIL = NIL
  BlockSize = 1
  Overwrite = FALSE
  Delayed = TRUE
  MaxPasses = 1
  MaxPending = 1
  MaxTimers = 1
  MaxGlobals = 0
SPECIFICATION Spec
INVARIANT LiveCellsKept
