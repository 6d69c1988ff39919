CONSTANTS
  Cell = {c1, c2, c3}
  NIL = NIL
  BlockSize = 1
  Overwrite = FALSE
  Delayed = FALSE
  MaxPasses = 1
  MaxPending = 1
  MaxTimers = 0
  MaxGlobals = 0
SPECIFICATION Spec
SYMMETRY Symmetry
INVARIANTS LiveCellsKept SizesExact
PROPERTY FullCollectionExact
