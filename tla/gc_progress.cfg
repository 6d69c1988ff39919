CONSTANTS
  Cell = {c1, c2}
  NIL = NIL
  BlockSize = 1
  Overwrite = FALSE
  Delayed = FALSE
  MaxPasses = 1
  MaxPending = 1
  MaxTimers = 1
  MaxGlobals = 1
SPECIFICATION FairSpec
PROPERTIES ImplementsHeap PassEnds GarbageReclaimed
