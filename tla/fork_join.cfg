CONSTANTS
  Clients = 3
  MaxDelay = 2
SPECIFICATION Spec
INVARIANTS  JoinInv
PROPERTY ImplementsPairing
