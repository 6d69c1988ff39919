CONSTANTS
  Times = {0, 1}
  Numeral <- MCNumeral
  Illegal = {"["}
  Inputs <- ApplyInputs
  q_limit = 1000
SPECIFICATION Spec
INVARIANTS
  TargetsAreActors
