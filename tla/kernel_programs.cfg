CONSTANTS
  Times = {0, 1}
  Numeral <- MCNumeral
  Illegal = {"["}
  Inputs <- MCInputs
  q_limit = 1000
SPECIFICATION Spec
INVARIANTS
   OutputAsMeant AnsweredOnce NothingLost CopiesAreDeep WriteIsTrue
PROPERTIES
  EvaluatorSpec ImmutableStay Ends
