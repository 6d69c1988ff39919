CONSTANTS
  Count = 5
  Naps = 4
  Second = {0, 1}
SPECIFICATION SampleSpec
CHECK_DEADLOCK FALSE
PROPERTIES SampleEnds
