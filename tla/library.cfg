CONSTANTS
  List = {AGED, SCAN, FRESH}
  Item = {c1, c2, c3, c4}
  Datum <- MCDatum
  DataLists <- MCLists
  Register = {1, 2}
  MaxCells = 6
  Char = {x, y}
  StrSize = 3
  MaxAtoms = 6
  BufSize = 4
  TextLimit = 2
  DepthLimit = 2
  LengthLimit = 2
  Key <- MCKey
  MaxText = 5
  Size = 4
  Byte = {"x", "y"}
  Strings <- MCStrings
  Lengths = {0, 1, 2, 3, 4}
  Count = 2
  Naps = 4
  Second = {0, 1}
SPECIFICATION LibrarySpec
CHECK_DEADLOCK FALSE
INVARIANTS
  LinksInverse gc_sanity_check
  MapsAsNamed OtherMaps
  Interned SpelledAtom AtomStrNames
  RoundTrip HoldsAccepted
  LinesWhole
PROPERTIES
  ImplementsDeques OperationsAsNamed AtomsStay Stands ContentsKept
