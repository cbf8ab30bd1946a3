SPECIFICATION Spec
CONSTANTS
  Base = 4
  Width = 2
  MinCap = 2
  InitCaps = {0, 3}
  Values <- MCValues
  MaxPuts = 2
  MaxLen = 6
  MaxRaw = 2
INVARIANTS
  TypeOK
  ReadsBack
PROPERTIES
  PutsOnlyAppend
CHECK_DEADLOCK FALSE
