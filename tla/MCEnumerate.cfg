SPECIFICATION Spec
CONSTANTS
  PhysDevs = {p1, p2, p3}
  MaxLen = 2
  MaxCap = 3
  Blank = Blank
  None = None
INVARIANTS
  ArrayIsExact
  ToldIsKnown
  EnumInv
PROPERTIES
  IdiomCompletes
CHECK_DEADLOCK FALSE
