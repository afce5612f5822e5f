SPECIFICATION Spec
CONSTANTS
  PhysDevs = {p1, p2, p3}
  MaxLen = 3
  MaxCap = 4
  Blank = Blank
  None = None
INVARIANTS
  SlicesAreValid
CHECK_DEADLOCK FALSE
