SPECIFICATION Spec
CONSTANTS
  Count = 4
  Sizes = {1, 3}
  Limit = 2
INVARIANTS
  TypeOK
  EveryFileOnce
  FailureIsReported
  ChunksAreShort
  StopsAfterError
PROPERTIES
  Exits
CHECK_DEADLOCK FALSE
