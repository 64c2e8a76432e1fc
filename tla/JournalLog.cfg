SPECIFICATION Spec
CONSTANTS
  JLen = 8
  JStart = 2
  Writes <- MCWrites
  MaxId = 5
INVARIANTS Inv FirstLapRead
CHECK_DEADLOCK FALSE
