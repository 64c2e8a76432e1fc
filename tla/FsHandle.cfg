SPECIFICATION Spec
CONSTANTS
  Lens = {100, 103, 200}
  ByteBits = 8
  JLens = {10, 20}
  MaxFresh = 4
INVARIANTS Inv ConsistentFits HalfStaysMarked
PROPERTIES MovedWhileMarked
CHECK_DEADLOCK FALSE
