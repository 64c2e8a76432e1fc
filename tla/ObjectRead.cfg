SPECIFICATION Spec
CONSTANTS
  Wrap = 8
  BlockSize = 3
  MaxDirect = 2
  PointerSize = 2
  StatWords = 2
  Objects <- MCObjects
  Object = 2
  Wants = {1, 7}
  Places = {1, 4, 7}
INVARIANTS Inv ReadRight
PROPERTIES ReadEnds
CHECK_DEADLOCK FALSE
