SPECIFICATION Spec
CONSTANTS
  ByteBits = 2
  WordBytes = 1
  BlockBytes = 2
  Start = 1
  Lengths = {3, 5, 6, 9}
  MaxUsed = 8
INVARIANTS Inv FindFreeExact CleanIsStored BeyondEndTaken
