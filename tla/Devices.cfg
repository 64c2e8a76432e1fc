SPECIFICATION DevicesSpec
CONSTANTS
  Handles = {h1, h2}
  Names = {"disk", "image"}
  Target <- MCTarget
  Regular = {"file"}
  Contents <- MCContents
  Sizes = {1, 2, 3}
  Numbers = {0, 1}
  MaxFd = 2
  MaxLength = 2
  MaxWrites = 1
INVARIANTS DevicesInv OwnDescriptor
SYMMETRY Symmetry
