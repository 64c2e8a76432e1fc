SPECIFICATION Spec
CONSTANTS
  Callers = {"shrink", "tune", "copy"}
  HostSize <- MCHostSize
  TargetSize = 9
  Meta <- MCMeta
  Tree <- MCTree
  Top = "root"
  Hole = "hole"
  Lengths <- MCLengths
  MinJournal = 2
  MaxJournal = 4
INVARIANTS Inv OldTreeKept PlacedIsWhole CopyIsWhole
PROPERTIES Ends
CHECK_DEADLOCK FALSE
