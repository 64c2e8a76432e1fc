SPECIFICATION Spec
CONSTANTS
  Callers = {"tune"}
  HostSize <- MCHostSize
  TargetSize = 9
  Meta <- MCMeta
  Tree <- MCTree
  Top = "root"
  Hole = "hole"
  Lengths <- MCLengths
  MinJournal = 2
  MaxJournal = 4
INVARIANTS ConsistentIsWhole
CHECK_DEADLOCK FALSE
