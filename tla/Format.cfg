SPECIFICATION Spec
CONSTANTS
  Default = 2
  BitsPerUnit = 64
  MinTree = 1
  JournalMin = 2
  Before <- MCBefore
  Stat <- MCStat
  Requests <- MCRequests
  Misread <- MCMisread
INVARIANTS Inv FreeRight FoundAgain
PROPERTY SuperIsLast
