SPECIFICATION Spec
CONSTANTS
  CommandLines <- MCCommandLines
  Devices <- MCDevices
  Special <- MCSpecial
  Blocks <- MCBlocks
  Before <- MCBefore
  Recommended = "3.6"
  HostStart = 2
  MaxHostLen = 8
  JournalMin = 2
  DefaultLen = 5
  MinSize = 6
INVARIANTS Inv RefusedLeavesAlone SuccessIsWhole JournalWhereAsked
PROPERTY Ends
CHECK_DEADLOCK FALSE
