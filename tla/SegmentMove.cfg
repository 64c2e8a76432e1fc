SPECIFICATION MoveSpec
CONSTANTS
  Devices = {host, other}
  DevLen = 7
  Contents <- MCContents
  Original <- MCOriginal
  Starts = {0, 1, 2, 4}
  Lens = {1, 3, 4}
INVARIANTS MoveTypeOK AllMoved NothingLost
PROPERTIES Ends
CHECK_DEADLOCK FALSE
