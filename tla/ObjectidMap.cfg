SPECIFICATION Spec
CONSTANTS
  MaxId = 8
  MaxSize = 6
INVARIANTS TypeOK Increasing NoIdLost
PROPERTIES ReservesIds
