SPECIFICATION Spec
CONSTANTS
  Times = {1, 2, 3}
  MaxLaps = 4
  MaxRetries = 1
INVARIANTS
  BreakReachesDriver
  NoRecordMissed
  ConvergesInOrder
PROPERTIES
  EventuallyConfirmed
CHECK_DEADLOCK FALSE
