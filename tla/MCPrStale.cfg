SPECIFICATION Spec
CONSTANTS
  Times = {1, 2}
  MaxLaps = 2
  MaxRetries = 1
INVARIANTS
  LatestConfirmedWins
CHECK_DEADLOCK FALSE
