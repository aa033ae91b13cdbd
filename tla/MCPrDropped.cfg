SPECIFICATION InterruptedSpec
CONSTANTS
  Times = {1, 2}
  MaxLaps = 2
  MaxRetries = 0
INVARIANTS
  BreakReachesDriver
CHECK_DEADLOCK FALSE
