SPECIFICATION LossySpec
CONSTANTS
  Handled = {lap}
  Ignored = {}
  Poison = {}
  MaxAttempts = 2
  MaxFaults = 1
  None = None
PROPERTIES
  Resubscribes
CHECK_DEADLOCK FALSE
