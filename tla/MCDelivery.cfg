SPECIFICATION FairSpec
CONSTANTS
  Handled = {lap}
  Ignored = {other}
  Poison = {garbled}
  MaxAttempts = 2
  MaxFaults = 1
  None = None
INVARIANTS
  TypeOK
  EffectOnce
  NoFaultNoDuplicate
  NeverLost
  ParkedForCause
PROPERTIES
  EventuallyDrained
  ImplementsEffectivelyOnce
CHECK_DEADLOCK FALSE
