SPECIFICATION FairSpec
CONSTANTS
  Rows = {1, 2, 3}
  Valid = {1, 3}
  Batch = 2
  Interval = 1
  MaxBackoff = 3
  MaxFaults = 3
INVARIANTS
  TypeOK
  SentOnlyAfterAck
  QuarantineExact
  CopiesNeedFaults
  OldestFirst
PROPERTIES
  EveryRowSettles
  ImplementsAtLeastOnce
CHECK_DEADLOCK TRUE
