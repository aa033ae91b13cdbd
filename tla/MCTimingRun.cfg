SPECIFICATION Spec
CONSTANTS
  NDrivers = 2
  Transponders = 1
  SessionLaps = 2
  MinLapTimeMs = 2
  UnknownTokenScans = 1
  ScannerOutageLaps = 1
  OutOfSessionLaps = 1
  Offsets = {1}
  LapDraws = {1, 2, 3}
  SessionSpan = 4
  Confirmed <- MCConfirmed
  MaxSessions = 2
  MaxStops = 1
INVARIANTS
  HonestLaps
  EveryLapCounted
  SummaryAgrees
  HeldBeforeSession
  OutageRecorded
  ReconcileFollows
  RecordsAnnounced
CHECK_DEADLOCK FALSE
