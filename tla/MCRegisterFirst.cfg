CONSTANTS
  Addresses <- MCAddresses
  Normalized <- MCNormalized
  Malformed = {"@"}
  Rosters <- MCRosters
  MaxAttempts = 2
  MaxQueue = 1
  MaxReplies = 1
  MaxFaults = 2
  MaxErasures = 1
  MaxCrashes = 1
SPECIFICATION Spec
CHECK_DEADLOCK FALSE
INVARIANTS TypeOK OneIdPerMailbox RightId ErasedForGood
PROPERTIES EveryDriverResolves HeldOnRecord ErasureSettles
