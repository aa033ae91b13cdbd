CONSTANTS
  Feeds <- MCFeeds
  Sessions = {1, 2}
  Racers = {"ann", "bob"}
  MaxFaults = 1
  MaxAttempts = 2
  Screens = {"screen"}
  Buffer = 1
  Base = 2
  Cap = 3
  MaxDrops = 1
  MaxCrashes = 1
SPECIFICATION Spec
INVARIANTS BestsExact StatusExact SeqDistinct NewestKept BoardsCatchUp
PROPERTY MovesOnFirstSight
