---------------------------- MODULE MCBoardPush -----------------------------
EXTENDS BoardPush

Ev(type, sid, racer, ms, at) ==
  [type |-> type, sid |-> sid, racer |-> racer, ms |-> ms, at |-> at]

MCFeeds ==
  {<<Ev("session.started", 1, "ann", 0, 0), Ev("lap.recorded", 1, "ann", 2, 2),
     Ev("session.ended", 1, "ann", 0, 2)>>,
   <<Ev("lap.recorded", 1, "ann", 2, 2), Ev("lap.recorded", 2, "bob", 1, 3),
     Ev("lap.recorded", 1, "ann", 2, 4)>>}
=============================================================================
