----------------------------- MODULE SimSession -----------------------------
(***************************************************************************)
(* What Timing's simulator makes of a stream of start-finish crossings     *)
(* (services/timing/internal/simulator, internal/domain): the lap rule of  *)
(* one driver's tracker, the scanner outage that drops a run of crossings, *)
(* the register-first gate that holds a stray token's scan, and the events *)
(* of a whole session, normal or reconciled.  All of it is pure: module    *)
(* TimingRun emits what is generated here.                                 *)
(*                                                                         *)
(* A driver is the index of its descriptor, and stands for its master id   *)
(* too; a stray token is a number past the last driver.  Times are         *)
(* milliseconds on the virtual clock of the session.                       *)
(***************************************************************************)
EXTENDS Integers, Sequences, FiniteSets

CONSTANTS NDrivers, Transponders, SessionLaps, MinLapTimeMs,
          UnknownTokenScans, ScannerOutageLaps, OutOfSessionLaps,
          Offsets,   \* what Rng.Intn(1000) may draw for an out-lap
          LapDraws   \* what drawLapMs may draw

Drivers == 1..NDrivers
Strays == (NDrivers + 1)..(NDrivers + UnknownTokenScans)

(* The knobs config.Load lets through when the simulator is on; the mean   *)
(* lap it compares MIN_LAP_TIME_MS with is one of the draws.               *)
loadSimulator ==
  /\ NDrivers \in Nat \ {0}
  /\ SessionLaps \in Nat \ {0}
  /\ MinLapTimeMs \in Nat \ {0}
  /\ \E mean \in LapDraws : MinLapTimeMs < mean
  /\ Transponders \in 0..NDrivers
  /\ UnknownTokenScans \in Nat
  /\ ScannerOutageLaps \in 0..(SessionLaps - 1)
  /\ OutOfSessionLaps \in Nat

ASSUME KnobsOK == loadSimulator

(* drawLapMs clamps to one millisecond.                                    *)
ASSUME DrawsOK == LapDraws \subseteq Nat \ {0} /\ Offsets \subseteq Nat

(***************************************************************************)
(* The lap tracker of one driver.                                          *)
(***************************************************************************)
NoPrev == -1
NewTracker == [prev |-> NoPrev, laps |-> 0]

Reset(tr) == [tr EXCEPT !.prev = NoPrev]

(* The mutant rejects a lap of exactly the minimum.                        *)
OutcomeAtMin(tr, t) ==
  IF tr.prev = NoPrev THEN "StartMarker"
  ELSE IF t - tr.prev <= MinLapTimeMs THEN "Rejected" ELSE "Counted"

Outcome(tr, t) ==
  IF tr.prev = NoPrev THEN "StartMarker"
  ELSE IF t - tr.prev < MinLapTimeMs THEN "Rejected" ELSE "Counted"

Cross(tr, t) ==
  CASE Outcome(tr, t) = "StartMarker" -> [tr EXCEPT !.prev = t]
    [] Outcome(tr, t) = "Rejected"    -> tr
    [] Outcome(tr, t) = "Counted"     -> [prev |-> t, laps |-> tr.laps + 1]

(***************************************************************************)
(* Events.  Every event of a session carries the session's number here:    *)
(* its sessionId, or the correlation id the simulator mints per session.   *)
(***************************************************************************)
Started(s, t) == [kind |-> "session.started", sid |-> s, at |-> t]
CheckedIn(s, d, t) ==
  [kind |-> "driver.checked_in", sid |-> s, at |-> t, who |-> d,
   transponder |-> d <= Transponders]
LapRecorded(s, d, n, ms, t) ==
  [kind |-> "lap.recorded", sid |-> s, at |-> t, who |-> d, n |-> n, ms |-> ms]
Offline(s, gapFrom, since) ==
  [kind |-> "scanner.offline", sid |-> s, at |-> since, gapFrom |-> gapFrom]
Online(s, t) == [kind |-> "scanner.online", sid |-> s, at |-> t]
Ended(s, t, summary) ==
  [kind |-> "session.ended", sid |-> s, at |-> t, summary |-> summary]
Broken(s, d, ms, prev, t) ==
  [kind |-> "personal_record.broken", sid |-> s, at |-> t, who |-> d,
   ms |-> ms, previousMs |-> prev]

NoLap == 0
NoRow == [best |-> NoLap, count |-> 0]
(* The mutant summarises the latest lap as the best.                       *)
AddLapLatest(row, ms) == [best |-> ms, count |-> row.count + 1]

AddLap(row, ms) ==
  [best |-> IF row.count = 0 \/ ms < row.best THEN ms ELSE row.best,
   count |-> row.count + 1]

(***************************************************************************)
(* The crossings of a session, in time order.                              *)
(***************************************************************************)
CrossingTimes(offset, draw) ==
  LET at[j \in 0..SessionLaps] ==
        IF j = 0 THEN offset ELSE at[j - 1] + draw[j]
  IN  at

(* times[d][j]: the offset of driver d's crossing j; 0 is the out-lap.     *)
Runs == {CrossingTimes(o, draw) : o \in Offsets,
                                  draw \in [1..SessionLaps -> LapDraws]}

LastOffset(times) ==
  LET last == {times[d][SessionLaps] : d \in Drivers}
  IN  CHOOSE m \in last : \A t \in last : t <= m

(* rand.Intn(maxOffsetMs), guarded against an argument of zero.            *)
StrayOffsets(times) ==
  IF LastOffset(times) > 0 THEN 0..(LastOffset(times) - 1) ELSE {0}

(* Appended driver by driver, the strays last, then sorted by time with a  *)
(* stable sort: the next crossing is the earliest of those not yet taken.  *)
Scans(base, times, stray) ==
  {[who |-> d, lap |-> j, at |-> base + times[d][j]] : d \in Drivers, j \in 0..SessionLaps}
    \cup {[who |-> d, lap |-> 0, at |-> base + stray[d]] : d \in Strays}

Before(a, b) ==
  \/ a.at < b.at
  \/ a.at = b.at /\ (a.who < b.who \/ (a.who = b.who /\ a.lap < b.lap))

Earliest(S) == CHOOSE c \in S : \A b \in S : ~ Before(b, c)

InOrder(all) ==
  LET seq[i \in 0..Cardinality(all)] ==
        IF i = 0 THEN <<>>
        ELSE LET done == seq[i - 1]
             IN  Append(done, Earliest(all \ {done[j] : j \in DOMAIN done}))
  IN  seq[Cardinality(all)]

Crossings(base, times, stray) == InOrder(Scans(base, times, stray))

(***************************************************************************)
(* The outage window, as indices of the crossing sequence: the first       *)
(* missed crossing and the first one on recovery.                          *)
(***************************************************************************)
OutageStart(n) == IF n \div 3 < 1 THEN 2 ELSE n \div 3 + 1
OutageEnd(n) ==
  IF OutageStart(n) + ScannerOutageLaps > n THEN n
  ELSE OutageStart(n) + ScannerOutageLaps
OutageActive(n) ==
  ScannerOutageLaps > 0 /\ n > 2 /\ OutageEnd(n) > OutageStart(n)
Missed(n, i) == OutageActive(n) /\ OutageStart(n) <= i /\ i < OutageEnd(n)

(***************************************************************************)
(* GenerateSession: one turn of its loop over the crossings, and the fold. *)
(***************************************************************************)
Begin(s, base) ==
  [out   |-> <<Started(s, base)>>
               \o [d \in Drivers |-> CheckedIn(s, d, base)],
   held  |-> <<>>,
   track |-> [d \in Drivers |-> NewTracker],
   reset |-> {},
   sum   |-> [d \in Drivers |-> NoRow],
   last  |-> base]

Miss(a, s, cs, i) ==
  [a EXCEPT !.out = IF i = OutageStart(Len(cs))
                    THEN Append(@, Offline(s, cs[i - 1].at, cs[i].at)) ELSE @,
            !.reset = @ \cup {cs[i].who}]

Recover(a, s, cs, i) ==
  IF OutageActive(Len(cs)) /\ i = OutageEnd(Len(cs))
  THEN [a EXCEPT !.out = Append(@, Online(s, cs[i].at))] ELSE a

Hold(a, s, c) == [a EXCEPT !.held = Append(@, [token |-> c.who, sid |-> s])]

(* The mutant goes on with the clock from before the gap.                  *)
RebaseNever(a, d) == a

(* A driver whose crossing was missed starts a new out-lap.                *)
Rebase(a, d) ==
  IF d \in a.reset
  THEN [a EXCEPT !.track[d] = Reset(@), !.reset = @ \ {d}] ELSE a

TakeCrossing(a, s, c) ==
  LET d == c.who
      tr == a.track[d]
      ms == c.at - tr.prev
      b == [a EXCEPT !.track[d] = Cross(@, c.at)]
  IN  IF Outcome(tr, c.at) # "Counted" THEN b
      ELSE [b EXCEPT !.out = Append(@, LapRecorded(s, d, tr.laps + 1, ms, c.at)),
                     !.sum[d] = AddLap(@, ms),
                     !.last = c.at]

Turn(a, s, cs, i) ==
  IF Missed(Len(cs), i) THEN Miss(a, s, cs, i)
  ELSE LET b == Recover(a, s, cs, i)
       IN  IF cs[i].who \notin Drivers THEN Hold(b, s, cs[i])
           ELSE TakeCrossing(Rebase(b, cs[i].who), s, cs[i])

SessionFold(s, base, cs) ==
  LET acc[i \in 0..Len(cs)] ==
        IF i = 0 THEN Begin(s, base) ELSE Turn(acc[i - 1], s, cs, i)
  IN  acc

GenerateSession(s, base, cs) ==
  LET end == SessionFold(s, base, cs)[Len(cs)]
      rows == {d \in Drivers : end.sum[d].count > 0}
  IN  [events |-> Append(end.out, Ended(s, end.last, [d \in rows |-> end.sum[d]])),
       held   |-> end.held]

(***************************************************************************)
(* GenerateReconciledSession: one out-lap and OutOfSessionLaps crossings   *)
(* of the first driver; nothing when not one of them counted.              *)
(***************************************************************************)
ReconTimes(base, draw) ==
  LET at[j \in 0..OutOfSessionLaps] ==
        IF j = 0 THEN base ELSE at[j - 1] + draw[j]
  IN  at

ReconTurn(a, s, t) ==
  LET b == [a EXCEPT !.track = Cross(@, t)]
      ms == t - a.track.prev
  IN  IF Outcome(a.track, t) # "Counted" THEN b
      ELSE [b EXCEPT !.laps = Append(@, LapRecorded(s, 1, b.track.laps, ms, t)),
                     !.sum = AddLap(@, ms),
                     !.last = t]

ReconFold(s, base, at) ==
  LET acc[j \in 0..(OutOfSessionLaps + 1)] ==
        IF j = 0
        THEN [track |-> NewTracker, laps |-> <<>>, sum |-> NoRow, last |-> base]
        ELSE ReconTurn(acc[j - 1], s, at[j - 1])
  IN  acc

GenerateReconciledSession(s, base, draw) ==
  LET end == ReconFold(s, base, ReconTimes(base, draw))[OutOfSessionLaps + 1]
  IN  IF OutOfSessionLaps = 0 \/ end.sum.count = 0 THEN <<>>
      ELSE <<Started(s, base)>> \o end.laps
             \o <<Ended(s, end.last, [d \in {1} |-> end.sum])>>
=============================================================================
