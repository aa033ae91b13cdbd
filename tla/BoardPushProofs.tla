-------------------------- MODULE BoardPushProofs ---------------------------
(***************************************************************************)
(* The read model and its way to the screens, for every feed that Timing   *)
(* can publish, any number of sessions, drivers, screens, failures,        *)
(* restarts and losses of the bus.                                         *)
(***************************************************************************)
EXTENDS BoardPush, SequenceTheorems, TLAPS

Statuses == {"none", "implicit", "active", "finished"}
SessionRows == [epoch : Nat, status : Statuses, started : BOOLEAN, ended : BOOLEAN]
BestRows == [ms : Nat, at : Nat, seq : Nat]

Events ==
  {e \in [type : Types, sid : Sessions, racer : Racers, ms : Nat, at : Nat] :
     e.type = "lap.recorded" => e.ms > 0}

StoreType ==
  /\ feed \in Feeds
  /\ next \in Nat \ {0}
  /\ retrying \subseteq [event : Events, tries : Nat]
  /\ inbox \subseteq Events
  /\ sessions \in [Sessions -> SessionRows]
  /\ best \in [Sessions -> [Racers -> BestRows]]
  /\ seq \in Nat
  /\ overtaken \in BOOLEAN

(* As long as nothing was put off, what is applied is the feed up to the   *)
(* message at the head of the queue.                                       *)
OrderInv ==
  ~overtaken =>
    /\ retrying = {}
    /\ \A e \in inbox : \E i \in DOMAIN feed : i <= next /\ feed[i] = e

KnownInv == \A s \in Sessions : Known(s) <=> sessions[s].status # "none"

(* Some session has the highest epoch, and no two have the same.           *)
EpochInv ==
  /\ \A s \in Sessions : \E t \in Sessions : \A u \in Sessions :
       sessions[u].epoch <= sessions[t].epoch
  /\ \A s, t \in Sessions :
       Known(s) /\ sessions[s].epoch = sessions[t].epoch => s = t

(* No best carries a number the handler has not yet given out, and some    *)
(* best carries the highest.                                               *)
SeqInv ==
  /\ \A s \in Sessions, r \in Racers : best[s][r].seq <= seq
  /\ \A s \in Sessions, r \in Racers : \E t \in Sessions, q \in Racers :
       \A u \in Sessions, p \in Racers : best[u][p].seq <= best[t][q].seq

StoreInv ==
  /\ StoreType /\ OrderInv /\ KnownInv /\ EpochInv /\ SeqInv
  /\ BestsExact /\ StatusExact /\ SeqDistinct

(* Nothing of e's session that is applied so far comes after e.            *)
Reached(e) ==
  ~overtaken =>
    \A f \in inbox : f.sid = e.sid => f.at <= e.at

LEMMA FeedTypes ==
  ASSUME NEW f \in Feeds
  PROVE  /\ f \in Seq([type : Types, sid : Sessions, racer : Racers, ms : Nat, at : Nat])
         /\ \A i \in DOMAIN f : f[i] \in Events
         /\ DOMAIN f = 1..Len(f) /\ Len(f) \in Nat
<1>1. f \in Seq([type : Types, sid : Sessions, racer : Racers, ms : Nat, at : Nat])
  BY FeedOK
<1>2. \A i \in DOMAIN f : f[i].type = "lap.recorded" => f[i].ms > 0
  BY FeedOK
<1>3. DOMAIN f = 1..Len(f) /\ Len(f) \in Nat
  BY <1>1
<1>. DEFINE R == [type : Types, sid : Sessions, racer : Racers, ms : Nat, at : Nat]
<1>4. \A i \in DOMAIN f : f[i] \in R
  <2>. f \in Seq(R)
    BY <1>1
  <2>. HIDE DEF R
  <2>. QED
    BY <1>3, ElementOfSeq
<1>. QED
  BY <1>1, <1>2, <1>3, <1>4 DEF Events

LEMMA InitStoreInv == Init => StoreInv
<1>. SUFFICES ASSUME Init PROVE StoreInv
  OBVIOUS
<1>. USE DEF Init, LeaderboardInit
<1>1. StoreType
  <2>1. NoSession \in SessionRows /\ NoBest \in BestRows
    BY DEF SessionRows, Statuses, NoSession, NoBest, BestRows
  <2>2. sessions \in [Sessions -> SessionRows]
    BY <2>1
  <2>3. best \in [Sessions -> [Racers -> BestRows]]
    BY <2>1
  <2>4. feed \in Feeds /\ next \in Nat \ {0} /\ seq \in Nat
    OBVIOUS
  <2>6. overtaken \in BOOLEAN
    OBVIOUS
  <2>5. inbox \subseteq Events /\ retrying \subseteq [event : Events, tries : Nat]
    OBVIOUS
  <2>. QED
    BY <2>2, <2>3, <2>4, <2>5, <2>6 DEF StoreType
<1>2. OrderInv
  BY DEF OrderInv
<1>3. KnownInv
  BY DEF KnownInv, Known, NoSession
<1>4. EpochInv
  BY DEF EpochInv, Known, NoSession
<1>5. SeqInv
  BY DEF SeqInv, NoBest
<1>6. BestsExact
  BY DEF BestsExact, LapsOf
<1>7. StatusExact
  BY DEF StatusExact, LapsOf, Applied, NoSession
<1>8. SeqDistinct
  BY DEF SeqDistinct
<1>. QED
  BY <1>1, <1>2, <1>3, <1>4, <1>5, <1>6, <1>7, <1>8 DEF StoreInv

(* The newest epoch is above all that are given out.                       *)
LEMMA NextEpochAbove ==
  ASSUME StoreType, EpochInv, NEW s \in Sessions
  PROVE  /\ NextEpoch \in Nat
         /\ \A t \in Sessions : sessions[t].epoch < NextEpoch
<1>. DEFINE E == {sessions[t].epoch : t \in Sessions}
<1>1. PICK t \in Sessions : \A u \in Sessions : sessions[u].epoch <= sessions[t].epoch
  BY DEF EpochInv
<1>2. E \subseteq Nat /\ E # {}
  BY DEF StoreType, SessionRows
<1>3. \E m \in E : \A k \in E : k <= m
  BY <1>1
<1>. HIDE DEF E
<1>4. MaxOf(E) \in E /\ \A k \in E : k <= MaxOf(E)
  BY <1>2, <1>3 DEF MaxOf
<1>5. MaxOf(E) + 1 \in Nat /\ \A k \in E : k < MaxOf(E) + 1
  <2>. DEFINE m == MaxOf(E)
  <2>1. m \in Nat /\ \A k \in E : k \in Nat /\ k <= m
    BY <1>2, <1>4
  <2>. HIDE DEF m
  <2>2. m + 1 \in Nat /\ \A k \in E : k < m + 1
    BY <2>1
  <2>. QED
    BY <2>2 DEF m
<1>6. NextEpoch = MaxOf(E) + 1
  BY DEF NextEpoch, E
<1>7. \A u \in Sessions : sessions[u].epoch \in E
  BY DEF E
<1>. QED
  BY <1>5, <1>6, <1>7

(* The highest number stored is not below any that is stored.              *)
LEMMA MaxSeqAbove ==
  ASSUME StoreType, SeqInv
  PROVE  /\ MaxSeq \in Nat
         /\ \A s \in Sessions, r \in Racers : best[s][r].seq <= MaxSeq
<1>. DEFINE E == {best[s][r].seq : s \in Sessions, r \in Racers}
<1>1. MaxSeq = MaxOf(E)
  BY DEF MaxSeq
<1>2. E \subseteq Nat
  BY DEF StoreType, BestRows
<1>3. \A s \in Sessions, r \in Racers : best[s][r].seq \in E
  OBVIOUS
<1>4. ASSUME E = {}
      PROVE  MaxOf(E) \in Nat /\ \A k \in E : k <= MaxOf(E)
  <2>. HIDE DEF E
  <2>. QED
    BY <1>4 DEF MaxOf
<1>5. ASSUME E # {}
      PROVE  MaxOf(E) \in Nat /\ \A k \in E : k <= MaxOf(E)
  <2>1. PICK s \in Sessions, r \in Racers : TRUE
    BY <1>5
  <2>2. PICK t \in Sessions, q \in Racers :
          \A u \in Sessions, p \in Racers : best[u][p].seq <= best[t][q].seq
    BY DEF SeqInv
  <2>3. \E m \in E : \A k \in E : k <= m
    BY <2>2
  <2>. HIDE DEF E
  <2>4. MaxOf(E) \in E /\ \A k \in E : k <= MaxOf(E)
    BY <2>3, <1>5 DEF MaxOf
  <2>. QED
    BY <1>2, <2>4
<1>. HIDE DEF E
<1>. QED
  BY <1>1, <1>3, <1>4, <1>5

(***************************************************************************)
(* One event applied: the sessions table.                                  *)
(***************************************************************************)
LEMMA RowKeepsEpochs ==
  ASSUME StoreType, KnownInv, EpochInv, NEW e \in Events,
         NEW row \in SessionRows, row.status # "none",
         row.epoch = IF Known(e.sid) THEN sessions[e.sid].epoch ELSE NextEpoch,
         sessions' = [sessions EXCEPT ![e.sid] = row]
  PROVE  sessions' \in [Sessions -> SessionRows] /\ KnownInv' /\ EpochInv'
<1>1. e.sid \in Sessions /\ Sessions \subseteq Nat
  BY FeedOK DEF Events
<1>2. sessions' \in [Sessions -> SessionRows]
  BY DEF StoreType
<1>3. /\ sessions'[e.sid] = row
      /\ \A s \in Sessions : s # e.sid => sessions'[s] = sessions[s]
  BY <1>1 DEF StoreType
<1>4. /\ NextEpoch \in Nat
      /\ \A t \in Sessions : sessions[t].epoch \in Nat /\ sessions[t].epoch < NextEpoch
  BY <1>1, NextEpochAbove DEF StoreType, SessionRows
<1>5. NextEpoch # 0
  <2>1. sessions[e.sid].epoch \in Nat /\ sessions[e.sid].epoch < NextEpoch
    BY <1>1, <1>4
  <2>. QED
    BY <2>1, <1>4
<1>6. row.epoch \in Nat /\ row.epoch # 0
  BY <1>1, <1>4, <1>5 DEF Known
<1>7. KnownInv'
  BY <1>3, <1>6 DEF KnownInv, Known
<1>8. \A s \in Sessions : \E t \in Sessions : \A u \in Sessions :
        sessions'[u].epoch <= sessions'[t].epoch
  <2>1. CASE Known(e.sid)
    <3>1. \A s \in Sessions : sessions'[s].epoch = sessions[s].epoch
      BY <1>3, <2>1
    <3>. QED
      BY <3>1 DEF EpochInv
  <2>2. CASE ~Known(e.sid)
    <3>1. \A u \in Sessions : sessions'[u].epoch <= sessions'[e.sid].epoch
      BY <1>3, <1>4, <2>2
    <3>. QED
      BY <1>1, <3>1
  <2>. QED
    BY <2>1, <2>2
<1>9. ASSUME NEW s \in Sessions, NEW t \in Sessions,
             sessions'[s].epoch # 0, sessions'[s].epoch = sessions'[t].epoch
      PROVE  s = t
  <2>1. CASE Known(e.sid)
    <3>1. \A u \in Sessions : sessions'[u].epoch = sessions[u].epoch
      BY <1>3, <2>1
    <3>. QED
      BY <3>1, <1>9 DEF EpochInv, Known
  <2>2. CASE ~Known(e.sid)
    <3>1. \A u \in Sessions : u # e.sid => sessions'[u].epoch < sessions'[e.sid].epoch
      BY <1>3, <1>4, <2>2
    <3>2. \A u \in Sessions : sessions'[u].epoch \in Nat
      BY <1>2 DEF SessionRows
    <3>3. s = e.sid <=> t = e.sid
      BY <3>1, <3>2, <1>9, <1>1
    <3>. QED
      BY <3>3, <1>3, <1>9 DEF EpochInv, Known
  <2>. QED
    BY <2>1, <2>2
<1>10. EpochInv'
  BY <1>8, <1>9 DEF EpochInv, Known
<1>. QED
  BY <1>2, <1>7, <1>10

(* Whether some lap of session s was applied.                              *)
HasLap(s) == \E f \in inbox : f.type = "lap.recorded" /\ f.sid = s

LEMMA HasLapIs ==
  ASSUME inbox \subseteq Events, NEW s \in Sessions
  PROVE  (\E r \in Racers : LapsOf(s, r) # {}) <=> HasLap(s)
<1>1. ASSUME NEW r \in Racers, LapsOf(s, r) # {} PROVE HasLap(s)
  BY <1>1 DEF LapsOf, HasLap
<1>2. ASSUME NEW f \in inbox, f.type = "lap.recorded", f.sid = s
      PROVE  \E r \in Racers : LapsOf(s, r) # {}
  <2>1. f.racer \in Racers /\ f \in LapsOf(s, f.racer)
    BY <1>2 DEF LapsOf, Events
  <2>. QED
    BY <2>1
<1>. QED
  BY <1>1, <1>2 DEF HasLap

(* A status is what was applied, said without the drivers.                 *)
StatusOf(ended, started, lap) ==
  IF ended THEN "finished" ELSE IF started THEN "active" ELSE IF lap THEN "implicit" ELSE "none"

RowExact(s) ==
  /\ sessions[s].started = Applied("session.started", s)
  /\ sessions[s].ended = Applied("session.ended", s)
  /\ sessions[s].status =
       StatusOf(Applied("session.ended", s), Applied("session.started", s), HasLap(s))

LEMMA RowsExact ==
  ASSUME inbox \subseteq Events
  PROVE  StatusExact <=> \A s \in Sessions : RowExact(s)
BY HasLapIs DEF StatusExact, RowExact, StatusOf

LEMMA RowsExactPrime ==
  ASSUME (inbox \subseteq Events)'
  PROVE  StatusExact' <=> \A s \in Sessions : RowExact(s)'
<1>1. \A s \in Sessions : (\E r \in Racers : LapsOf(s, r)' # {}) <=> HasLap(s)'
  <2>. SUFFICES ASSUME NEW s \in Sessions
                PROVE  (\E r \in Racers : LapsOf(s, r)' # {}) <=> HasLap(s)'
    OBVIOUS
  <2>1. ASSUME NEW r \in Racers, LapsOf(s, r)' # {} PROVE HasLap(s)'
    BY <2>1 DEF LapsOf, HasLap
  <2>2. ASSUME NEW f \in inbox', f.type = "lap.recorded", f.sid = s
        PROVE  \E r \in Racers : LapsOf(s, r)' # {}
    <3>1. f.racer \in Racers /\ f \in LapsOf(s, f.racer)'
      BY <2>2 DEF LapsOf, Events
    <3>. QED
      BY <3>1
  <2>. QED
    BY <2>1, <2>2 DEF HasLap
<1>. QED
  BY <1>1 DEF StatusExact, RowExact, StatusOf

(* What one more event changes in what was applied.                        *)
LEMMA OneMoreApplied ==
  ASSUME NEW e \in Events, inbox' = inbox \cup {e}, NEW s \in Sessions
  PROVE  /\ Applied("session.started", s)'
              = (Applied("session.started", s) \/ (e.type = "session.started" /\ e.sid = s))
         /\ Applied("session.ended", s)'
              = (Applied("session.ended", s) \/ (e.type = "session.ended" /\ e.sid = s))
         /\ HasLap(s)' = (HasLap(s) \/ (e.type = "lap.recorded" /\ e.sid = s))
<1>1. \A T : Applied(T, s)' <=> (Applied(T, s) \/ (e.type = T /\ e.sid = s))
  BY DEF Applied
<1>2. HasLap(s)' <=> (HasLap(s) \/ (e.type = "lap.recorded" /\ e.sid = s))
  BY DEF HasLap
<1>3. \A T : Applied(T, s) \in BOOLEAN /\ Applied(T, s)' \in BOOLEAN
  BY DEF Applied
<1>4. HasLap(s) \in BOOLEAN /\ HasLap(s)' \in BOOLEAN
  BY DEF HasLap
<1>. QED
  BY <1>1, <1>2, <1>3, <1>4

LEMMA ApplySessions ==
  ASSUME StoreType, KnownInv, EpochInv, StatusExact,
         NEW e \in Events, Apply(e), inbox' = inbox \cup {e}
  PROVE  /\ sessions' \in [Sessions -> SessionRows]
         /\ KnownInv' /\ EpochInv' /\ StatusExact'
         /\ \A t \in Sessions :
              sessions'[t].epoch = IF t = e.sid /\ ~Known(t) THEN NextEpoch ELSE sessions[t].epoch
<1>. DEFINE s == e.sid
            old == sessions[s]
            new == sessions'[s]
<1>1. s \in Sessions /\ old \in SessionRows /\ inbox \subseteq Events
  BY DEF Events, StoreType
<1>2. RowExact(s) /\ (Known(s) <=> old.status # "none")
  BY <1>1, RowsExact DEF KnownInv
<1>3. NextEpoch \in Nat
  BY <1>1, NextEpochAbove
<1>. DEFINE Good(row) ==
              /\ sessions' = [sessions EXCEPT ![s] = row]
              /\ row \in SessionRows
              /\ row.epoch = IF Known(s) THEN old.epoch ELSE NextEpoch
              /\ row.started = (old.started \/ e.type = "session.started")
              /\ row.ended = (old.ended \/ e.type = "session.ended")
              /\ row.status = StatusOf(row.ended, row.started, HasLap(s) \/ e.type = "lap.recorded")
<1>4. PICK row : Good(row)
  <2>1. old.started \in BOOLEAN /\ old.ended \in BOOLEAN /\ old.epoch \in Nat
    BY <1>1 DEF SessionRows
  <2>2. old.status = StatusOf(old.ended, old.started, HasLap(s))
    BY <1>2 DEF RowExact
  <2>3. ~Known(s) => ~old.started /\ ~old.ended /\ ~HasLap(s)
    BY <1>2, <2>1, <2>2 DEF StatusOf
  <2>4. CASE e.type = "lap.recorded"
    <3>1. sessions' = [sessions EXCEPT ![s] = ensureSession(s, "implicit", FALSE, FALSE)]
      BY <2>4 DEF Apply, ApplyLap
    <3>2. CASE Known(s)
      <4>1. Good(old)
        BY <3>1, <3>2, <2>1, <2>2, <2>4, <1>1, <1>2 DEF ensureSession, StatusOf
      <4>. QED
        BY <4>1
    <3>3. CASE ~Known(s)
      <4>. DEFINE row == [epoch |-> NextEpoch, status |-> "implicit", started |-> FALSE, ended |-> FALSE]
      <4>1. sessions' = [sessions EXCEPT ![s] = row]
        BY <3>1, <3>3 DEF ensureSession
      <4>2. row \in SessionRows
        BY <1>3 DEF SessionRows, Statuses
      <4>3. /\ row.epoch = NextEpoch /\ row.started = (e.type = "session.started")
            /\ row.ended = (e.type = "session.ended")
            /\ row.status = StatusOf(row.ended, row.started, e.type = "lap.recorded")
        BY <2>4 DEF StatusOf
      <4>. HIDE DEF row
      <4>4. Good(row)
        BY <4>1, <4>2, <4>3, <3>3, <2>1, <2>3
      <4>. QED
        BY <4>4
    <3>. QED
      BY <3>2, <3>3
  <2>5. CASE e.type = "session.started"
    <3>1. sessions' = [sessions EXCEPT ![s] =
             IF Known(s) /\ StartMatches(old)
             THEN Reconciled(old)
             ELSE ensureSession(s, "active", TRUE, FALSE)]
      BY <2>5 DEF Apply, ApplySessionStarted
    <3>2. CASE Known(s) /\ StartMatches(old)
      <4>. DEFINE row == Reconciled(old)
      <4>1. sessions' = [sessions EXCEPT ![s] = row]
        BY <3>1, <3>2
      <4>2. /\ row.epoch = old.epoch /\ row.started = TRUE /\ row.ended = old.ended
            /\ row.status = IF old.status = "implicit" THEN "active" ELSE old.status
            /\ row \in SessionRows
        BY <1>1 DEF Reconciled, SessionRows, Statuses
      <4>3. row.status = StatusOf(row.ended, row.started, HasLap(s))
        BY <4>2, <3>2, <2>1, <2>2, <1>2 DEF StatusOf
      <4>. HIDE DEF row
      <4>4. Good(row)
        BY <4>1, <4>2, <4>3, <3>2, <2>1, <2>5 DEF StatusOf
      <4>. QED
        BY <4>4
    <3>3. CASE Known(s) /\ ~StartMatches(old)
      <4>1. old.started /\ old.status # "implicit"
        BY <3>3 DEF StartMatches
      <4>2. sessions' = [sessions EXCEPT ![s] = old]
        BY <3>1, <3>3 DEF ensureSession
      <4>3. old.status = StatusOf(old.ended, old.started, HasLap(s) \/ e.type = "lap.recorded")
        BY <4>1, <2>1, <2>2 DEF StatusOf
      <4>4. Good(old)
        BY <4>1, <4>2, <4>3, <3>3, <2>1, <2>5, <1>1
      <4>. QED
        BY <4>4
    <3>4. CASE ~Known(s)
      <4>. DEFINE row == ensureSession(s, "active", TRUE, FALSE)
      <4>1. sessions' = [sessions EXCEPT ![s] = row]
        BY <3>1, <3>4
      <4>2. /\ row \in SessionRows /\ row.epoch = NextEpoch
            /\ row.status = "active" /\ row.started = TRUE /\ row.ended = FALSE
        BY <3>4, <1>3 DEF SessionRows, Statuses, ensureSession
      <4>. HIDE DEF row
      <4>3. Good(row)
        BY <4>1, <4>2, <3>4, <2>1, <2>3, <2>5 DEF StatusOf
      <4>. QED
        BY <4>3
    <3>. QED
      BY <3>2, <3>3, <3>4
  <2>6. CASE e.type = "session.ended"
    <3>1. sessions' = [sessions EXCEPT ![s] =
             IF Known(s) /\ EndMatches(old)
             THEN [old EXCEPT !.status = "finished", !.ended = TRUE]
             ELSE ensureSession(s, "finished", FALSE, TRUE)]
      BY <2>6 DEF Apply, ApplySessionEnded
    <3>2. CASE Known(s) /\ EndMatches(old)
      <4>. DEFINE row == [old EXCEPT !.status = "finished", !.ended = TRUE]
      <4>1. sessions' = [sessions EXCEPT ![s] = row]
        BY <3>1, <3>2
      <4>2. /\ row.epoch = old.epoch /\ row.started = old.started /\ row.ended = TRUE
            /\ row.status = "finished"
            /\ row \in SessionRows
        BY <1>1 DEF SessionRows, Statuses
      <4>. HIDE DEF row
      <4>3. row.status = StatusOf(row.ended, row.started, HasLap(s))
        BY <4>2 DEF StatusOf
      <4>4. Good(row)
        BY <4>1, <4>2, <4>3, <3>2, <2>1, <2>6 DEF StatusOf
      <4>. QED
        BY <4>4
    <3>3. CASE Known(s) /\ ~EndMatches(old)
      <4>1. old.ended /\ old.status = "finished"
        BY <3>3 DEF EndMatches
      <4>2. sessions' = [sessions EXCEPT ![s] = old]
        BY <3>1, <3>3 DEF ensureSession
      <4>3. old.status = StatusOf(old.ended, old.started, HasLap(s) \/ e.type = "lap.recorded")
        BY <4>1, <2>1, <2>2 DEF StatusOf
      <4>4. Good(old)
        BY <4>1, <4>2, <4>3, <3>3, <2>1, <2>6, <1>1
      <4>. QED
        BY <4>4
    <3>4. CASE ~Known(s)
      <4>. DEFINE row == ensureSession(s, "finished", FALSE, TRUE)
      <4>1. sessions' = [sessions EXCEPT ![s] = row]
        BY <3>1, <3>4
      <4>2. /\ row \in SessionRows /\ row.epoch = NextEpoch
            /\ row.status = "finished" /\ row.started = FALSE /\ row.ended = TRUE
        BY <3>4, <1>3 DEF SessionRows, Statuses, ensureSession
      <4>. HIDE DEF row
      <4>3. Good(row)
        BY <4>1, <4>2, <3>4, <2>1, <2>3, <2>6 DEF StatusOf
      <4>. QED
        BY <4>3
    <3>. QED
      BY <3>2, <3>3, <3>4
  <2>. QED
    BY <2>4, <2>5, <2>6 DEF Apply
<1>5. row.status # "none"
  <2>. HIDE DEF old
  <2>1. row.ended \/ row.started \/ e.type = "lap.recorded"
    BY <1>4 DEF Apply
  <2>. QED
    BY <2>1, <1>4 DEF StatusOf
<1>6. sessions' \in [Sessions -> SessionRows] /\ KnownInv' /\ EpochInv'
  BY <1>4, <1>5, RowKeepsEpochs
<1>7. sessions'[s] = row /\ \A t \in Sessions : t # s => sessions'[t] = sessions[t]
  BY <1>1, <1>4 DEF StoreType
<1>8. RowExact(s)'
  <2>1. /\ Applied("session.started", s)'
            = (Applied("session.started", s) \/ e.type = "session.started")
        /\ Applied("session.ended", s)'
            = (Applied("session.ended", s) \/ e.type = "session.ended")
        /\ HasLap(s)' = (HasLap(s) \/ e.type = "lap.recorded")
    BY <1>1, OneMoreApplied
  <2>. QED
    BY <2>1, <1>2, <1>4, <1>7 DEF RowExact
<1>9. ASSUME NEW t \in Sessions, t # s PROVE RowExact(t)'
  <2>1. /\ Applied("session.started", t)' = Applied("session.started", t)
        /\ Applied("session.ended", t)' = Applied("session.ended", t)
        /\ HasLap(t)' = HasLap(t)
    BY <1>9 DEF Applied, HasLap
  <2>2. RowExact(t)
    BY <1>1, RowsExact
  <2>. QED
    BY <2>1, <2>2, <1>7, <1>9 DEF RowExact
<1>10. StatusExact'
  <2>1. (inbox \subseteq Events)'
    BY <1>1 DEF Events
  <2>. QED
    BY <2>1, <1>8, <1>9, RowsExactPrime
<1>11. \A t \in Sessions :
         sessions'[t].epoch = IF t = s /\ ~Known(t) THEN NextEpoch ELSE sessions[t].epoch
  BY <1>4, <1>7
<1>. QED
  BY <1>6, <1>10, <1>11

(***************************************************************************)
(* One event applied: the bests.                                           *)
(***************************************************************************)
Fastest(e, s, r) ==
  /\ e \in LapsOf(s, r)
  /\ best[s][r].ms = e.ms /\ best[s][r].at = e.at
  /\ \A f \in LapsOf(s, r) :
       e.ms < f.ms \/ (e.ms = f.ms /\ (overtaken \/ e.at <= f.at))

BestExact(s, r) ==
  /\ LapsOf(s, r) = {} => best[s][r] = NoBest
  /\ LapsOf(s, r) # {} => \E e : Fastest(e, s, r)

LEMMA BestsAre ==
  /\ BestsExact <=> \A s \in Sessions, r \in Racers : BestExact(s, r)
  /\ BestsExact' <=> \A s \in Sessions, r \in Racers : BestExact(s, r)'
BY DEF BestsExact, BestExact, Fastest

LEMMA BestUnchanged ==
  ASSUME NEW s \in Sessions, NEW r \in Racers, BestExact(s, r),
         LapsOf(s, r)' = LapsOf(s, r), best'[s][r] = best[s][r], overtaken => overtaken'
  PROVE  BestExact(s, r)'
<1>1. CASE LapsOf(s, r) = {}
  BY <1>1 DEF BestExact
<1>2. CASE LapsOf(s, r) # {}
  <2>1. PICK e : Fastest(e, s, r)
    BY <1>2 DEF BestExact
  <2>2. Fastest(e, s, r)'
    BY <2>1 DEF Fastest
  <2>. QED
    BY <2>2, <1>2 DEF BestExact
<1>. QED
  BY <1>1, <1>2

(* A best row is empty or holds the time of a lap applied, which is not    *)
(* zero.                                                                   *)
LEMMA EmptyBest ==
  ASSUME StoreType, BestsExact, NEW s \in Sessions, NEW r \in Racers
  PROVE  best[s][r] = NoBest <=> LapsOf(s, r) = {}
<1>1. BestExact(s, r)
  BY BestsAre
<1>2. ASSUME LapsOf(s, r) # {} PROVE best[s][r] # NoBest
  <2>1. PICK e : Fastest(e, s, r)
    BY <1>1, <1>2 DEF BestExact
  <2>2. e.ms \in Nat /\ e.ms > 0
    BY <2>1 DEF Fastest, LapsOf, StoreType, Events
  <2>3. best[s][r].ms = e.ms
    BY <2>1 DEF Fastest
  <2>. QED
    BY <2>2, <2>3 DEF NoBest
<1>. QED
  BY <1>1, <1>2 DEF BestExact

LEMMA ApplyBests ==
  ASSUME StoreType, SeqInv, BestsExact, SeqDistinct,
         NEW e \in Events, Reached(e), overtaken' = overtaken,
         Apply(e), inbox' = inbox \cup {e},
         seq' = IF e.type = "lap.recorded" THEN seq + 1 ELSE seq
  PROVE  best' \in [Sessions -> [Racers -> BestRows]] /\ SeqInv' /\ BestsExact' /\ SeqDistinct'
<1>. DEFINE s == e.sid
            r == e.racer
            new == [ms |-> e.ms, at |-> e.at, seq |-> seq']
<1>1. /\ s \in Sessions /\ r \in Racers /\ e.ms \in Nat /\ e.at \in Nat
      /\ best \in [Sessions -> [Racers -> BestRows]] /\ inbox \subseteq Events
      /\ seq \in Nat /\ seq' \in Nat /\ seq <= seq'
  BY DEF Events, StoreType
<1>2. \A t \in Sessions, q \in Racers : BestExact(t, q)
  BY BestsAre
<1>3. new \in BestRows /\ new.ms = e.ms /\ new.at = e.at /\ new.seq = seq'
  BY <1>1 DEF BestRows
<1>4. ASSUME NEW t \in Sessions, NEW q \in Racers, t # s \/ q # r \/ e.type # "lap.recorded"
      PROVE  LapsOf(t, q)' = LapsOf(t, q)
  BY <1>4 DEF LapsOf
<1>5. CASE best' = best
  <2>1. SeqInv'
    BY <1>5, <1>1 DEF SeqInv, BestRows
  <2>2. SeqDistinct'
    BY <1>5 DEF SeqDistinct
  <2>3. ASSUME NEW t \in Sessions, NEW q \in Racers PROVE BestExact(t, q)'
    <3>1. CASE t # s \/ q # r \/ e.type # "lap.recorded"
      BY <3>1, <1>2, <1>4, <1>5, BestUnchanged
    <3>2. CASE t = s /\ q = r /\ e.type = "lap.recorded"
      <4>1. LapsOf(s, r)' = LapsOf(s, r) \cup {e}
        BY <3>2 DEF LapsOf
      <4>2. ImprovesBest(best[s][r], e.ms) => best'[s][r] = new
        BY <3>2, <1>1 DEF Apply, ApplyLap
      <4>3. CASE best[s][r] = new
        <5>1. LapsOf(s, r) # {}
          BY <4>3, <1>3, <1>1, EmptyBest, <3>2 DEF NoBest, Events
        <5>2. PICK f : Fastest(f, s, r)
          BY <5>1, <1>1, <1>2 DEF BestExact
        <5>3. f.ms = e.ms /\ f.at = e.at
          BY <5>2, <4>3, <1>3 DEF Fastest
        <5>4. Fastest(f, s, r)'
          BY <5>2, <5>3, <4>1, <1>1, <1>5 DEF Fastest
        <5>. QED
          BY <5>4, <4>1, <3>2 DEF BestExact
      <4>4. CASE best[s][r] # new
        <5>1. ~ImprovesBest(best[s][r], e.ms)
          BY <4>2, <4>4, <1>5
        <5>2. best[s][r] # NoBest /\ ~(e.ms < best[s][r].ms)
          BY <5>1 DEF ImprovesBest
        <5>3. LapsOf(s, r) # {}
          BY <5>2, <1>1, EmptyBest
        <5>4. PICK f : Fastest(f, s, r)
          BY <5>3, <1>1, <1>2 DEF BestExact
        <5>5. f \in inbox /\ f.sid = s /\ f.ms \in Nat /\ f.at \in Nat /\ best[s][r].ms = f.ms
          BY <5>4, <1>1 DEF Fastest, LapsOf, Events
        <5>6. f.ms < e.ms \/ (f.ms = e.ms /\ (overtaken \/ f.at <= e.at))
          BY <5>2, <5>5, <1>1 DEF Reached
        <5>7. Fastest(f, s, r)'
          BY <5>4, <5>6, <4>1, <1>5 DEF Fastest
        <5>. QED
          BY <5>7, <4>1, <3>2 DEF BestExact
      <4>. QED
        BY <4>3, <4>4
    <3>. QED
      BY <3>1, <3>2
  <2>. QED
    BY <2>1, <2>2, <2>3, <1>1, <1>5, BestsAre
<1>6. CASE best' # best
  <2>1. /\ e.type = "lap.recorded" /\ ImprovesBest(best[s][r], e.ms)
        /\ best' = [best EXCEPT ![s][r] = new]
    BY <1>6 DEF Apply, ApplyLap, ApplySessionStarted, ApplySessionEnded
  <2>2. seq' = seq + 1
    BY <2>1
  <2>. HIDE DEF new
  <2>3. /\ best' \in [Sessions -> [Racers -> BestRows]]
        /\ best'[s][r] = new
        /\ \A t \in Sessions, q \in Racers : t # s \/ q # r => best'[t][q] = best[t][q]
    BY <2>1, <1>1, <1>3
  <2>4. \A t \in Sessions, q \in Racers :
          /\ best[t][q].seq \in Nat /\ best[t][q].seq < seq'
          /\ best'[t][q].seq \in Nat /\ best'[t][q].seq <= seq'
    <3>1. \A t \in Sessions, q \in Racers :
            best[t][q].seq \in Nat /\ best[t][q].seq < seq'
      BY <2>2, <1>1 DEF SeqInv, BestRows
    <3>. QED
      BY <3>1, <2>3, <1>1, <1>3, SMTT(30)
  <2>5. SeqInv'
    <3>1. \A u \in Sessions, p \in Racers : best'[u][p].seq <= best'[s][r].seq
      BY <2>3, <2>4, <1>3
    <3>. QED
      BY <3>1, <2>4, <1>1 DEF SeqInv
  <2>6. SeqDistinct'
    <3>. SUFFICES ASSUME NEW t \in Sessions, NEW u \in Sessions, NEW p \in Racers, NEW q \in Racers,
                         best'[t][p] # NoBest, best'[u][q] # NoBest,
                         best'[t][p].seq = best'[u][q].seq
                  PROVE  t = u /\ p = q
      BY DEF SeqDistinct
    <3>1. CASE (t = s /\ p = r) \/ (u = s /\ q = r)
      BY <3>1, <2>3, <2>4, <1>1, <1>3
    <3>2. CASE ~((t = s /\ p = r) \/ (u = s /\ q = r))
      BY <3>2, <2>3 DEF SeqDistinct
    <3>. QED
      BY <3>1, <3>2
  <2>7. ASSUME NEW t \in Sessions, NEW q \in Racers PROVE BestExact(t, q)'
    <3>1. CASE t # s \/ q # r
      BY <3>1, <1>2, <1>4, <2>3, BestUnchanged
    <3>2. CASE t = s /\ q = r
      <4>1. LapsOf(s, r)' = LapsOf(s, r) \cup {e}
        BY <2>1 DEF LapsOf
      <4>2. \A f \in LapsOf(s, r) : e.ms < f.ms
        <5>1. CASE LapsOf(s, r) = {}
          BY <5>1
        <5>2. CASE LapsOf(s, r) # {}
          <6>1. PICK g : Fastest(g, s, r)
            BY <5>2, <1>1, <1>2 DEF BestExact
          <6>2. e.ms < best[s][r].ms
            BY <2>1, <5>2, <1>1, EmptyBest DEF ImprovesBest
          <6>3. \A f \in LapsOf(s, r) : f.ms \in Nat
            BY <1>1 DEF LapsOf, Events
          <6>4. g.ms \in Nat /\ e.ms < g.ms /\ \A f \in LapsOf(s, r) : g.ms < f.ms \/ g.ms = f.ms
            BY <6>1, <6>2, <6>3 DEF Fastest
          <6>. QED
            BY <6>3, <6>4, <1>1
        <5>. QED
          BY <5>1, <5>2
      <4>3. Fastest(e, s, r)'
        BY <4>1, <4>2, <2>3, <1>1, <1>3 DEF Fastest
      <4>. QED
        BY <4>1, <4>3, <3>2 DEF BestExact
    <3>. QED
      BY <3>1, <3>2
  <2>. QED
    BY <2>3, <2>5, <2>6, <2>7, BestsAre
<1>. QED
  BY <1>5, <1>6

(***************************************************************************)
(* The handler.                                                            *)
(***************************************************************************)
LEMMA HeadReached ==
  ASSUME StoreType, OrderInv, NEW d \in Deliveries
  PROVE  /\ d \in [event : Events, tries : Nat]
         /\ Reached(d.event)
         /\ ~overtaken => next \in DOMAIN feed /\ d.event = feed[next] /\ IsHead(d)
<1>. DEFINE head == [event |-> feed[next], tries |-> 0]
<1>1. /\ DOMAIN feed = 1..Len(feed) /\ Len(feed) \in Nat
      /\ \A i \in DOMAIN feed : feed[i] \in Events
  BY FeedTypes DEF StoreType
<1>2. next <= Len(feed) => next \in DOMAIN feed
  BY <1>1 DEF StoreType
<1>3. next <= Len(feed) => head \in [event : Events, tries : Nat]
  BY <1>1, <1>2
<1>4. d \in retrying \/ (next <= Len(feed) /\ d = head)
  BY DEF Deliveries
<1>5. d \in [event : Events, tries : Nat]
  BY <1>3, <1>4 DEF StoreType
<1>6. ASSUME ~overtaken
      PROVE  next \in DOMAIN feed /\ d.event = feed[next] /\ IsHead(d)
  BY <1>6, <1>2, <1>4 DEF OrderInv, IsHead
<1>7. ASSUME ~overtaken, NEW f \in inbox
      PROVE  f.sid = d.event.sid => f.at <= d.event.at
  <2>1. PICK i \in DOMAIN feed : i <= next /\ feed[i] = f
    BY <1>7 DEF OrderInv
  <2>2. next \in DOMAIN feed /\ d.event = feed[next]
    BY <1>6, <1>7
  <2>3. CASE i = next
    <3>1. f = d.event /\ f.at \in Nat
      BY <2>1, <2>2, <2>3, <1>1 DEF Events
    <3>. QED
      BY <3>1
  <2>4. CASE i < next
    <3>1. feed \in Feeds
      BY DEF StoreType
    <3>. QED
      BY <2>1, <2>2, <2>4, <3>1, FeedInOrder
  <2>. QED
    BY <2>1, <2>2, <2>3, <2>4, <1>1
<1>. QED
  BY <1>5, <1>6, <1>7 DEF Reached

(* What the tables say of the events applied holds as long as neither      *)
(* changes.                                                                *)
LEMMA TablesKept ==
  ASSUME BestsExact, StatusExact, SeqDistinct, overtaken => overtaken',
         inbox' = inbox, sessions' = sessions, best' = best
  PROVE  BestsExact' /\ StatusExact' /\ SeqDistinct'
<1>1. \A s \in Sessions, r \in Racers : LapsOf(s, r)' = LapsOf(s, r)
  BY DEF LapsOf
<1>2. \A s \in Sessions, r \in Racers : BestExact(s, r)'
  BY <1>1, BestsAre, BestUnchanged
<1>3. \A t, s : Applied(t, s)' = Applied(t, s)
  BY DEF Applied
<1>4. StatusExact'
  BY <1>1, <1>3 DEF StatusExact
<1>5. SeqDistinct'
  BY DEF SeqDistinct
<1>. QED
  BY <1>2, <1>4, <1>5, BestsAre

LEMMA ProcessStore ==
  ASSUME StoreInv, NEW d \in Deliveries, Process(d)
  PROVE  StoreInv'
<1>. USE DEF StoreInv
<1>1. /\ d \in [event : Events, tries : Nat]
      /\ Reached(d.event)
      /\ ~overtaken => next \in DOMAIN feed /\ d.event = feed[next] /\ IsHead(d)
  BY HeadReached
<1>2. d.event \in Events
  BY <1>1
<1>3. /\ feed' = feed /\ overtaken' = overtaken
      /\ seq' = IF d.event.type = "lap.recorded" THEN seq + 1 ELSE seq
      /\ (next' = next + 1 \/ next' = next) /\ retrying' \subseteq retrying
  BY DEF Process, TakeSeq, Ack, Remove
<1>4. inbox' \subseteq inbox \cup {d.event}
  BY DEF Process
<1>5. OrderInv'
  <2>1. ~overtaken => retrying' = {}
    BY <1>3 DEF OrderInv
  <2>2. ASSUME ~overtaken, NEW f \in inbox' PROVE \E i \in DOMAIN feed : i <= next' /\ feed[i] = f
    <3>1. \A i \in DOMAIN feed : i \in Nat
      BY FeedTypes DEF StoreType
    <3>2. \E i \in DOMAIN feed : i <= next /\ feed[i] = f
      BY <2>2, <1>1, <1>4, <3>1 DEF OrderInv
    <3>. QED
      BY <3>1, <3>2, <1>3 DEF StoreType
  <2>. QED
    BY <2>1, <2>2, <1>3 DEF OrderInv
<1>6. /\ sessions' \in [Sessions -> SessionRows] /\ best' \in [Sessions -> [Racers -> BestRows]]
      /\ KnownInv' /\ EpochInv' /\ SeqInv' /\ BestsExact' /\ StatusExact' /\ SeqDistinct'
  <2>1. CASE d.event \in inbox
    <3>1. inbox' = inbox /\ sessions' = sessions /\ best' = best
      BY <2>1 DEF Process
    <3>2. KnownInv' /\ EpochInv'
      BY <3>1, <1>3 DEF KnownInv, EpochInv, Known
    <3>3. BestsExact' /\ StatusExact' /\ SeqDistinct'
      BY <3>1, <1>3, TablesKept
    <3>4. seq \in Nat /\ seq' \in Nat /\ seq <= seq'
      BY <1>3 DEF StoreType
    <3>5. SeqInv'
      BY <3>1, <3>4 DEF SeqInv, StoreType, BestRows
    <3>. QED
      BY <3>1, <3>2, <3>3, <3>5 DEF StoreType
  <2>2. CASE d.event \notin inbox
    <3>1. Apply(d.event) /\ inbox' = inbox \cup {d.event}
      BY <2>2 DEF Process
    <3>2. sessions' \in [Sessions -> SessionRows] /\ KnownInv' /\ EpochInv' /\ StatusExact'
      BY <3>1, <1>1, <1>2, <1>3, ApplySessions
    <3>3. /\ best' \in [Sessions -> [Racers -> BestRows]]
          /\ SeqInv' /\ BestsExact' /\ SeqDistinct'
      BY <3>1, <1>1, <1>2, <1>3, ApplyBests
    <3>. QED
      BY <3>2, <3>3
  <2>. QED
    BY <2>1, <2>2
<1>7. StoreType'
  <2>1. next' \in Nat \ {0} /\ seq' \in Nat
    BY <1>3 DEF StoreType
  <2>2. inbox' \subseteq Events /\ retrying' \subseteq [event : Events, tries : Nat]
    BY <1>2, <1>3, <1>4 DEF StoreType
  <2>. QED
    BY <2>1, <2>2, <1>3, <1>6 DEF StoreType
<1>. QED
  BY <1>5, <1>6, <1>7

LEMMA ProcessFailsStore ==
  ASSUME StoreInv, NEW d \in Deliveries, ProcessFails(d)
  PROVE  StoreInv'
<1>. USE DEF StoreInv
<1>1. d \in [event : Events, tries : Nat]
  BY HeadReached
<1>2. /\ feed' = feed /\ inbox' = inbox /\ sessions' = sessions /\ best' = best
      /\ overtaken' = TRUE
      /\ seq' = IF d.event.type = "lap.recorded" THEN seq + 1 ELSE seq
      /\ next' = next + 1 \/ next' = next
      /\ retrying' \subseteq retrying \cup {[d EXCEPT !.tries = @ + 1]}
  BY DEF ProcessFails, TakeSeq, Remove
<1>3. seq \in Nat /\ seq' \in Nat /\ seq <= seq'
  BY <1>2 DEF StoreType
<1>4. StoreType'
  <2>1. [d EXCEPT !.tries = @ + 1] \in [event : Events, tries : Nat]
    BY <1>1
  <2>2. retrying' \subseteq [event : Events, tries : Nat]
    BY <2>1, <1>2 DEF StoreType
  <2>3. next' \in Nat \ {0}
    BY <1>2 DEF StoreType
  <2>. QED
    BY <2>2, <2>3, <1>2, <1>3 DEF StoreType
<1>5. KnownInv' /\ EpochInv' /\ OrderInv'
  BY <1>2 DEF KnownInv, EpochInv, Known, OrderInv
<1>6. SeqInv'
  BY <1>2, <1>3 DEF SeqInv, StoreType, BestRows
<1>7. BestsExact' /\ StatusExact' /\ SeqDistinct'
  BY <1>2, TablesKept
<1>. QED
  BY <1>4, <1>5, <1>6, <1>7

LEMMA RestartStore ==
  ASSUME StoreInv, Restart
  PROVE  StoreInv'
<1>. USE DEF StoreInv
<1>1. /\ feed' = feed /\ next' = next /\ retrying' = retrying /\ inbox' = inbox
      /\ sessions' = sessions /\ best' = best /\ overtaken' = overtaken /\ seq' = MaxSeq
  BY DEF Restart, StartSeq
<1>2. MaxSeq \in Nat /\ \A s \in Sessions, r \in Racers : best[s][r].seq <= MaxSeq
  BY MaxSeqAbove
<1>3. StoreType' /\ OrderInv' /\ KnownInv' /\ EpochInv'
  BY <1>1, <1>2 DEF StoreType, OrderInv, KnownInv, EpochInv, Known
<1>4. SeqInv'
  BY <1>1, <1>2 DEF SeqInv
<1>5. BestsExact' /\ StatusExact' /\ SeqDistinct'
  BY <1>1, TablesKept
<1>. QED
  BY <1>3, <1>4, <1>5

storeState == <<feed, next, retrying, inbox, sessions, best, seq, overtaken>>

LEMMA StoreUnchanged ==
  ASSUME StoreInv, UNCHANGED storeState
  PROVE  StoreInv'
<1>1. BestsExact' /\ StatusExact' /\ SeqDistinct'
  BY TablesKept DEF storeState, StoreInv
<1>2. StoreType' /\ OrderInv'
  BY DEF storeState, StoreInv, StoreType, OrderInv
<1>3. KnownInv' /\ EpochInv' /\ SeqInv'
  BY DEF storeState, StoreInv, KnownInv, EpochInv, Known, SeqInv
<1>. QED
  BY <1>1, <1>2, <1>3 DEF StoreInv

LEMMA StoreStep ==
  ASSUME StoreInv, [Next]_vars
  PROVE  StoreInv'
<1>1. CASE HandleDelivery
  <2>1. PICK d \in Deliveries : Process(d) \/ ProcessFails(d)
    BY <1>1 DEF HandleDelivery
  <2>. QED
    BY <2>1, ProcessStore, ProcessFailsStore
<1>2. CASE Restart
  BY <1>2, RestartStore
<1>3. CASE BusDown \/ BusUp \/ DialFails \/ BackoffOver \/ DialSucceeds \/ ConnectionLost
  BY <1>3, StoreUnchanged
     DEF BusDown, BusUp, DialFails, BackoffOver, DialSucceeds, ConnectionLost, lbVars, storeState
<1>4. ASSUME NEW a \in Readers, ReadBoard(a) \/ Stamp(a) \/ ReadFails(a) \/ Lock(a)
      PROVE  StoreInv'
  BY <1>4, StoreUnchanged DEF ReadBoard, Stamp, ReadFails, Lock, lbVars, storeState
<1>5. ASSUME NEW c \in Screens,
             Evict(c) \/ Connect(c) \/ FirstFrame(c) \/ Show(c) \/ Disconnect(c)
      PROVE  StoreInv'
  BY <1>5, StoreUnchanged DEF Evict, Connect, FirstFrame, Show, Disconnect, lbVars, storeState
<1>7. ASSUME NEW a \in Pushers, Unlock(a) \/ \E c \in Screens : Offer(a, c) \/ OfferAgain(a, c)
      PROVE  StoreInv'
  BY <1>7, StoreUnchanged DEF Unlock, Offer, OfferAgain, lbVars, storeState
<1>6. CASE UNCHANGED vars
  BY <1>6, StoreUnchanged DEF vars, lbVars, storeState
<1>. QED
  BY <1>1, <1>2, <1>3, <1>4, <1>5, <1>6, <1>7 DEF Next

(* The inductive invariant of the read model.                              *)
THEOREM StoreInvariant == Spec => []StoreInv
<1>. QED
  BY InitStoreInv, StoreStep, PTL DEF Spec

(* In whatever order, how often and across how many restarts laps arrive,  *)
(* a driver's best is the fastest lap applied (ApplyLap, ImprovesBest).    *)
THEOREM BestsAreExact == Spec => []BestsExact
<1>1. StoreInv => BestsExact
  BY DEF StoreInv
<1>. QED
  BY <1>1, StoreInvariant, PTL

(* A session's status is what the events applied say, in whatever order    *)
(* they came (ApplySessionStarted, ApplySessionEnded, ensureSession).      *)
THEOREM StatusIsExact == Spec => []StatusExact
<1>1. StoreInv => StatusExact
  BY DEF StoreInv
<1>. QED
  BY <1>1, StoreInvariant, PTL

(* No two bests carry the same ingest number, so the ranking is total:     *)
(* through duplicates, failures and restarts (MaxSeq).                     *)
THEOREM SeqsAreDistinct == Spec => []SeqDistinct
<1>1. StoreInv => SeqDistinct
  BY DEF StoreInv
<1>. QED
  BY <1>1, StoreInvariant, PTL

(***************************************************************************)
(* The board moves when a session is first heard of.                       *)
(***************************************************************************)

(* What a step does to the tables: nothing, or one event applied, after    *)
(* which the consumer pushes if the transaction reports a change.          *)
LEMMA TablesStep ==
  ASSUME StoreInv, [Next]_vars
  PROVE  \/ sessions' = sessions /\ best' = best
         \/ /\ HandleDelivery
            /\ \E e \in Events : Apply(e) /\ inbox' = inbox \cup {e}
<1>1. CASE HandleDelivery
  <2>1. PICK d \in Deliveries : Process(d) \/ ProcessFails(d)
    BY <1>1 DEF HandleDelivery
  <2>2. CASE ProcessFails(d)
    BY <2>2 DEF ProcessFails
  <2>3. CASE Process(d) /\ d.event \in inbox
    BY <2>3 DEF Process
  <2>4. CASE Process(d) /\ d.event \notin inbox
    <3>1. d.event \in Events
      BY HeadReached DEF StoreInv
    <3>. QED
      BY <1>1, <2>4, <3>1 DEF Process
  <2>. QED
    BY <2>1, <2>2, <2>3, <2>4
<1>2. CASE Restart
  BY <1>2 DEF Restart
<1>3. CASE BusDown \/ BusUp \/ DialFails \/ BackoffOver \/ DialSucceeds \/ ConnectionLost
  BY <1>3 DEF BusDown, BusUp, DialFails, BackoffOver, DialSucceeds, ConnectionLost, lbVars
<1>4. ASSUME NEW a \in Readers, ReadBoard(a) \/ Stamp(a) \/ ReadFails(a) \/ Lock(a)
      PROVE  sessions' = sessions /\ best' = best
  BY <1>4 DEF ReadBoard, Stamp, ReadFails, Lock, lbVars
<1>5. ASSUME NEW c \in Screens,
             Evict(c) \/ Connect(c) \/ FirstFrame(c) \/ Show(c) \/ Disconnect(c)
      PROVE  sessions' = sessions /\ best' = best
  BY <1>5 DEF Evict, Connect, FirstFrame, Show, Disconnect, lbVars
<1>6. ASSUME NEW a \in Pushers, Unlock(a) \/ \E c \in Screens : Offer(a, c) \/ OfferAgain(a, c)
      PROVE  sessions' = sessions /\ best' = best
  BY <1>6 DEF Unlock, Offer, OfferAgain, lbVars
<1>7. CASE UNCHANGED vars
  BY <1>7 DEF vars, lbVars
<1>. QED
  BY <1>1, <1>2, <1>3, <1>4, <1>5, <1>6, <1>7 DEF Next

(* The session on the board is the only one with the highest epoch.        *)
LEMMA CurrentIsTop ==
  ASSUME StoreType, EpochInv, NEW s \in Sessions
  PROVE  Current \in Sessions /\ \A t \in Sessions : sessions[t].epoch <= sessions[Current].epoch
<1>1. \E t \in Sessions : \A u \in Sessions : sessions[u].epoch <= sessions[t].epoch
  BY DEF EpochInv
<1>. QED
  BY <1>1 DEF Current

LEMMA CurrentIsTopPrime ==
  ASSUME EpochInv', NEW s \in Sessions
  PROVE  Current' \in Sessions /\ \A t \in Sessions : sessions'[t].epoch <= sessions'[Current'].epoch
<1>1. \E t \in Sessions : \A u \in Sessions : sessions'[u].epoch <= sessions'[t].epoch
  BY DEF EpochInv
<1>. QED
  BY <1>1 DEF Current

LEMMA FirstSightStep ==
  ASSUME StoreInv, StoreInv', [Next]_vars
  PROVE  IF \E s \in Sessions : ~Known(s) /\ Known(s)'
         THEN ~Known(Current') /\ Known(Current)'
         ELSE Current' = Current
<1>1. CASE sessions' = sessions
  <2>1. Current' = Current
    BY <1>1 DEF Current
  <2>. QED
    BY <2>1, <1>1 DEF Known
<1>2. CASE \E e \in Events : Apply(e) /\ inbox' = inbox \cup {e}
  <2>1. PICK e \in Events : Apply(e) /\ inbox' = inbox \cup {e}
    BY <1>2
  <2>2. \A t \in Sessions :
          sessions'[t].epoch = IF t = e.sid /\ ~Known(t) THEN NextEpoch ELSE sessions[t].epoch
    BY <2>1, ApplySessions DEF StoreInv
  <2>3. e.sid \in Sessions
    BY DEF Events
  <2>4. /\ NextEpoch \in Nat
        /\ \A t \in Sessions : sessions[t].epoch \in Nat /\ sessions[t].epoch < NextEpoch
    BY <2>3, NextEpochAbove DEF StoreInv, StoreType, SessionRows
  <2>. DEFINE now == Current
              then == Current'
  <2>5. now \in Sessions /\ \A t \in Sessions : sessions[t].epoch <= sessions[now].epoch
    BY <2>3, CurrentIsTop DEF StoreInv
  <2>6. then \in Sessions /\ \A t \in Sessions : sessions'[t].epoch <= sessions'[then].epoch
    BY <2>3, CurrentIsTopPrime DEF StoreInv
  <2>. HIDE DEF now, then
  <2>7. CASE Known(e.sid)
    <3>1. \A t \in Sessions : sessions'[t].epoch = sessions[t].epoch
      BY <2>2, <2>7
    <3>2. sessions[now].epoch = sessions[then].epoch
      <4>1. sessions[now].epoch <= sessions[then].epoch /\ sessions[then].epoch <= sessions[now].epoch
        BY <3>1, <2>5, <2>6
      <4>2. sessions[now].epoch \in Nat /\ sessions[then].epoch \in Nat
        BY <2>4, <2>5, <2>6
      <4>. QED
        BY <4>1, <4>2
    <3>3. Known(now)
      <4>1. sessions[e.sid].epoch <= sessions[now].epoch /\ sessions[e.sid].epoch # 0
        BY <2>3, <2>5, <2>7 DEF Known
      <4>2. sessions[now].epoch \in Nat /\ sessions[e.sid].epoch \in Nat
        BY <2>3, <2>4, <2>5
      <4>. QED
        BY <4>1, <4>2 DEF Known
    <3>4. now = then
      BY <3>2, <3>3, <2>5, <2>6 DEF StoreInv, EpochInv
    <3>5. ~ \E s \in Sessions : ~Known(s) /\ Known(s)'
      BY <3>1 DEF Known
    <3>. QED
      BY <3>4, <3>5 DEF now, then
  <2>8. CASE ~Known(e.sid)
    <3>1. /\ sessions'[e.sid].epoch = NextEpoch
          /\ \A t \in Sessions : t # e.sid => sessions'[t].epoch = sessions[t].epoch
      BY <2>2, <2>3, <2>8
    <3>2. then = e.sid
      <4>1. sessions'[e.sid].epoch <= sessions'[then].epoch
        BY <2>3, <2>6
      <4>2. then # e.sid => sessions'[then].epoch \in Nat /\ sessions'[then].epoch < NextEpoch
        BY <3>1, <2>4, <2>6
      <4>. QED
        BY <4>1, <4>2, <3>1, <2>4
    <3>3. sessions'[then].epoch # 0
      <4>1. sessions[e.sid].epoch \in Nat /\ sessions[e.sid].epoch < NextEpoch
        BY <2>3, <2>4
      <4>. QED
        BY <4>1, <3>1, <3>2, <2>4
    <3>4. ~Known(Current') /\ Known(Current)'
      BY <3>2, <3>3, <2>8 DEF Known, then
    <3>5. \E s \in Sessions : ~Known(s) /\ Known(s)'
      BY <3>2, <3>3, <2>3, <2>8 DEF Known
    <3>. QED
      BY <3>4, <3>5
  <2>. QED
    BY <2>7, <2>8
<1>. QED
  BY <1>1, <1>2, TablesStep

(* The board goes to a session when it is first heard of, in whatever      *)
(* order sessions are, and in no other step (ensureSession's epoch,        *)
(* CurrentBoard).                                                          *)
THEOREM BoardMovesOnFirstSight == Spec => MovesOnFirstSight
<1>. QED
  BY InitStoreInv, StoreStep, FirstSightStep, PTL DEF Spec, MovesOnFirstSight

(***************************************************************************)
(* The screens.                                                            *)
(***************************************************************************)
IsSeq(q) == \E S : q \in Seq(S)

PushShape ==
  /\ DOMAIN step = Readers
  /\ DOMAIN chan = Screens /\ DOMAIN seen = Screens /\ DOMAIN newest = Screens
  /\ DOMAIN turn = Screens
  /\ \A c \in Screens : IsSeq(chan[c])

LEMMA IsSeqAppend ==
  ASSUME NEW q, IsSeq(q), NEW f
  PROVE  /\ IsSeq(Append(q, f)) /\ Len(Append(q, f)) = Len(q) + 1
         /\ Append(q, f) # <<>> /\ Append(q, f)[Len(Append(q, f))] = f
<1>1. PICK S : q \in Seq(S)
  BY DEF IsSeq
<1>2. q \in Seq(S \cup {f})
  <2>. QED
    BY <1>1
<1>3. Append(q, f) \in Seq(S \cup {f})
  BY <1>2
<1>. QED
  BY <1>2, <1>3 DEF IsSeq

LEMMA IsSeqTail ==
  ASSUME NEW q, IsSeq(q), q # <<>>
  PROVE  /\ IsSeq(Tail(q))
         /\ Tail(q) = <<>> => Head(q) = q[Len(q)]
         /\ Tail(q) # <<>> => Tail(q)[Len(Tail(q))] = q[Len(q)]
<1>1. PICK S : q \in Seq(S)
  BY DEF IsSeq
<1>2. Tail(q) \in Seq(S)
  BY <1>1
<1>3. Len(q) \in Nat /\ Len(q) # 0 /\ Len(Tail(q)) = Len(q) - 1
  BY <1>1
<1>4. Tail(q) = <<>> => Len(q) = 1
  <2>1. Tail(q) = <<>> => Len(Tail(q)) = 0
    BY EmptySeq
  <2>. QED
    BY <2>1, <1>3
<1>5. Tail(q) # <<>> => Len(Tail(q)) \in 1..(Len(q) - 1)
  BY <1>2, <1>3
<1>6. Tail(q) # <<>> => Tail(q)[Len(Tail(q))] = q[Len(Tail(q)) + 1]
  BY <1>1, <1>3, <1>5
<1>. QED
  BY <1>1, <1>2, <1>3, <1>4, <1>6 DEF IsSeq

LEMMA ReadersApart ==
  /\ "consumer" \in Readers /\ "supervisor" \in Readers
  /\ \A c \in Screens : c \in Readers /\ c # "consumer" /\ c # "supervisor"
  /\ \A c \in Screens, a \in Pushers : c # a
BY PushConstantsOK DEF Readers, Pushers

(* The lock is held as long as some screen is not served, no channel is    *)
(* over-full and, between the second and the third select, there is room.  *)
HubInv ==
  /\ HubFree => \A c \in Screens : turn[c] = "done"
  /\ \A c \in Screens : Len(chan[c]) <= Buffer
  /\ \A c \in Screens : turn[c] = "again" => Room(c)

PushInv == PushShape /\ HubInv /\ NewestKept

(* NewestKept, of one screen.                                              *)
Kept(c) ==
  newest[c] # NoFrame /\ turn[c] # "again" =>
    IF chan[c] # <<>> THEN chan[c][Len(chan[c])] = newest[c]
    ELSE step[c] = "stream" /\ seen[c] = newest[c]

LEMMA KeptAll ==
  /\ NewestKept <=> \A c \in Screens : Kept(c)
  /\ NewestKept' <=> \A c \in Screens : Kept(c)'
BY DEF NewestKept, Kept

LEMMA EmptyIsSeq == IsSeq(<<>>) /\ Len(<<>>) = 0
BY EmptySeq DEF IsSeq

LEMMA IsSeqLen ==
  ASSUME NEW q, IsSeq(q)
  PROVE  /\ Len(q) \in Nat
         /\ q = <<>> => Len(q) = 0
         /\ q # <<>> => Len(q) # 0 /\ Len(Tail(q)) = Len(q) - 1
<1>1. PICK S : q \in Seq(S)
  BY DEF IsSeq
<1>. QED
  BY <1>1

LEMMA InitPushInv == Init => PushInv
<1>. SUFFICES ASSUME Init PROVE PushInv
  OBVIOUS
<1>1. PushShape
  BY EmptyIsSeq DEF PushShape, Init
<1>2. HubInv
  BY EmptyIsSeq, PushConstantsOK DEF HubInv, Init
<1>3. NewestKept
  BY DEF NewestKept, Init
<1>. QED
  BY <1>1, <1>2, <1>3 DEF PushInv

(* A step that leaves channels and screens alone, takes no screen off its  *)
(* stream and does not release the hub.                                    *)
LEMMA PushKept ==
  ASSUME PushInv, UNCHANGED <<chan, seen, newest, turn>>,
         NEW a \in Readers, NEW v, step' = [step EXCEPT ![a] = v],
         a \in Screens => step[a] # "stream", a \in Pushers => step[a] # "hub"
  PROVE  PushInv'
<1>1. PushShape'
  BY DEF PushInv, PushShape
<1>2. NewestKept'
  BY DEF PushInv, PushShape, NewestKept, Readers
<1>3. HubFree' => HubFree
  BY DEF HubFree, PushInv, PushShape, Readers
<1>4. HubInv'
  BY <1>3 DEF PushInv, HubInv, Room
<1>. QED
  BY <1>1, <1>2, <1>4 DEF PushInv

(* A step at one screen's channel, which releases nothing.                 *)
LEMMA OneScreen ==
  ASSUME PushInv, NEW c \in Screens, step' = step,
         DOMAIN chan' = Screens, DOMAIN seen' = Screens, DOMAIN newest' = Screens,
         DOMAIN turn' = Screens,
         \A b \in Screens : b # c =>
           /\ chan'[b] = chan[b] /\ seen'[b] = seen[b]
           /\ newest'[b] = newest[b] /\ turn'[b] = turn[b],
         HubFree => turn'[c] = "done",
         IsSeq(chan'[c]), Len(chan'[c]) <= Buffer,
         turn'[c] = "again" => Len(chan'[c]) < Buffer,
         Kept(c)'
  PROVE  PushInv'
<1>1. PushShape'
  BY DEF PushInv, PushShape
<1>2. HubInv'
  <2>1. HubFree' = HubFree
    BY DEF HubFree
  <2>2. \A b \in Screens : Len(chan'[b]) <= Buffer
    BY DEF PushInv, HubInv
  <2>3. \A b \in Screens : turn'[b] = "again" => Len(chan'[b]) < Buffer
    BY DEF PushInv, HubInv, Room
  <2>4. HubFree => \A b \in Screens : turn'[b] = "done"
    BY DEF PushInv, HubInv
  <2>. QED
    BY <2>1, <2>2, <2>3, <2>4 DEF HubInv, Room
<1>3. \A b \in Screens : b # c => Kept(b)'
  BY KeptAll DEF PushInv, Kept
<1>. QED
  BY <1>1, <1>2, <1>3, KeptAll DEF PushInv

(* The selects of broadcast.                                               *)
LEMMA OfferPush ==
  ASSUME PushInv, NEW a \in Pushers, NEW c \in Screens, Offer(a, c)
  PROVE  PushInv'
<1>1. /\ IsSeq(chan[c]) /\ DOMAIN chan = Screens /\ DOMAIN seen = Screens
      /\ DOMAIN newest = Screens /\ DOMAIN turn = Screens /\ Len(chan[c]) <= Buffer
  BY DEF PushInv, PushShape, HubInv
<1>2. step' = step /\ seen' = seen /\ ~HubFree /\ turn[c] = "offer"
  BY DEF Offer, HubFree
<1>3. CASE Room(c)
  <2>1. /\ chan' = [chan EXCEPT ![c] = Append(chan[c], frame[a])]
        /\ newest' = [newest EXCEPT ![c] = frame[a]] /\ turn' = [turn EXCEPT ![c] = "done"]
    BY <1>3 DEF Offer, Served
  <2>2. chan'[c] = Append(chan[c], frame[a]) /\ newest'[c] = frame[a] /\ turn'[c] = "done"
    BY <2>1, <1>1
  <2>3. IsSeq(chan'[c]) /\ Len(chan'[c]) <= Buffer
    BY <2>2, <1>1, <1>3, IsSeqAppend, IsSeqLen, PushConstantsOK DEF Room
  <2>4. Kept(c)'
    BY <2>2, <1>1, IsSeqAppend DEF Kept
  <2>. QED
    BY <2>1, <2>2, <2>3, <2>4, <1>1, <1>2, OneScreen
<1>4. CASE ~Room(c)
  <2>1. chan' = chan /\ newest' = newest /\ turn' = [turn EXCEPT ![c] = "evict"]
    BY <1>4 DEF Offer
  <2>2. turn'[c] = "evict"
    BY <2>1, <1>1
  <2>3. Kept(c)'
    BY <2>1, <2>2, <1>2, KeptAll DEF PushInv, Kept
  <2>. QED
    BY <2>1, <2>2, <2>3, <1>1, <1>2, OneScreen
<1>. QED
  BY <1>3, <1>4

LEMMA EvictPush ==
  ASSUME PushInv, NEW c \in Screens, Evict(c)
  PROVE  PushInv'
<1>1. /\ IsSeq(chan[c]) /\ DOMAIN chan = Screens /\ DOMAIN seen = Screens
      /\ DOMAIN newest = Screens /\ DOMAIN turn = Screens /\ Len(chan[c]) <= Buffer
  BY DEF PushInv, PushShape, HubInv
<1>2. /\ chan' = [chan EXCEPT ![c] = IF chan[c] = <<>> THEN chan[c] ELSE Tail(chan[c])]
      /\ turn' = [turn EXCEPT ![c] = "again"] /\ turn[c] = "evict"
      /\ step' = step /\ seen' = seen /\ newest' = newest
  BY DEF Evict
<1>3. turn'[c] = "again" /\ chan'[c] = IF chan[c] = <<>> THEN chan[c] ELSE Tail(chan[c])
  BY <1>1, <1>2
<1>4. ~HubFree
  BY <1>2 DEF PushInv, HubInv
<1>5. IsSeq(chan'[c])
  BY <1>1, <1>3, IsSeqTail
<1>6. Len(chan'[c]) < Buffer /\ Len(chan'[c]) <= Buffer
  <2>1. Buffer \in Nat /\ Buffer # 0
    BY PushConstantsOK
  <2>2. Len(chan[c]) \in Nat
    BY <1>1, IsSeqLen
  <2>3. CASE chan[c] = <<>>
    BY <2>1, <2>3, <1>1, <1>3, IsSeqLen
  <2>4. CASE chan[c] # <<>>
    <3>1. Len(chan'[c]) = Len(chan[c]) - 1
      BY <2>4, <1>1, <1>3, IsSeqLen
    <3>. QED
      BY <3>1, <2>1, <2>2, <1>1
  <2>. QED
    BY <2>3, <2>4
<1>7. Kept(c)'
  BY <1>3 DEF Kept
<1>. QED
  BY <1>1, <1>2, <1>3, <1>4, <1>5, <1>6, <1>7, OneScreen

LEMMA OfferAgainPush ==
  ASSUME PushInv, NEW a \in Pushers, NEW c \in Screens, OfferAgain(a, c)
  PROVE  PushInv'
<1>1. /\ IsSeq(chan[c]) /\ DOMAIN chan = Screens /\ DOMAIN seen = Screens
      /\ DOMAIN newest = Screens /\ DOMAIN turn = Screens /\ Room(c)
  BY DEF PushInv, PushShape, HubInv, OfferAgain
<1>2. /\ step' = step /\ seen' = seen /\ ~HubFree
      /\ chan' = [chan EXCEPT ![c] = Append(chan[c], frame[a])]
      /\ newest' = [newest EXCEPT ![c] = frame[a]] /\ turn' = [turn EXCEPT ![c] = "done"]
  BY <1>1 DEF OfferAgain, Served, HubFree
<1>3. chan'[c] = Append(chan[c], frame[a]) /\ newest'[c] = frame[a] /\ turn'[c] = "done"
  BY <1>1, <1>2
<1>4. IsSeq(chan'[c]) /\ Len(chan'[c]) <= Buffer
  BY <1>1, <1>3, IsSeqAppend, IsSeqLen, PushConstantsOK DEF Room
<1>5. Kept(c)'
  BY <1>1, <1>3, IsSeqAppend DEF Kept
<1>. QED
  BY <1>1, <1>2, <1>3, <1>4, <1>5, OneScreen

LEMMA ShowPush ==
  ASSUME PushInv, NEW c \in Screens, Show(c)
  PROVE  PushInv'
<1>1. /\ IsSeq(chan[c]) /\ DOMAIN chan = Screens /\ DOMAIN seen = Screens
      /\ DOMAIN newest = Screens /\ DOMAIN turn = Screens
      /\ Len(chan[c]) <= Buffer /\ (turn[c] = "again" => Len(chan[c]) < Buffer)
      /\ (HubFree => turn[c] = "done")
  BY DEF PushInv, PushShape, HubInv, Room
<1>2. /\ chan' = [chan EXCEPT ![c] = Tail(chan[c])] /\ seen' = [seen EXCEPT ![c] = Head(chan[c])]
      /\ step[c] = "stream" /\ step' = step /\ newest' = newest /\ turn' = turn
      /\ chan[c] # <<>>
  BY DEF Show
<1>3. chan'[c] = Tail(chan[c]) /\ seen'[c] = Head(chan[c])
  BY <1>1, <1>2
<1>4. IsSeq(chan'[c])
  BY <1>1, <1>2, <1>3, IsSeqTail
<1>5. Len(chan'[c]) <= Buffer /\ (turn[c] = "again" => Len(chan'[c]) < Buffer)
  <2>1. Buffer \in Nat /\ Len(chan[c]) \in Nat /\ Len(chan'[c]) = Len(chan[c]) - 1
    BY <1>1, <1>2, <1>3, IsSeqLen, PushConstantsOK
  <2>. QED
    BY <2>1, <1>1
<1>6. Kept(c)'
  <2>1. Kept(c)
    BY KeptAll DEF PushInv
  <2>. QED
    BY <2>1, <1>1, <1>2, <1>3, IsSeqTail DEF Kept
<1>. QED
  BY <1>1, <1>2, <1>3, <1>4, <1>5, <1>6, OneScreen

LEMMA PushStep ==
  ASSUME PushInv, [Next]_vars
  PROVE  PushInv'
<1>1. CASE HandleDelivery
  BY <1>1, PushKept, ReadersApart DEF HandleDelivery
<1>2. CASE BusDown \/ BusUp \/ DialFails \/ BackoffOver \/ UNCHANGED vars
  <2>1. UNCHANGED <<step, chan, seen, newest, turn>>
    BY <1>2 DEF BusDown, BusUp, DialFails, BackoffOver, vars, pushVars
  <2>. QED
    BY <2>1 DEF PushInv, PushShape, HubInv, HubFree, Room, NewestKept
<1>3. CASE DialSucceeds \/ ConnectionLost
  BY <1>3, PushKept, ReadersApart DEF DialSucceeds, ConnectionLost, SetState
<1>4. ASSUME NEW a \in Readers, ReadBoard(a) \/ Stamp(a) \/ ReadFails(a)
      PROVE  PushInv'
  BY <1>4, PushKept DEF ReadBoard, Stamp, ReadFails
<1>5. ASSUME NEW a \in Readers, Lock(a)
      PROVE  PushInv'
  <2>1. /\ a \in Pushers /\ HubFree
        /\ step' = [step EXCEPT ![a] = "hub"]
        /\ turn' = [c \in Screens |-> IF Added(c) THEN "offer" ELSE "done"]
        /\ UNCHANGED <<chan, seen, newest>>
    BY <1>5 DEF Lock
  <2>2. \A c \in Screens : turn'[c] # "again" /\ turn[c] = "done" /\ step'[c] = step[c]
    BY <2>1, ReadersApart DEF PushInv, HubInv, PushShape
  <2>3. PushShape'
    BY <2>1 DEF PushInv, PushShape
  <2>4. step'[a] = "hub"
    BY <2>1 DEF PushInv, PushShape
  <2>5. HubInv'
    BY <2>1, <2>2, <2>4 DEF PushInv, HubInv, HubFree
  <2>6. NewestKept'
    BY <2>1, <2>2 DEF PushInv, NewestKept
  <2>. QED
    BY <2>3, <2>5, <2>6 DEF PushInv
<1>6. ASSUME NEW a \in Pushers, Unlock(a)
      PROVE  PushInv'
  <2>1. /\ step' = [step EXCEPT ![a] = "idle"]
        /\ UNCHANGED <<chan, seen, newest, turn>>
        /\ \A c \in Screens : turn[c] = "done"
    BY <1>6 DEF Unlock
  <2>2. \A c \in Screens : step'[c] = step[c]
    BY <2>1, ReadersApart DEF PushInv, PushShape
  <2>3. PushShape'
    BY <2>1 DEF PushInv, PushShape
  <2>4. HubInv'
    BY <2>1 DEF PushInv, HubInv
  <2>5. NewestKept'
    BY <2>1, <2>2 DEF PushInv, NewestKept
  <2>. QED
    BY <2>3, <2>4, <2>5 DEF PushInv
<1>7. ASSUME NEW a \in Pushers, NEW c \in Screens, Offer(a, c) \/ OfferAgain(a, c)
      PROVE  PushInv'
  BY <1>7, OfferPush, OfferAgainPush
<1>8. ASSUME NEW c \in Screens, Evict(c) \/ Show(c)
      PROVE  PushInv'
  BY <1>8, EvictPush, ShowPush
<1>9. ASSUME NEW c \in Screens, Connect(c)
      PROVE  PushInv'
  BY <1>9, PushKept, ReadersApart DEF Connect
<1>10. ASSUME NEW c \in Screens, FirstFrame(c)
      PROVE  PushInv'
  <2>1. /\ step[c] = "send" /\ step' = [step EXCEPT ![c] = "stream"]
        /\ seen' = [seen EXCEPT ![c] = frame[c]] /\ UNCHANGED <<chan, newest, turn>>
    BY <1>10 DEF FirstFrame
  <2>2. PushShape'
    BY <2>1 DEF PushInv, PushShape
  <2>3. HubFree' => HubFree
    BY <2>1, ReadersApart DEF HubFree, PushInv, PushShape
  <2>4. HubInv'
    BY <2>1, <2>3 DEF PushInv, HubInv, Room
  <2>5. NewestKept'
    BY <2>1, ReadersApart DEF PushInv, PushShape, NewestKept
  <2>. QED
    BY <2>2, <2>4, <2>5 DEF PushInv
<1>11. ASSUME NEW c \in Screens, Disconnect(c)
      PROVE  PushInv'
  <2>1. /\ HubFree /\ step' = [step EXCEPT ![c] = "idle"] /\ turn' = turn
        /\ chan' = [chan EXCEPT ![c] = <<>>] /\ seen' = [seen EXCEPT ![c] = NoFrame]
        /\ newest' = [newest EXCEPT ![c] = NoFrame]
    BY <1>11 DEF Disconnect
  <2>2. PushShape'
    BY <2>1, EmptyIsSeq DEF PushInv, PushShape
  <2>3. \A b \in Screens : turn'[b] = "done"
    BY <2>1 DEF PushInv, HubInv
  <2>4. \A b \in Screens : chan'[b] = chan[b] \/ chan'[b] = <<>>
    BY <2>1 DEF PushInv, PushShape
  <2>5. HubInv'
    BY <2>3, <2>4, EmptyIsSeq, PushConstantsOK DEF PushInv, HubInv
  <2>6. NewestKept'
    BY <2>1, ReadersApart DEF PushInv, PushShape, NewestKept
  <2>. QED
    BY <2>2, <2>5, <2>6 DEF PushInv
<1>12. CASE Restart
  <2>1. PushShape'
    BY <1>12, EmptyIsSeq DEF Restart, ProcessStart, PushShape
  <2>2. HubInv'
    BY <1>12, EmptyIsSeq, PushConstantsOK DEF Restart, ProcessStart, HubInv
  <2>3. NewestKept'
    BY <1>12 DEF Restart, ProcessStart, NewestKept
  <2>. QED
    BY <2>1, <2>2, <2>3 DEF PushInv
<1>. QED
  BY <1>1, <1>2, <1>3, <1>4, <1>5, <1>6, <1>7, <1>8, <1>9, <1>10, <1>11, <1>12 DEF Next

(* A screen, however slow, ends on the last frame broadcast to it: the hub *)
(* drops the oldest frame of a full channel, and finds room for the new    *)
(* one although the screen reads meanwhile (hub.broadcast).                *)
THEOREM ScreensKeepNewest == Spec => []NewestKept
<1>1. PushInv => NewestKept
  BY DEF PushInv
<1>. QED
  BY <1>1, InitPushInv, PushStep, PTL DEF Spec

(***************************************************************************)
(* A change the spectators can see is pushed.                              *)
(***************************************************************************)
LEMMA SameTablesSameBoard ==
  ASSUME sessions' = sessions, best' = best
  PROVE  CurrentBoard' = CurrentBoard
<1>1. Current' = Current
  BY DEF Current
<1>2. \A s : Rank(s)' = Rank(s)
  BY DEF Rank, Ranked
<1>3. \A s : Known(s)' = Known(s)
  BY DEF Known
<1>. QED
  BY <1>1, <1>2, <1>3 DEF CurrentBoard

(* An event that is reported as not applied has changed nothing: no guard  *)
(* turns a visible change away.                                            *)
LEMMA SilentApply ==
  ASSUME StoreType, NEW e \in Events, Apply(e), ~notify'
  PROVE  sessions' = sessions /\ best' = best
<1>1. e.sid \in Sessions /\ sessions \in [Sessions -> SessionRows]
  BY DEF Events, StoreType
<1>2. CASE e.type = "lap.recorded"
  <2>1. ApplyLap(e)
    BY <1>2 DEF Apply
  <2>2. ~ImprovesBest(best[e.sid][e.racer], e.ms) /\ Known(e.sid)
    BY <2>1 DEF ApplyLap
  <2>3. sessions' = [sessions EXCEPT ![e.sid] = sessions[e.sid]]
    BY <2>1, <2>2 DEF ApplyLap, ensureSession
  <2>4. sessions' = sessions
    BY <2>3, <1>1
  <2>. QED
    BY <2>1, <2>2, <2>4 DEF ApplyLap
<1>3. CASE e.type = "session.started"
  <2>1. Known(e.sid) /\ ~StartMatches(sessions[e.sid]) /\ best' = best
    BY <1>3 DEF Apply, ApplySessionStarted
  <2>2. sessions' = [sessions EXCEPT ![e.sid] = sessions[e.sid]]
    BY <2>1, <1>3 DEF Apply, ApplySessionStarted, ensureSession
  <2>. QED
    BY <2>1, <2>2, <1>1
<1>4. CASE e.type = "session.ended"
  <2>1. Known(e.sid) /\ ~EndMatches(sessions[e.sid]) /\ best' = best
    BY <1>4 DEF Apply, ApplySessionEnded
  <2>2. sessions' = [sessions EXCEPT ![e.sid] = sessions[e.sid]]
    BY <2>1, <1>4 DEF Apply, ApplySessionEnded, ensureSession
  <2>. QED
    BY <2>1, <2>2, <1>1
<1>. QED
  BY <1>2, <1>3, <1>4 DEF Apply

LEMMA BoardStep ==
  ASSUME StoreInv, [Next]_vars
  PROVE  CurrentBoard' = CurrentBoard \/ (HandleDelivery /\ notify')
<1>1. CASE sessions' = sessions /\ best' = best
  BY <1>1, SameTablesSameBoard
<1>2. CASE HandleDelivery /\ ~notify' /\ \E e \in Events : Apply(e)
  <2>1. sessions' = sessions /\ best' = best
    BY <1>2, SilentApply DEF StoreInv
  <2>. QED
    BY <2>1, SameTablesSameBoard
<1>. QED
  BY <1>1, <1>2, TablesStep

(* A push that began alone and was joined by none carries the board as it  *)
(* is stored, from the read to the broadcast.                              *)
Carries(a) ==
  /\ step[a] = "stamp" => got[a] = CurrentBoard
  /\ step[a] = "send" => frame[a].board = CurrentBoard
  /\ step[a] = "hub" => last.board = CurrentBoard

CatchInv ==
  /\ DOMAIN step = Readers /\ DOMAIN got = Readers /\ DOMAIN frame = Readers
  /\ alone => /\ step["consumer"] = "idle" \/ step["supervisor"] = "idle"
              /\ \A a \in Pushers : Carries(a)
  /\ BoardsCatchUp

LEMMA InitCatchInv == Init => CatchInv
<1>. SUFFICES ASSUME Init PROVE CatchInv
  OBVIOUS
<1>1. /\ DOMAIN step = Readers /\ DOMAIN got = Readers /\ DOMAIN frame = Readers
      /\ last.none /\ \A a \in Pushers : step[a] = "idle"
  BY DEF Init, NoFrame, Readers
<1>. QED
  BY <1>1 DEF CatchInv, Carries, BoardsCatchUp, Pushers

(* A step that touches neither pusher, nor the board.                      *)
LEMMA CatchKept ==
  ASSUME CatchInv, CurrentBoard' = CurrentBoard, alone' = alone, last' = last,
         DOMAIN step' = Readers, DOMAIN got' = Readers, DOMAIN frame' = Readers,
         \A a \in Pushers : step'[a] = step[a] /\ got'[a] = got[a] /\ frame'[a] = frame[a]
  PROVE  CatchInv'
BY DEF CatchInv, Carries, BoardsCatchUp, Pushers

(* A push begins.                                                          *)
LEMMA PushBegins ==
  ASSUME CatchInv, NEW a \in Pushers, NEW b \in Pushers, a # b,
         step' = [step EXCEPT ![a] = "read"], alone' = (step[b] = "idle"),
         got' = got, frame' = frame
  PROVE  CatchInv'
<1>1. a \in Readers /\ b \in Readers /\ Pushers = {a, b}
  BY DEF Readers, Pushers
<1>2. DOMAIN step' = Readers /\ step'[a] = "read" /\ step'[b] = step[b]
  BY <1>1 DEF CatchInv
<1>3. BoardsCatchUp'
  BY <1>2 DEF BoardsCatchUp
<1>4. ASSUME alone'
      PROVE  /\ step'["consumer"] = "idle" \/ step'["supervisor"] = "idle"
             /\ Carries(a)' /\ Carries(b)'
  <2>1. step'[b] = "idle"
    BY <1>2, <1>4
  <2>2. Carries(a)' /\ Carries(b)'
    BY <1>2, <2>1 DEF Carries
  <2>. QED
    BY <2>1, <2>2, <1>1 DEF Pushers
<1>5. DOMAIN got' = Readers /\ DOMAIN frame' = Readers
  BY DEF CatchInv
<1>. QED
  BY <1>1, <1>2, <1>3, <1>4, <1>5 DEF CatchInv

(* A push under way goes on.                                               *)
LEMMA PushGoesOn ==
  ASSUME CatchInv, NEW a \in Pushers, step[a] # "idle", NEW v, v # "idle",
         step' = [step EXCEPT ![a] = v], alone' => alone,
         DOMAIN got' = Readers, DOMAIN frame' = Readers,
         alone' => Carries(a)'
  PROVE  CatchInv'
<1>1. a \in Readers
  BY DEF Readers
<1>2. DOMAIN step' = Readers /\ step'[a] = v /\ \A b \in Pushers : b # a => step'[b] = step[b]
  BY <1>1 DEF CatchInv, Readers
<1>3. BoardsCatchUp'
  BY <1>2 DEF BoardsCatchUp
<1>4. ASSUME alone', NEW b \in Pushers, b # a PROVE step'[b] = "idle" /\ Carries(b)'
  <2>1. step[b] = "idle"
    BY <1>4 DEF CatchInv, Pushers
  <2>. QED
    BY <2>1, <1>2, <1>4 DEF Carries
<1>5. alone' => step'["consumer"] = "idle" \/ step'["supervisor"] = "idle"
  BY <1>4 DEF Pushers
<1>. QED
  BY <1>2, <1>3, <1>4, <1>5 DEF CatchInv

LEMMA CatchDelivery ==
  ASSUME StoreInv, CatchInv, HandleDelivery
  PROVE  CatchInv'
<1>1. /\ step["consumer"] = "idle" /\ got' = got /\ frame' = frame /\ last' = last
      /\ step' = [step EXCEPT !["consumer"] = IF notify' THEN "read" ELSE "idle"]
      /\ alone' = IF notify' THEN step["supervisor"] = "idle" ELSE alone
  BY DEF HandleDelivery
<1>2. CASE notify'
  <2>1. "consumer" \in Pushers /\ "supervisor" \in Pushers /\ "consumer" # "supervisor"
    BY DEF Pushers
  <2>2. step' = [step EXCEPT !["consumer"] = "read"] /\ alone' = (step["supervisor"] = "idle")
    BY <1>1, <1>2
  <2>. QED
    BY <2>1, <2>2, <1>1, PushBegins
<1>3. CASE ~notify'
  <2>1. CurrentBoard' = CurrentBoard
    BY <1>3, BoardStep DEF Next
  <2>2. step' = [step EXCEPT !["consumer"] = "idle"] /\ alone' = alone
    BY <1>1, <1>3
  <2>3. DOMAIN step' = Readers /\ \A a \in Pushers : step'[a] = step[a]
    BY <2>2, <1>1, ReadersApart DEF CatchInv, Pushers
  <2>. QED
    BY <2>1, <2>2, <2>3, <1>1, CatchKept DEF CatchInv
<1>. QED
  BY <1>2, <1>3

(* The three readers' steps, of a pusher and of a screen.                  *)
LEMMA CatchRead ==
  ASSUME CatchInv, NEW a \in Readers, ReadBoard(a) \/ Stamp(a) \/ ReadFails(a),
         CurrentBoard' = CurrentBoard
  PROVE  CatchInv'
<1>1. /\ last' = last /\ step[a] \in {"read", "stamp"}
      /\ DOMAIN got' = Readers /\ DOMAIN frame' = Readers /\ DOMAIN step' = Readers
      /\ \A b \in Readers : b # a =>
           got'[b] = got[b] /\ frame'[b] = frame[b] /\ step'[b] = step[b]
  BY DEF ReadBoard, Stamp, ReadFails, CatchInv
<1>2. CASE a \in Screens
  <2>1. alone' = alone
    <3>1. a \notin Pushers
      BY <1>2, ReadersApart
    <3>. QED
      BY <3>1 DEF ReadBoard, Stamp, ReadFails
  <2>2. \A b \in Pushers : b \in Readers /\ b # a
    BY <1>2, ReadersApart DEF Readers
  <2>. QED
    BY <2>1, <2>2, <1>1, CatchKept
<1>3. CASE a \in Pushers
  <2>1. CASE ReadBoard(a)
    <3>1. step' = [step EXCEPT ![a] = "stamp"] /\ alone' = alone /\ got'[a] = CurrentBoard
      BY <2>1 DEF ReadBoard, CatchInv
    <3>2. Carries(a)'
      BY <3>1 DEF Carries, CatchInv
    <3>. QED
      BY <3>1, <3>2, <1>1, <1>3, PushGoesOn
  <2>2. CASE Stamp(a)
    <3>1. /\ step' = [step EXCEPT ![a] = "send"] /\ alone' = alone /\ step[a] = "stamp"
          /\ frame'[a] = Frame(got[a], connected)
      BY <2>2 DEF Stamp, CatchInv
    <3>2. alone => got[a] = CurrentBoard
      BY <3>1, <1>3 DEF CatchInv, Carries
    <3>3. alone' => Carries(a)'
      BY <3>1, <3>2 DEF Carries, CatchInv, Frame
    <3>. QED
      BY <3>1, <3>3, <1>1, <1>3, PushGoesOn
  <2>3. CASE ReadFails(a)
    <3>1. step' = [step EXCEPT ![a] = "send"] /\ ~alone'
      BY <2>3, <1>3 DEF ReadFails
    <3>. QED
      BY <3>1, <1>1, <1>3, PushGoesOn
  <2>. QED
    BY <2>1, <2>2, <2>3
<1>. QED
  BY <1>2, <1>3 DEF Readers

LEMMA CatchStep ==
  ASSUME StoreInv, CatchInv, [Next]_vars
  PROVE  CatchInv'
<1>1. CASE HandleDelivery
  BY <1>1, CatchDelivery
<1>. SUFFICES ASSUME ~HandleDelivery, CurrentBoard' = CurrentBoard PROVE CatchInv'
  BY <1>1, BoardStep
<1>2. CASE BusDown \/ BusUp \/ DialFails \/ BackoffOver \/ UNCHANGED vars
  <2>1. UNCHANGED <<step, got, frame, last, alone>>
    BY <1>2 DEF BusDown, BusUp, DialFails, BackoffOver, vars, pushVars
  <2>. QED
    BY <2>1, CatchKept DEF CatchInv
<1>3. CASE DialSucceeds \/ ConnectionLost
  <2>1. /\ step' = [step EXCEPT !["supervisor"] = "read"] /\ alone' = (step["consumer"] = "idle")
        /\ got' = got /\ frame' = frame
    BY <1>3 DEF DialSucceeds, ConnectionLost, SetState
  <2>2. "consumer" \in Pushers /\ "supervisor" \in Pushers /\ "consumer" # "supervisor"
    BY DEF Pushers
  <2>. QED
    BY <2>1, <2>2, PushBegins
<1>4. ASSUME NEW a \in Readers, ReadBoard(a) \/ Stamp(a) \/ ReadFails(a)
      PROVE  CatchInv'
  BY <1>4, CatchRead
<1>5. ASSUME NEW a \in Readers, Lock(a)
      PROVE  CatchInv'
  <2>1. /\ a \in Pushers /\ step[a] = "send" /\ step' = [step EXCEPT ![a] = "hub"]
        /\ last' = frame[a] /\ UNCHANGED <<got, frame, alone>>
    BY <1>5 DEF Lock
  <2>2. alone' => Carries(a)'
    BY <2>1 DEF CatchInv, Carries
  <2>. QED
    BY <2>1, <2>2, PushGoesOn DEF CatchInv
<1>6. ASSUME NEW a \in Pushers, Unlock(a)
      PROVE  CatchInv'
  <2>1. /\ step[a] = "hub" /\ step' = [step EXCEPT ![a] = "idle"]
        /\ frame' = [frame EXCEPT ![a] = NoFrame] /\ UNCHANGED <<got, last, alone>>
    BY <1>6 DEF Unlock
  <2>2. a \in Readers /\ DOMAIN step' = Readers /\ DOMAIN frame' = Readers /\ DOMAIN got' = Readers
    BY <2>1 DEF CatchInv, Readers
  <2>3. step'[a] = "idle" /\ \A b \in Pushers : b # a => step'[b] = step[b] /\ frame'[b] = frame[b]
    BY <2>1, <2>2 DEF CatchInv, Readers
  <2>4. alone => last.board = CurrentBoard
    BY <2>1 DEF CatchInv, Carries
  <2>5. BoardsCatchUp'
    BY <2>1, <2>4 DEF BoardsCatchUp
  <2>6. alone => \A b \in Pushers : Carries(b)'
    BY <2>1, <2>3 DEF CatchInv, Carries
  <2>7. step'["consumer"] = "idle" \/ step'["supervisor"] = "idle"
    BY <2>3 DEF Pushers
  <2>. QED
    BY <2>1, <2>2, <2>5, <2>6, <2>7 DEF CatchInv
<1>7. ASSUME NEW a \in Pushers, NEW c \in Screens, Offer(a, c) \/ OfferAgain(a, c)
      PROVE  CatchInv'
  <2>1. UNCHANGED <<step, got, frame, last, alone>>
    BY <1>7 DEF Offer, OfferAgain
  <2>. QED
    BY <2>1, CatchKept DEF CatchInv
<1>8. ASSUME NEW c \in Screens,
             Evict(c) \/ Connect(c) \/ FirstFrame(c) \/ Show(c) \/ Disconnect(c)
      PROVE  CatchInv'
  <2>1. /\ UNCHANGED <<got, last, alone>>
        /\ frame' = frame \/ frame' = [frame EXCEPT ![c] = NoFrame]
        /\ step' = step \/ \E v : step' = [step EXCEPT ![c] = v]
    BY <1>8 DEF Evict, Connect, FirstFrame, Show, Disconnect
  <2>2. /\ DOMAIN step' = Readers /\ DOMAIN frame' = Readers /\ DOMAIN got' = Readers
        /\ \A a \in Pushers : step'[a] = step[a] /\ frame'[a] = frame[a]
    BY <2>1, ReadersApart DEF CatchInv, Readers
  <2>. QED
    BY <2>1, <2>2, CatchKept
<1>9. CASE Restart
  <2>1. /\ DOMAIN step' = Readers /\ DOMAIN got' = Readers /\ DOMAIN frame' = Readers
        /\ last'.none /\ \A a \in Pushers : step'[a] = "idle"
    BY <1>9 DEF Restart, ProcessStart, NoFrame, Readers
  <2>. QED
    BY <2>1 DEF CatchInv, Carries, BoardsCatchUp, Pushers
<1>. QED
  BY <1>1, <1>2, <1>3, <1>4, <1>5, <1>6, <1>7, <1>8, <1>9 DEF Next

(* No visible change is turned away by the guards of the tables' updates   *)
(* or goes without a push: with none under way the last frame broadcast    *)
(* shows the board as it is stored, unless a read failed or two pushes     *)
(* overlapped (Apply*, Notify, Server.Publish).                            *)
THEOREM ScreensCatchUp == Spec => []BoardsCatchUp
<1>1. CatchInv => BoardsCatchUp
  BY DEF CatchInv
<1>. QED
  BY <1>1, InitStoreInv, StoreStep, InitCatchInv, CatchStep, PTL DEF Spec
=============================================================================
