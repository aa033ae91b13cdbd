---------------------------- MODULE Leaderboard -----------------------------
(***************************************************************************)
(* The Leaderboard's read model: sessions in the order in which they were  *)
(* first seen, and each driver's best lap in each of them.  Events come    *)
(* off one queue, one at a time, each applied in one transaction with its  *)
(* inbox row (services/leaderboard/internal/consumer, persistence,         *)
(* domain/standings.go).                                                   *)
(*                                                                         *)
(* The feed is what Timing's relay publishes; a message whose handling     *)
(* fails waits in the retry queue and comes back at any later time, so the *)
(* feed is read out of order.  An event is its own envelope id.            *)
(***************************************************************************)
EXTENDS Naturals, Sequences, FiniteSets

CONSTANTS Feeds,       \* the sequences of events to try
          Sessions,    \* session ids
          Racers,      \* masterIds
          MaxFaults,   \* bound on failures and lost acks
          MaxAttempts  \* Policy.MaxAttempts

Types == {"session.started", "lap.recorded", "session.ended"}

ASSUME FeedOK ==
  /\ Sessions \subseteq Nat
  /\ \A f \in Feeds :
       /\ f \in Seq([type : Types, sid : Sessions, racer : Racers, ms : Nat, at : Nat])
       /\ \A i, j \in DOMAIN f : f[i] = f[j] => i = j
       /\ \A i \in DOMAIN f : f[i].type = "lap.recorded" => f[i].ms > 0
  /\ MaxFaults \in Nat
  /\ MaxAttempts \in Nat \ {0}

(* Timing enqueues a session's events in the order of their times, and its *)
(* relay publishes the pending rows in that order (outbox.go,              *)
(* FetchPending).  The times are virtual, so the events of two sessions    *)
(* that wait together for the bus come in any mixture.                     *)
ASSUME FeedInOrder ==
  \A f \in Feeds : \A i, j \in DOMAIN f :
    i < j /\ f[i].sid = f[j].sid => f[i].at <= f[j].at

VARIABLES
  feed,      \* what Timing publishes
  next,      \* place in the feed of the message at the head of the queue
  retrying,  \* the messages that failed, with the attempts spent on each
  inbox,     \* events applied
  sessions,  \* the sessions table: epoch (0: no row), status and timestamps
  best,      \* the standings table: ms (0: no row), at and seq
  seq,       \* the handler's ingest sequence
  notify,    \* the handler is in Notify, pushing the change it applied
  parked,    \* the parking queue
  faults,    \* failures and lost acks so far
  overtaken  \* history: some message was put off, so others overtook it

lbVars == <<feed, next, retrying, inbox, sessions, best, seq, notify, parked, faults, overtaken>>

NoSession == [epoch |-> 0, status |-> "none", started |-> FALSE, ended |-> FALSE]
NoBest == [ms |-> 0, at |-> 0, seq |-> 0]

LeaderboardInit ==
  /\ feed \in Feeds
  /\ next = 1
  /\ retrying = {}
  /\ inbox = {}
  /\ sessions = [s \in Sessions |-> NoSession]
  /\ best = [s \in Sessions |-> [r \in Racers |-> NoBest]]
  /\ seq = 0
  /\ notify = FALSE
  /\ parked = {}
  /\ faults = 0
  /\ overtaken = FALSE

(***************************************************************************)
(* The tables.                                                             *)
(***************************************************************************)
MaxOf(S) == IF S = {} THEN 0 ELSE CHOOSE m \in S : \A k \in S : k <= m
Known(s) == sessions[s].epoch # 0
(* The mutant numbers a session by those that have ended.                  *)
EpochByEnded == Cardinality({s \in Sessions : sessions[s].ended}) + 1

NextEpoch == MaxOf({sessions[s].epoch : s \in Sessions}) + 1
MaxSeq == MaxOf({best[s][r].seq : s \in Sessions, r \in Racers})

ensureSession(s, status, started, ended) ==
  IF Known(s) THEN sessions[s]
  ELSE [epoch |-> NextEpoch, status |-> status, started |-> started, ended |-> ended]

(* The mutant lets an equal lap take the place of the best.                *)
ImprovesOrEquals(prev, ms) == prev = NoBest \/ ms <= prev.ms

ImprovesBest(prev, ms) == prev = NoBest \/ ms < prev.ms

(***************************************************************************)
(* Each Apply: the change, and what the transaction reports as applied.  A *)
(* known session is reconciled by a guarded UPDATE, which reports the rows *)
(* that match its WHERE clause, changed or not.                            *)
(***************************************************************************)
ApplyLap(e) ==
  LET improved == ImprovesBest(best[e.sid][e.racer], e.ms) IN
  /\ sessions' = [sessions EXCEPT ![e.sid] = ensureSession(e.sid, "implicit", FALSE, FALSE)]
  /\ best' = IF improved
             THEN [best EXCEPT ![e.sid][e.racer] = [ms |-> e.ms, at |-> e.at, seq |-> seq']]
             ELSE best
  /\ notify' = (improved \/ ~Known(e.sid))

(* The mutant's UPDATE matches only while the session is not finished.     *)
StartMatchesOpen(row) == row.status # "finished"

StartMatches(row) == row.status = "implicit" \/ ~row.started

Reconciled(row) ==
  [row EXCEPT !.status = IF row.status = "implicit" THEN "active" ELSE row.status,
              !.started = TRUE]

ApplySessionStarted(e) ==
  /\ sessions' = [sessions EXCEPT ![e.sid] =
       IF Known(e.sid) /\ StartMatches(@)
       THEN Reconciled(@)
       ELSE ensureSession(e.sid, "active", TRUE, FALSE)]
  /\ best' = best
  /\ notify' = (~Known(e.sid) \/ StartMatches(sessions[e.sid]))

EndMatches(row) == row.status # "finished" \/ ~row.ended

(* The mutant reports a change only for a session it had not seen.         *)
EndUnreported(e) ==
  /\ sessions' = [sessions EXCEPT ![e.sid] =
       IF Known(e.sid) /\ EndMatches(@)
       THEN [@ EXCEPT !.status = "finished", !.ended = TRUE]
       ELSE ensureSession(e.sid, "finished", FALSE, TRUE)]
  /\ best' = best
  /\ notify' = ~Known(e.sid)

ApplySessionEnded(e) ==
  /\ sessions' = [sessions EXCEPT ![e.sid] =
       IF Known(e.sid) /\ EndMatches(@)
       THEN [@ EXCEPT !.status = "finished", !.ended = TRUE]
       ELSE ensureSession(e.sid, "finished", FALSE, TRUE)]
  /\ best' = best
  /\ notify' = (~Known(e.sid) \/ EndMatches(sessions[e.sid]))

Apply(e) ==
  \/ e.type = "lap.recorded" /\ ApplyLap(e)
  \/ e.type = "session.started" /\ ApplySessionStarted(e)
  \/ e.type = "session.ended" /\ ApplySessionEnded(e)

(***************************************************************************)
(* The handler.  A delivery is the head of the queue or comes back from    *)
(* the retry queue; every lap handled, a duplicate too, takes an ingest    *)
(* number.                                                                 *)
(***************************************************************************)
Fault == faults < MaxFaults /\ faults' = faults + 1

Deliveries ==
  retrying \cup (IF next <= Len(feed) THEN {[event |-> feed[next], tries |-> 0]} ELSE {})

IsHead(d) == d \notin retrying

Remove(d) ==
  /\ next' = IF IsHead(d) THEN next + 1 ELSE next
  /\ retrying' = retrying \ {d}

Ack(d) ==
  \/ Remove(d) /\ UNCHANGED faults
  \/ Fault /\ UNCHANGED <<next, retrying>>

TakeSeq(d) == seq' = IF d.event.type = "lap.recorded" THEN seq + 1 ELSE seq

Process(d) ==
  /\ ~notify
  /\ TakeSeq(d)
  /\ IF d.event \in inbox
     THEN UNCHANGED <<inbox, sessions, best, notify>>
     ELSE Apply(d.event) /\ inbox' = inbox \cup {d.event}
  /\ Ack(d)
  /\ UNCHANGED <<feed, parked, overtaken>>

ProcessFails(d) ==
  /\ ~notify
  /\ Fault
  /\ TakeSeq(d)
  /\ IF d.tries + 1 >= MaxAttempts
     THEN parked' = parked \cup {d.event} /\ Remove(d)
     ELSE /\ next' = IF IsHead(d) THEN next + 1 ELSE next
          /\ retrying' = (retrying \ {d}) \cup {[d EXCEPT !.tries = @ + 1]}
          /\ UNCHANGED parked
  /\ overtaken' = TRUE
  /\ UNCHANGED <<feed, inbox, sessions, best, notify>>

(***************************************************************************)
(* What the board shows: the session with the highest epoch, its drivers   *)
(* by best lap, then by the moment it was set, then by ingest order.       *)
(***************************************************************************)
Ranked(s) == {r \in Racers : best[s][r] # NoBest}

Before(a, b) ==
  \/ a.ms < b.ms
  \/ a.ms = b.ms /\ a.at < b.at
  \/ a.ms = b.ms /\ a.at = b.at /\ a.seq < b.seq

Rank(s) ==
  [r \in Ranked(s) |->
     [position |-> 1 + Cardinality({q \in Ranked(s) : Before(best[s][q], best[s][r])}),
      ms |-> best[s][r].ms]]

Shown(status) == IF status = "implicit" THEN "active" ELSE status

Waiting == [sid |-> 0, status |-> "none", rows |-> <<>>]

Current == CHOOSE s \in Sessions : \A t \in Sessions : sessions[t].epoch <= sessions[s].epoch

CurrentBoard ==
  IF \E s \in Sessions : Known(s)
  THEN [sid |-> Current, status |-> Shown(sessions[Current].status), rows |-> Rank(Current)]
  ELSE Waiting
=============================================================================
