----------------------------- MODULE TimingRun ------------------------------
(***************************************************************************)
(* Simulator.Run (services/timing/internal/simulator): register the        *)
(* drivers, then session after session; write the held scans, push each    *)
(* event through the outbox, run the side effect tied to its type, and in  *)
(* the gap reconcile the crossings that came out of session.               *)
(*                                                                         *)
(* Every call that writes (Enqueue, ObserveLap, OpenOutage, CloseOutage,   *)
(* Record, Assign) is a transaction of its own and one step here.  Between *)
(* any two of them the process may die, or its context may be cancelled,   *)
(* after which every call fails and Run returns: the same to the database. *)
(* Beside Run the consumer of driver.pr_updated writes the records that    *)
(* Driver confirms over the local ones (internal/consumer/pr_refresh.go).  *)
(***************************************************************************)
EXTENDS SimSession

CONSTANTS SessionSpan,  \* wall time between the bases of two sessions
          Confirmed,    \* the driver.pr_updated there may be: driver and record,
                        \* of this day or another
          MaxSessions,  \* bound on the sessions generated
          MaxStops      \* bound on stops and failed calls

ASSUME RunConstantsOK ==
  /\ SessionSpan \in Nat \ {0} /\ MaxSessions \in Nat /\ MaxStops \in Nat
  /\ Confirmed \subseteq Drivers \X (Nat \ {0})

VARIABLES
  proc,      \* the process is running
  pc,        \* where Run is
  prepared,  \* drivers that Prepare has registered
  stage,     \* "session", or "recon" for the reconciled one
  todo,      \* events still to emit, the one in progress included
  heldTodo,  \* held scans still to record
  st,        \* runState
  beaten,    \* the record that the lap in progress beat
  k,         \* sessions generated so far
  crossed,   \* history: the crossings of the normal session in hand
  log,       \* history: the outbox rows since, in production order
  prs,       \* durable: driver_prs, 0 where there is no row
  outages,   \* durable: scanner_outages, by row id
  heldRows,  \* durable: held_line_scans
  tpMap,     \* durable: transponder_map, 0 where there is no row
  known,     \* history: each driver's fastest record announced or confirmed, 0: none
  cutOff,    \* history: the drivers whose break some stop kept from being announced
  stops      \* stops and failed calls so far

volatile == <<pc, prepared, stage, todo, heldTodo, st, beaten>>
durable == <<prs, outages, heldRows, tpMap>>
past == <<known, cutOff>>
vars == <<proc, volatile, k, crossed, log, durable, past, stops>>

Sid(n) == 2 * n          \* the session generated as number n
Oos(n) == 2 * n + 1      \* the reconciled session after it
NoSid == 0
Base(n) == n * SessionSpan

NewRunState == [sid |-> NoSid, outage |-> 0, active |-> FALSE, lastEnded |-> 0]

(* The histories are of the session in hand.                               *)
NewHistory == crossed' = <<>> /\ log' = <<>>

(* The volatile state of a process that runs no simulator.                 *)
Forget(at) ==
  /\ pc' = at
  /\ prepared' = 0
  /\ stage' = "session"
  /\ todo' = <<>>
  /\ heldTodo' = <<>>
  /\ st' = NewRunState
  /\ beaten' = NoLap
  /\ NewHistory

Init ==
  /\ proc = "down"
  /\ pc = "stopped" /\ prepared = 0 /\ stage = "session"
  /\ todo = <<>> /\ heldTodo = <<>> /\ st = NewRunState /\ beaten = NoLap
  /\ k = 0
  /\ crossed = <<>>
  /\ log = <<>>
  /\ prs = [d \in Drivers |-> NoLap]
  /\ outages = <<>>
  /\ heldRows = {}
  /\ tpMap = [t \in 1..Transponders |-> 0]
  /\ known = [d \in Drivers |-> NoLap]
  /\ cutOff = {}
  /\ stops = 0

At(where) == proc = "up" /\ pc = where

Start ==
  /\ proc = "down"
  /\ proc' = "up"
  /\ Forget("prepare")
  /\ UNCHANGED <<k, durable, past, stops>>

(* Prepare: resolve the next driver (module RegisterFirst) and hand out    *)
(* its transponder.                                                        *)
PrepareDriver ==
  /\ At("prepare")
  /\ prepared < NDrivers
  /\ prepared' = prepared + 1
  /\ tpMap' = IF prepared' <= Transponders
              THEN [tpMap EXCEPT ![prepared'] = prepared'] ELSE tpMap
  /\ UNCHANGED <<proc, pc, stage, todo, heldTodo, st, beaten, k, crossed, log,
                 prs, outages, heldRows, past, stops>>

Prepared ==
  /\ At("prepare")
  /\ prepared = NDrivers
  /\ pc' = "loop"
  /\ UNCHANGED <<proc, prepared, stage, todo, heldTodo, st, beaten, k, crossed,
                 log, durable, past, stops>>

Generate ==
  /\ At("loop")
  /\ k < MaxSessions
  /\ \E times \in [Drivers -> Runs] : \E stray \in [Strays -> StrayOffsets(times)] :
       LET cs == Crossings(Base(k + 1), times, stray)
           g == GenerateSession(Sid(k + 1), Base(k + 1), cs)
       IN  /\ crossed' = cs
           /\ todo' = g.events
           /\ heldTodo' = g.held
  /\ k' = k + 1
  /\ pc' = "held"
  /\ UNCHANGED <<proc, prepared, stage, st, beaten, log, durable, past, stops>>

RecordHeldScan ==
  /\ At("held")
  /\ heldTodo # <<>>
  /\ heldRows' = heldRows \cup {Head(heldTodo)}
  /\ heldTodo' = Tail(heldTodo)
  /\ UNCHANGED <<proc, pc, prepared, stage, todo, st, beaten, k, crossed, log,
                 prs, outages, tpMap, past, stops>>

(* The mutant leaves the held scans for later.                             *)
HeldLater ==
  /\ At("held")
  /\ pc' = "emit"
  /\ UNCHANGED <<proc, prepared, stage, todo, heldTodo, st, beaten, k, crossed,
                 log, durable, past, stops>>

HeldDone ==
  /\ At("held")
  /\ heldTodo = <<>>
  /\ pc' = "emit"
  /\ UNCHANGED <<proc, prepared, stage, todo, heldTodo, st, beaten, k, crossed,
                 log, durable, past, stops>>

(***************************************************************************)
(* emitEnvelope: the event goes into the outbox, then its side effect.     *)
(***************************************************************************)
SideEffect(kind) ==
  CASE kind = "lap.recorded"    -> "observe"
    [] kind = "scanner.offline" -> "open"
    [] kind = "scanner.online"  -> "close"
    [] OTHER                    -> "emit"

NextRunState(e) ==
  CASE e.kind = "session.started" -> [st EXCEPT !.sid = e.sid, !.active = TRUE]
    [] e.kind = "session.ended"   -> [st EXCEPT !.active = FALSE, !.lastEnded = e.at]
    [] OTHER                      -> st

Emit ==
  /\ At("emit")
  /\ todo # <<>>
  /\ log' = Append(log, Head(todo))
  /\ pc' = SideEffect(Head(todo).kind)
  /\ todo' = IF pc' = "emit" THEN Tail(todo) ELSE todo
  /\ st' = NextRunState(Head(todo))
  /\ UNCHANGED <<proc, prepared, stage, heldTodo, beaten, k, crossed, durable, past, stops>>

(* The mutant takes no first lap for a record.                             *)
CheckPRNotFirst(current, ms) == current # NoLap /\ ms < current

CheckPR(current, ms) == current = NoLap \/ ms < current

ObserveLap ==
  /\ At("observe")
  /\ LET lap == Head(todo)
     IN  IF CheckPR(prs[lap.who], lap.ms)
         THEN /\ prs' = [prs EXCEPT ![lap.who] = lap.ms]
              /\ beaten' = prs[lap.who]
              /\ pc' = "broken"
              /\ todo' = todo
         ELSE /\ pc' = "emit"
              /\ todo' = Tail(todo)
              /\ UNCHANGED <<prs, beaten>>
  /\ UNCHANGED <<proc, prepared, stage, heldTodo, st, k, crossed, log,
                 outages, heldRows, tpMap, past, stops>>

Faster(a, b) == IF a = NoLap \/ b < a THEN b ELSE a

EnqueueBroken ==
  /\ At("broken")
  /\ LET lap == Head(todo)
     IN  log' = Append(log, Broken(lap.sid, lap.who, lap.ms, beaten, lap.at))
  /\ pc' = "emit"
  /\ todo' = Tail(todo)
  /\ beaten' = NoLap
  /\ known' = [known EXCEPT ![Head(todo).who] = Faster(@, Head(todo).ms)]
  /\ UNCHANGED <<proc, prepared, stage, heldTodo, st, k, crossed, durable, cutOff, stops>>

(* The mutant keeps the id of the first outage ever.                       *)
OpenOutageStaleId ==
  /\ At("open")
  /\ outages' = Append(outages, [sid |-> st.sid, open |-> TRUE])
  /\ st' = [st EXCEPT !.outage = 1]
  /\ pc' = "emit"
  /\ todo' = Tail(todo)
  /\ UNCHANGED <<proc, prepared, stage, heldTodo, beaten, k, crossed, log,
                 prs, heldRows, tpMap, past, stops>>

OpenOutage ==
  /\ At("open")
  /\ outages' = Append(outages, [sid |-> st.sid, open |-> TRUE])
  /\ st' = [st EXCEPT !.outage = Len(outages')]
  /\ pc' = "emit"
  /\ todo' = Tail(todo)
  /\ UNCHANGED <<proc, prepared, stage, heldTodo, beaten, k, crossed, log,
                 prs, heldRows, tpMap, past, stops>>

CloseOutage ==
  /\ At("close")
  /\ st.outage \in DOMAIN outages
  /\ outages' = [outages EXCEPT ![st.outage].open = FALSE]
  /\ pc' = "emit"
  /\ todo' = Tail(todo)
  /\ UNCHANGED <<proc, prepared, stage, heldTodo, st, beaten, k, crossed, log,
                 prs, heldRows, tpMap, past, stops>>

(***************************************************************************)
(* The gap between sessions.                                               *)
(***************************************************************************)
SessionDone ==
  /\ At("emit")
  /\ todo = <<>>
  /\ pc' = IF stage = "session" THEN "reconcile" ELSE "gap"
  /\ UNCHANGED <<proc, prepared, stage, todo, heldTodo, st, beaten, k, crossed,
                 log, durable, past, stops>>

(* The mutant starts the reconciled session where the normal one started.  *)
ReconBaseNow == Base(k)

ReconBase == st.lastEnded

(* Nothing to reconcile while a session is active, with the knob at zero,  *)
(* or when no crossing counted.  The history of the normal session's       *)
(* crossings ends with it.                                                 *)
Reconcile ==
  /\ At("reconcile")
  /\ \E draw \in [1..OutOfSessionLaps -> LapDraws] :
       LET recon == IF st.active THEN <<>>
                    ELSE GenerateReconciledSession(Oos(k), ReconBase, draw)
       IN  /\ todo' = recon
           /\ pc' = IF recon = <<>> THEN "gap" ELSE "emit"
           /\ stage' = IF recon = <<>> THEN stage ELSE "recon"
  /\ crossed' = <<>>
  /\ UNCHANGED <<proc, prepared, heldTodo, st, beaten, k, log, durable, past, stops>>

GapOver ==
  /\ At("gap")
  /\ pc' = "loop"
  /\ stage' = "session"
  /\ st' = NewRunState
  /\ NewHistory
  /\ UNCHANGED <<proc, prepared, todo, heldTodo, beaten, k, durable, past, stops>>

(***************************************************************************)
(* DriverPRStore.Refresh, on a driver.pr_updated, whatever Run is doing:   *)
(* the confirmed record takes the place of the local one, be it faster or  *)
(* slower.  How Driver comes to confirm it is module PersonalRecord's.     *)
(***************************************************************************)
Refresh ==
  /\ proc = "up"
  /\ \E u \in Confirmed :
       /\ prs' = [prs EXCEPT ![u[1]] = u[2]]
       /\ known' = [known EXCEPT ![u[1]] = Faster(@, u[2])]
  /\ UNCHANGED <<proc, volatile, k, crossed, log, outages, heldRows, tpMap, cutOff, stops>>

(***************************************************************************)
(* Faults.                                                                 *)
(***************************************************************************)
(* What a stop does to a break that is in the records and not yet in the   *)
(* outbox: it is detected as a break never again.                          *)
CutOff == cutOff' = IF pc = "broken" THEN cutOff \cup {Head(todo).who} ELSE cutOff

(* A crash, or a cancelled context: Run returns at its next call.          *)
Stop ==
  /\ proc = "up"
  /\ stops < MaxStops
  /\ stops' = stops + 1
  /\ proc' = "down"
  /\ Forget("stopped")
  /\ CutOff
  /\ UNCHANGED <<k, durable, known>>

(* A call fails: Run returns the error, main logs it, and the process goes *)
(* on without its simulator until it is restarted.                         *)
CallFails ==
  /\ proc = "up"
  /\ \/ pc \in {"prepare", "held", "observe", "broken", "open", "close"}
     \/ pc = "emit" /\ todo # <<>>
  /\ stops < MaxStops
  /\ stops' = stops + 1
  /\ Forget("stopped")
  /\ CutOff
  /\ UNCHANGED <<proc, k, durable, known>>

RunNext ==
  \/ Start \/ PrepareDriver \/ Prepared \/ Generate
  \/ RecordHeldScan \/ HeldDone
  \/ Emit \/ ObserveLap \/ EnqueueBroken \/ OpenOutage \/ CloseOutage
  \/ SessionDone \/ Reconcile \/ GapOver

Next == RunNext \/ Refresh \/ Stop \/ CallFails

Spec == Init /\ [][Next]_vars

-----------------------------------------------------------------------------
Rows(kind) == {i \in DOMAIN log : log[i].kind = kind}
Laps(s) == {log[i] : i \in {j \in Rows("lap.recorded") : log[j].sid = s}}
Lost(i) == Missed(Len(crossed), i)
Of(d) == {i \in DOMAIN crossed : crossed[i].who = d}

(* A crossing that starts a driver's clock: its first one that was seen,   *)
(* or the first one seen after one that was missed.                        *)
OutLap(d, a) ==
  \A m \in Of(d) : m < a => \E q \in Of(d) : m <= q /\ q < a /\ Lost(q)

(* "No counted lap spans the gap" (GenerateSession, LapTracker.Reset): a   *)
(* lap.recorded that was just enqueued is the time between two crossings   *)
(* of that driver that were both seen, none of its crossings in between    *)
(* was missed, and it starts where the driver's previous lap ended or      *)
(* where its clock started.                                                *)
HonestLaps ==
  pc = "observe" /\ stage = "session" =>
    LET r == log[Len(log)]
    IN  \E a, b \in Of(r.who) :
          /\ a < b /\ \A m \in Of(r.who) : a <= m /\ m <= b => ~Lost(m)
          /\ crossed[b].at = r.at
          /\ crossed[a].at = r.at - r.ms
          /\ r.ms >= MinLapTimeMs
          /\ \/ OutLap(r.who, a)
             \/ \E q \in Laps(r.sid) :
                  q.who = r.who /\ q.at = crossed[a].at /\ q.n = r.n - 1

(* "The crossing is accepted, never dropped": once a session's events are  *)
(* all out, every crossing that was seen, and follows the driver's         *)
(* previous one, seen too, by at least MIN_LAP_TIME_MS, is a lap of it.    *)
EveryLapCounted ==
  pc = "reconcile" =>
    \A d \in Drivers : \A a, b \in Of(d) :
      (/\ a < b /\ ~Lost(a) /\ ~Lost(b)
       /\ \A m \in Of(d) : ~(a < m /\ m < b)
       /\ crossed[b].at - crossed[a].at >= MinLapTimeMs)
      => \E r \in Laps(Sid(k)) : r.who = d /\ r.at = crossed[b].at

(* session.ended carries, per driver, the number of its lap.recorded rows  *)
(* of that session, numbered from one without a hole, and the best of      *)
(* them; a driver without a lap is left out.                               *)
SummaryAgrees ==
  pc \in {"reconcile", "gap"} =>
    \A i \in Rows("session.ended") :
      LET ls == Laps(log[i].sid)
          sum == log[i].summary
      IN  /\ DOMAIN sum = {r.who : r \in ls}
          /\ \A d \in DOMAIN sum :
               LET mine == {r \in ls : r.who = d}
               IN  /\ {r.n : r \in mine} = 1..sum[d].count
                   /\ \A r \in mine : sum[d].best <= r.ms /\ r.at <= log[i].at
                   /\ \E r \in mine : sum[d].best = r.ms

(* A stray scan that the line saw is held durably before the first event   *)
(* of its session is on the way: no stop later on can lose it.             *)
HeldBeforeSession ==
  log # <<>> =>
    \A i \in DOMAIN crossed :
      crossed[i].who \in Strays /\ ~Lost(i) =>
        [token |-> crossed[i].who, sid |-> Sid(k)] \in heldRows

(* While Run is under way, the durable outage record of the session in     *)
(* hand says what its events said: one row per scanner.offline, closed     *)
(* once scanner.online is out.                                             *)
OutageRecorded ==
  proc = "up" /\ pc \in {"emit", "observe", "broken", "reconcile", "gap"} =>
    LET rows == {o \in DOMAIN outages : outages[o].sid = Sid(k)}
    IN  /\ (rows # {}) = (Rows("scanner.offline") # {})
        /\ \A o \in rows : outages[o].open = (Rows("scanner.online") = {})

(* A reconciled session starts only after the session before it has ended, *)
(* and its timestamps follow it: "rather than precede or overlap".         *)
ReconcileFollows ==
  \A i \in DOMAIN log : log[i].sid = Oos(k) =>
    /\ \E j \in Rows("session.ended") : j < i /\ log[j].sid = Sid(k)
    /\ \A j \in Rows("session.ended") \cup Rows("lap.recorded") :
         log[j].sid = Sid(k) => log[j].at <= log[i].at

(* "A detected PR is never silently dropped" (observePR): no record that   *)
(* Timing holds, and no lap of the session that it has examined, is faster *)
(* than what was announced to, or confirmed by, Driver, whatever the       *)
(* refreshes that come between two laps raise or lower.  The exception is  *)
(* a driver whose break a stop cut off between the record and the outbox.  *)
RecordsAnnounced ==
  proc = "up" /\ pc \in {"emit", "open", "close", "reconcile", "gap"} =>
    \A d \in Drivers \ cutOff :
      \A ms \in {log[i].ms : i \in {j \in Rows("lap.recorded") : log[j].who = d}}
               \cup ({prs[d]} \ {NoLap}) :
        known[d] # NoLap /\ known[d] <= ms
=============================================================================
