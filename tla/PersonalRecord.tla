--------------------------- MODULE PersonalRecord ---------------------------
(***************************************************************************)
(* A driver's all-time record, kept twice.  Timing detects a break against *)
(* its local copy and advances it at once (simulator.go, observePR;        *)
(* pr_store.go, ObserveLap); Driver confirms the canonical value from its  *)
(* lap history (services/driver, process_personal_record_broken) and       *)
(* publishes driver.pr_updated; Timing's second consumer overwrites the    *)
(* local copy with it (pr_refresh.go, Refresh).                            *)
(*                                                                         *)
(* One driver: nothing relates the records of two.  Events to Driver       *)
(* arrive in any order, each once: its inbox makes a redelivery a no-op    *)
(* (module Delivery).  Updates to Timing arrive in the order in which      *)
(* Driver's relay publishes them, except for one that is being retried.    *)
(***************************************************************************)
EXTENDS Integers, Sequences

CONSTANTS Times,       \* possible lap times, in milliseconds
          MaxLaps,     \* bound on the laps driven
          MaxRetries   \* bound on the refreshes that fail and are retried

ASSUME RecordConstantsOK ==
  /\ Times \subseteq Nat \ {0}
  /\ MaxLaps \in Nat
  /\ MaxRetries \in Nat

VARIABLES
  laps,      \* history: the times of the laps enqueued so far, in order
  pc,        \* Timing's emit path: "idle", "observe", "broken"
  local,     \* Timing: driver_prs.best_lap_ms
  toDriver,  \* events on their way to Driver
  best,      \* Driver: the fastest lap in driver_laps
  canon,     \* Driver: driver_prs.best_lap_ms
  updates,   \* driver.pr_updated in Timing's queue
  retrying,  \* updates waiting in the retry queue
  retries    \* failed refreshes so far

vars == <<laps, pc, local, toDriver, best, canon, updates, retrying, retries>>

NoTime == 0
Beats(ms, t) == t = NoTime \/ ms < t
Faster(ms, t) == IF Beats(ms, t) THEN ms ELSE t

(* The lap at hand is the last one; events are told apart by their lap.    *)
Cur == laps[Len(laps)]
Event(kind) == [kind |-> kind, lap |-> Len(laps), ms |-> Cur]

Init ==
  /\ laps = <<>>
  /\ pc = "idle"
  /\ local = NoTime
  /\ toDriver = {}
  /\ best = NoTime
  /\ canon = NoTime
  /\ updates = <<>>
  /\ retrying = {}
  /\ retries = 0

(***************************************************************************)
(* Timing.                                                                 *)
(***************************************************************************)
EnqueueLap ==
  /\ pc = "idle"
  /\ Len(laps) < MaxLaps
  /\ \E ms \in Times :
       /\ laps' = Append(laps, ms)
       /\ toDriver' = toDriver \cup
            {[kind |-> "lap.recorded", lap |-> Len(laps) + 1, ms |-> ms]}
  /\ pc' = "observe"
  /\ UNCHANGED <<local, best, canon, updates, retrying, retries>>

ObserveLap ==
  /\ pc = "observe"
  /\ IF Beats(Cur, local)
     THEN local' = Cur /\ pc' = "broken"
     ELSE local' = local /\ pc' = "idle"
  /\ UNCHANGED <<laps, toDriver, best, canon, updates, retrying, retries>>

(* The mutants skip the first break ever, and wait for a confirmed record. *)
EnqueueSubsequentBreak ==
  /\ pc = "broken"
  /\ toDriver' = IF canon = NoTime THEN toDriver
                 ELSE toDriver \cup {Event("personal_record.broken")}
  /\ pc' = "idle"
  /\ UNCHANGED <<laps, local, best, canon, updates, retrying, retries>>

EnqueueOnceConfirmed ==
  /\ pc = "broken"
  /\ canon # NoTime
  /\ toDriver' = toDriver \cup {Event("personal_record.broken")}
  /\ pc' = "idle"
  /\ UNCHANGED <<laps, local, best, canon, updates, retrying, retries>>

EnqueueBroken ==
  /\ pc = "broken"
  /\ toDriver' = toDriver \cup {Event("personal_record.broken")}
  /\ pc' = "idle"
  /\ UNCHANGED <<laps, local, best, canon, updates, retrying, retries>>

(* Refresh overwrites: "latest-confirmed-wins".                            *)
Refresh ==
  /\ updates # <<>>
  /\ local' = Head(updates)
  /\ updates' = Tail(updates)
  /\ UNCHANGED <<laps, pc, toDriver, best, canon, retrying, retries>>

(* The write fails: retryOrPark schedules a retry and acks the original.   *)
RefreshFails ==
  /\ updates # <<>>
  /\ retries < MaxRetries
  /\ retries' = retries + 1
  /\ retrying' = retrying \cup {Head(updates)}
  /\ updates' = Tail(updates)
  /\ UNCHANGED <<laps, pc, local, toDriver, best, canon>>

RetryDue ==
  \E ms \in retrying :
    /\ retrying' = retrying \ {ms}
    /\ updates' = Append(updates, ms)
    /\ UNCHANGED <<laps, pc, local, toDriver, best, canon, retries>>

(***************************************************************************)
(* Driver: each handler is one transaction with its inbox row.             *)
(***************************************************************************)
ProcessLap ==
  \E m \in toDriver :
    /\ m.kind = "lap.recorded"
    /\ best' = Faster(m.ms, best)
    /\ toDriver' = toDriver \ {m}
    /\ UNCHANGED <<laps, pc, local, canon, updates, retrying, retries>>

(* The mutants trust the break's claim alone, and confirm a change without *)
(* publishing it once there is a stored record.                            *)
ConfirmClaim(ms) ==
  /\ canon' = ms
  /\ updates' = Append(updates, ms)

ConfirmOnce(ms) ==
  LET candidate == Faster(ms, best)
  IN  IF Beats(candidate, canon)
      THEN /\ canon' = candidate
           /\ updates' = IF canon = NoTime THEN Append(updates, candidate) ELSE updates
      ELSE UNCHANGED <<canon, updates>>

(* The canonical record: the fastest of the history and the claim.  Stored *)
(* and published only when it beats what is stored.                        *)
Confirm(ms) ==
  LET candidate == Faster(ms, best)
  IN  IF Beats(candidate, canon)
      THEN canon' = candidate /\ updates' = Append(updates, candidate)
      ELSE UNCHANGED <<canon, updates>>

ProcessBroken ==
  \E m \in toDriver :
    /\ m.kind = "personal_record.broken"
    /\ Confirm(m.ms)
    /\ toDriver' = toDriver \ {m}
    /\ UNCHANGED <<laps, pc, local, best, retrying, retries>>

Next ==
  \/ EnqueueLap \/ ObserveLap \/ EnqueueBroken
  \/ Refresh \/ RefreshFails \/ RetryDue
  \/ ProcessLap \/ ProcessBroken

(* Timing's emit loop goes on, Driver's consumer takes what is queued.     *)
Spec == /\ Init /\ [][Next]_vars
        /\ WF_vars(ObserveLap \/ EnqueueBroken)
        /\ WF_vars(ProcessLap) /\ WF_vars(ProcessBroken)

(***************************************************************************)
(* The same with a Timing that stops between two transactions: a crash, or *)
(* a SIGTERM, which makes the next call fail and Run return nil.  Started  *)
(* again it goes on with the next lap.                                     *)
(***************************************************************************)
Interrupt ==
  /\ pc # "idle"
  /\ pc' = "idle"
  /\ UNCHANGED <<laps, local, toDriver, best, canon, updates, retrying, retries>>

InterruptedSpec == Init /\ [][Next \/ Interrupt]_vars

-----------------------------------------------------------------------------
Quiet == pc = "idle" /\ toDriver = {} /\ updates = <<>> /\ retrying = {}

(* "A detected PR is never silently dropped" (observePR): what Timing      *)
(* takes for the record, Driver has confirmed, or bettered, or a break of  *)
(* at least that speed is on its way or about to be enqueued.              *)
BreakReachesDriver ==
  local # NoTime =>
    \/ canon # NoTime /\ canon <= local
    \/ pc = "broken"
    \/ \E m \in toDriver : m.kind = "personal_record.broken" /\ m.ms <= local

(* When all is delivered the canonical record is the fastest lap driven,   *)
(* no faster and no slower, whatever the order of arrival and however      *)
(* often a late pr_updated has raised Timing's copy (and let slower laps   *)
(* pass for breaks).                                                       *)
NoRecordMissed ==
  Quiet => /\ \A i \in DOMAIN laps : canon # NoTime /\ canon <= laps[i]
           /\ canon # NoTime => \E i \in DOMAIN laps : canon = laps[i]

(* As long as no refresh was retried, both copies agree once all is        *)
(* delivered: Timing's optimistic advance and Driver's confirmations that  *)
(* cross it on the way do not leave them apart.                            *)
ConvergesInOrder == Quiet /\ retries = 0 => local = canon

(* "Latest-confirmed-wins": once all is delivered Timing's copy is the     *)
(* value Driver confirmed last.                                            *)
LatestConfirmedWins == Quiet => local = canon

(* A record detected by Timing is in the end confirmed, or bettered.       *)
EventuallyConfirmed ==
  \A ms \in Times : pc = "broken" /\ Cur = ms ~> canon # NoTime /\ canon <= ms
=============================================================================
