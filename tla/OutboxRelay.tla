---------------------------- MODULE OutboxRelay ----------------------------
(***************************************************************************)
(* The producer half of the reliability spine: the durable outbox table    *)
(* (libs/go-pitwall/persistence/outbox.go), the relay loop that drains it  *)
(* (libs/go-pitwall/relay/relay.go) and the confirmed publish of the       *)
(* reconnecting Publisher (libs/go-pitwall/messaging/publisher.go), in the *)
(* company of a broker that may nack, a connection that may drop, a        *)
(* database write that may fail and a process that may die at any point.   *)
(*                                                                         *)
(* A row is named by its rank in the table's ORDER BY created_at, id: that *)
(* rank is fixed when the row is built, while the order in which rows are  *)
(* enqueued is free.  The attempts and last_error columns and the payload  *)
(* are left out: nothing reads them back.                                  *)
(***************************************************************************)
EXTENDS Naturals, FiniteSets

CONSTANTS Rows,        \* row ranks
          Valid,       \* rows whose payload passes the relay's Validate
          Batch,       \* FetchPending's limit
          Interval,    \* the relay's poll interval, its base backoff
          MaxBackoff,  \* the ceiling of the backoff
          MaxFaults    \* bound on the faults the environment injects

ASSUME ConstantsOK ==
  /\ Rows \subseteq Nat
  /\ IsFiniteSet(Rows)
  /\ Valid \subseteq Rows
  /\ Batch \in Nat \ {0}
  /\ Interval \in Nat \ {0}
  /\ MaxBackoff \in Nat
  /\ MaxFaults \in Nat

VARIABLES
  status,    \* the durable table: each row's status, "absent" before its insert
  mode,      \* the process: "run", "stopping" (SIGTERM seen), "flush" (the
             \* final drain), "down"
  pc,        \* where the relay is in DrainOnce: "wait" (between drains), "row"
             \* (about to take the next row), "confirm" (inside
             \* PublishConfirmed), "mark" (acked, about to MarkSent)
  batch,     \* the rows FetchPending returned that are still to be handled
  conf,      \* the outstanding publish: "none", "waiting", "acked" (the broker's
             \* ack is on its way), "failed" (nacked, or its channel died)
  orphans,   \* publishes written to a connection that died before the broker
             \* processed them: each may still be accepted, or be lost
  accepted,  \* copies of each row the broker has durably accepted
  conn,      \* the Publisher has a live confirm channel
  kick,      \* the relay's kick channel holds a token
  backoff,   \* the delay until the next timer drain
  faults,    \* faults so far
  late       \* history: rows inserted since the last FetchPending

vars == <<status, mode, pc, batch, conf, orphans, accepted, conn, kick,
          backoff, faults, late>>

Statuses == {"absent", "pending", "sent", "quarantined"}

Pending == {r \in Rows : status[r] = "pending"}

(* The first Batch pending rows in table order.  The mutant reads the      *)
(* newest rows first.                                                      *)
FetchNewest ==
  {r \in Pending : Cardinality({s \in Pending : s > r}) < Batch}

FetchAnyStatus ==
  {r \in Rows : status[r] \in {"pending", "sent"}}

FetchPending ==
  {r \in Pending : Cardinality({s \in Pending : s < r}) < Batch}

(* The row DrainOnce is working on: the batch is handled in table order.   *)
Cur == CHOOSE r \in batch : \A s \in batch : r <= s

(* Doubling, clamped to the ceiling and then to the base.                  *)
NextBackoffUncapped == 2 * backoff

NextBackoff ==
  LET next   == 2 * backoff
      capped == IF next > MaxBackoff THEN MaxBackoff ELSE next
  IN  IF capped < Interval THEN Interval ELSE capped

----------------------------------------------------------------------------
Init ==
  /\ status \in [Rows -> {"absent", "pending"}]  \* rows an earlier run left
  /\ mode = "run"
  /\ pc = "wait"
  /\ batch = {}
  /\ conf = "none"
  /\ orphans = [r \in Rows |-> 0]
  /\ accepted = [r \in Rows |-> 0]
  /\ conn = TRUE
  /\ kick = FALSE
  /\ backoff = Interval
  /\ faults = 0
  /\ late = {}

Fault == faults < MaxFaults /\ faults' = faults + 1

(* The publish in flight when its connection dies may still reach the      *)
(* broker.                                                                 *)
OrphanOutstanding ==
  orphans' = IF conf = "waiting" THEN [orphans EXCEPT ![Cur] = @ + 1] ELSE orphans

(* NewEnqueuer: validate, insert the row pending in one transaction, then  *)
(* kick the relay.  An envelope that fails validation inserts nothing and  *)
(* does not kick, so the only invalid rows are those an earlier deployment *)
(* left behind under an older contract.                                    *)
Enqueue(r) ==
  /\ mode # "down"
  /\ status[r] = "absent"
  /\ r \in Valid
  /\ status' = [status EXCEPT ![r] = "pending"]
  /\ late' = late \cup {r}
  /\ kick' = TRUE
  /\ UNCHANGED <<mode, pc, batch, conf, orphans, accepted, conn, backoff, faults>>

----------------------------------------------------------------------------
(* The relay loop.                                                         *)

StartDrain ==
  /\ pc = "wait"
  /\ batch' = FetchPending
  /\ late' = {}
  /\ pc' = "row"
  /\ UNCHANGED <<status, conf, orphans, accepted, conn, backoff, faults>>

DrainOnKick ==
  /\ mode = "run" /\ kick
  /\ kick' = FALSE
  /\ UNCHANGED mode
  /\ StartDrain

DrainOnTimer ==
  /\ mode = "run"
  /\ UNCHANGED <<mode, kick>>
  /\ StartDrain

(* The best-effort drain of a graceful shutdown.                           *)
Flush ==
  /\ mode = "stopping"
  /\ mode' = "flush"
  /\ UNCHANGED kick
  /\ StartDrain

(* FetchPending itself fails: the drain handles no row and backs off; a    *)
(* kick that started it is spent.                                          *)
FetchFails ==
  /\ mode = "run" /\ pc = "wait"
  /\ Fault
  /\ kick' \in {kick, FALSE}
  /\ backoff' = NextBackoff
  /\ UNCHANGED <<status, mode, pc, batch, conf, orphans, accepted, conn, late>>

(* DrainOnce returns: a success resets the backoff, an error doubles it.   *)
(* After the final flush the Publisher is closed and the process exits.    *)
EndDrain(ok) ==
  /\ pc' = "wait"
  /\ batch' = {}
  /\ conf' = "none"
  /\ backoff' = IF ok THEN Interval ELSE NextBackoff
  /\ IF mode = "flush"
     THEN mode' = "down" /\ conn' = FALSE /\ kick' = FALSE
     ELSE UNCHANGED <<mode, conn, kick>>

DrainDone ==
  /\ pc = "row" /\ batch = {}
  /\ EndDrain(TRUE)
  /\ UNCHANGED <<status, orphans, accepted, faults, late>>

(* A row that fails validation is quarantined and the drain goes on.  The  *)
(* mutants leave it pending and stop the drain, and quarantine whatever    *)
(* row is at hand.                                                         *)
QuarantineBlocks ==
  /\ pc = "row" /\ batch # {} /\ Cur \notin Valid
  /\ EndDrain(FALSE)
  /\ UNCHANGED <<status, orphans, accepted, faults, late>>

QuarantineUnsent ==
  /\ pc = "row" /\ batch # {}
  /\ Cur \notin Valid \/ ~conn
  /\ status' = [status EXCEPT ![Cur] = "quarantined"]
  /\ batch' = batch \ {Cur}
  /\ UNCHANGED <<mode, pc, conf, orphans, accepted, conn, kick, backoff, faults, late>>

Quarantine ==
  /\ pc = "row" /\ batch # {} /\ Cur \notin Valid
  /\ status' = [status EXCEPT ![Cur] = "quarantined"]
  /\ batch' = batch \ {Cur}
  /\ UNCHANGED <<mode, pc, conf, orphans, accepted, conn, kick, backoff, faults, late>>

QuarantineFails ==
  /\ pc = "row" /\ batch # {} /\ Cur \notin Valid
  /\ Fault
  /\ EndDrain(FALSE)
  /\ UNCHANGED <<status, orphans, accepted, late>>

(* PublishConfirmed finds no usable channel: the row stays pending.        *)
PublishNoChannel ==
  /\ pc = "row" /\ batch # {} /\ Cur \in Valid /\ ~conn
  /\ EndDrain(FALSE)
  /\ UNCHANGED <<status, orphans, accepted, faults, late>>

PublishSend ==
  /\ pc = "row" /\ batch # {} /\ Cur \in Valid /\ conn
  /\ pc' = "confirm"
  /\ conf' = "waiting"
  /\ UNCHANGED <<status, mode, batch, orphans, accepted, conn, kick, backoff, faults, late>>

(* PublishConfirmed returns nil only for a positive ack.  The mutant also  *)
(* takes a nack or a dead channel for success.                             *)
AckAnyOutcome ==
  /\ pc = "confirm" /\ conf \in {"acked", "failed"}
  /\ pc' = "mark"
  /\ conf' = "none"
  /\ UNCHANGED <<status, mode, batch, orphans, accepted, conn, kick, backoff, faults, late>>

AckReceived ==
  /\ pc = "confirm" /\ conf = "acked"
  /\ pc' = "mark"
  /\ conf' = "none"
  /\ UNCHANGED <<status, mode, batch, orphans, accepted, conn, kick, backoff, faults, late>>

(* A nack, a timeout or a dropped connection: RecordFailure, stop, back    *)
(* off.  The mutant gives the row up.                                      *)
GiveUpRow ==
  /\ pc = "confirm" /\ conf = "failed"
  /\ status' = [status EXCEPT ![Cur] = "sent"]
  /\ EndDrain(FALSE)
  /\ UNCHANGED <<orphans, accepted, faults, late>>

PublishFails ==
  /\ pc = "confirm" /\ conf = "failed"
  /\ EndDrain(FALSE)
  /\ UNCHANGED <<status, orphans, accepted, faults, late>>

MarkSent ==
  /\ pc = "mark"
  /\ status' = [status EXCEPT ![Cur] = "sent"]
  /\ batch' = batch \ {Cur}
  /\ pc' = "row"
  /\ UNCHANGED <<mode, conf, orphans, accepted, conn, kick, backoff, faults, late>>

MarkSentFails ==
  /\ pc = "mark"
  /\ Fault
  /\ EndDrain(FALSE)
  /\ UNCHANGED <<status, orphans, accepted, late>>

----------------------------------------------------------------------------
(* The broker.                                                             *)

BrokerAccept ==
  /\ conf = "waiting"
  /\ accepted' = [accepted EXCEPT ![Cur] = @ + 1]
  /\ conf' = "acked"
  /\ UNCHANGED <<status, mode, pc, batch, orphans, conn, kick, backoff, faults, late>>

BrokerNack ==
  /\ conf = "waiting"
  /\ Fault
  /\ conf' = "failed"
  /\ UNCHANGED <<status, mode, pc, batch, orphans, accepted, conn, kick, backoff, late>>

AcceptOrphan(r) ==
  /\ orphans[r] > 0
  /\ orphans' = [orphans EXCEPT ![r] = @ - 1]
  /\ accepted' = [accepted EXCEPT ![r] = @ + 1]
  /\ UNCHANGED <<status, mode, pc, batch, conf, conn, kick, backoff, faults, late>>

LoseOrphan(r) ==
  /\ orphans[r] > 0
  /\ orphans' = [orphans EXCEPT ![r] = @ - 1]
  /\ UNCHANGED <<status, mode, pc, batch, conf, accepted, conn, kick, backoff, faults, late>>

----------------------------------------------------------------------------
(* Connection and process.                                                 *)

(* The connection drops: closing the confirm channel resolves the          *)
(* outstanding confirmation negatively, whether or not the broker took the *)
(* message.                                                                *)
ConnLost ==
  /\ conn
  /\ Fault
  /\ conn' = FALSE
  /\ conf' = IF pc = "confirm" THEN "failed" ELSE conf
  /\ OrphanOutstanding
  /\ UNCHANGED <<status, mode, pc, batch, accepted, kick, backoff, late>>

(* The supervisor dials a new generation; it ends with the loops' context, *)
(* so the final flush uses whatever connection is left.                    *)
Reconnect ==
  /\ mode = "run" /\ ~conn
  /\ conn' = TRUE
  /\ UNCHANGED <<status, mode, pc, batch, conf, orphans, accepted, kick, backoff, faults, late>>

(* SIGTERM cancels the loop's context: a publish or a write in progress    *)
(* returns an error and the relay loop ends.                               *)
Shutdown ==
  /\ mode = "run"
  /\ Fault
  /\ mode' = "stopping"
  /\ pc' = "wait"
  /\ batch' = {}
  /\ conf' = "none"
  /\ OrphanOutstanding
  /\ UNCHANGED <<status, accepted, conn, kick, backoff, late>>

(* The process dies, or the shutdown deadline expires: only the table and  *)
(* what the broker has survive.                                            *)
Crash ==
  /\ mode # "down"
  /\ Fault
  /\ mode' = "down"
  /\ pc' = "wait"
  /\ batch' = {}
  /\ conf' = "none"
  /\ conn' = FALSE
  /\ kick' = FALSE
  /\ OrphanOutstanding
  /\ UNCHANGED <<status, accepted, backoff, late>>

(* The next start dials the broker before anything runs.                   *)
Start ==
  /\ mode = "down"
  /\ mode' = "run"
  /\ conn' = TRUE
  /\ backoff' = Interval
  /\ UNCHANGED <<status, pc, batch, conf, orphans, accepted, kick, faults, late>>

----------------------------------------------------------------------------
Relay ==
  \/ DrainOnTimer \/ Flush \/ DrainDone
  \/ Quarantine \/ PublishNoChannel \/ PublishSend
  \/ AckReceived \/ PublishFails \/ MarkSent

Next ==
  \/ \E r \in Rows : Enqueue(r) \/ AcceptOrphan(r) \/ LoseOrphan(r)
  \/ DrainOnKick \/ DrainOnTimer \/ FetchFails \/ Flush \/ DrainDone
  \/ Quarantine \/ QuarantineFails
  \/ PublishNoChannel \/ PublishSend
  \/ AckReceived \/ PublishFails
  \/ MarkSent \/ MarkSentFails
  \/ BrokerAccept \/ BrokerNack
  \/ ConnLost \/ Reconnect
  \/ Shutdown \/ Crash \/ Start

Spec == Init /\ [][Next]_vars

(* The relay goroutine keeps running and its timer always fires again (the *)
(* backoff is capped); the supervisor keeps dialling; the platform         *)
(* restarts a stopped container; a broker that holds a publish and is not  *)
(* disturbed answers it.  Nothing is assumed of kicks or of faults.        *)
Fairness ==
  /\ WF_vars(Relay)
  /\ WF_vars(BrokerAccept)
  /\ WF_vars(Reconnect)
  /\ WF_vars(Start)

FairSpec == Spec /\ Fairness

----------------------------------------------------------------------------
(* Every variable keeps to its domain; the backoff stays between the poll  *)
(* interval and the ceiling, whatever the pattern of failures.             *)
TypeOK ==
  /\ status \in [Rows -> Statuses]
  /\ mode \in {"run", "stopping", "flush", "down"}
  /\ pc \in {"wait", "row", "confirm", "mark"}
  /\ batch \subseteq Rows
  /\ conf \in {"none", "waiting", "acked", "failed"}
  /\ orphans \in [Rows -> Nat]
  /\ accepted \in [Rows -> Nat]
  /\ conn \in BOOLEAN
  /\ kick \in BOOLEAN
  /\ backoff \in Nat
  /\ backoff >= Interval
  /\ backoff <= MaxBackoff \/ backoff = Interval
  /\ faults \in 0..MaxFaults
  /\ late \subseteq Rows

(* "Sent only after ack": a row whose durable status says sent is a row    *)
(* the broker durably accepted at least once, through every crash, lost    *)
(* ack, nack and reconnect.                                                *)
SentOnlyAfterAck ==
  \A r \in Rows : status[r] = "sent" => accepted[r] > 0

(* Quarantine is exact: no row the contract admits is ever quarantined,    *)
(* whatever fails around it, and no row it refuses ever reaches the bus.   *)
QuarantineExact ==
  \A r \in Rows :
    /\ status[r] = "quarantined" => r \notin Valid
    /\ r \notin Valid => accepted[r] = 0 /\ orphans[r] = 0

(* Every extra copy is paid for by a fault: a row is accepted more than    *)
(* once only after as many faults (drop, nack, failed write, crash,        *)
(* shutdown); kicks, polls and flushes alone never publish a row twice.    *)
CopiesNeedFaults ==
  \A r \in Rows : accepted[r] <= 1 + faults

(* Oldest first: while a row is being published, no older row is pending   *)
(* unless it was inserted after the batch was fetched, quarantined rows,   *)
(* partial drains and restarts notwithstanding.                            *)
OldestFirst ==
  pc \in {"confirm", "mark"} =>
    \A r \in Pending : r < Cur => r \in late

(* Once the faults stop, every pending row is settled: the timer is a      *)
(* backstop for lost kicks, an invalid row never blocks the rows behind    *)
(* it, and the batch limit starves no row.                                 *)
EveryRowSettles ==
  \A r \in Rows :
    status[r] = "pending" ~> status[r] \in {"sent", "quarantined"}

(* The outbox implements the at-least-once promise.                        *)
ALOP == INSTANCE AtLeastOncePublish WITH
          produced  <- {r \in Rows : status[r] # "absent"},
          owed      <- Pending,
          published <- accepted

ImplementsAtLeastOnce == ALOP!Spec
=============================================================================
