------------------------------ MODULE Delivery ------------------------------
(***************************************************************************)
(* The consumer half of the reliability spine: one work queue with its     *)
(* retry and parking queues (libs/go-pitwall/messaging/dlq.go), the        *)
(* reconnecting consumer Bus that pumps deliveries into one handler        *)
(* (messaging/consumer.go), the retry policy (dlq/dlq.go), and the shape   *)
(* every service's handler has: validate, apply the effect and the inbox   *)
(* row in one transaction, then ack; on failure republish to the DLX, then *)
(* ack the original.                                                       *)
(*                                                                         *)
(* A copy of a message is known by the message and the retry count it      *)
(* carries.  Retries, requeues and redeliveries reorder a queue, so a      *)
(* queue is a bag of copies, delivered in any order and without regard to  *)
(* the prefetch, which only limits how many are out at a time.             *)
(***************************************************************************)
EXTENDS Naturals, FiniteSets

CONSTANTS Handled,      \* messages of a type the handler applies
          Ignored,      \* valid messages of a type it does not handle
          Poison,       \* messages that fail validation or decoding
          MaxAttempts,  \* Policy.MaxAttempts
          MaxFaults,    \* bound on the faults the environment injects
          None          \* no delivery

Msgs == Handled \cup Ignored \cup Poison

(* Retry counts, one past the last that NextRetry lets through, and copies.*)
Hops == 0..MaxAttempts
Copies == Msgs \X Hops

ASSUME DeliveryConstantsOK ==
  /\ Handled \cap Ignored = {}
  /\ Handled \cap Poison = {}
  /\ Ignored \cap Poison = {}
  /\ None \notin Copies
  /\ MaxAttempts \in Nat \ {0}
  /\ MaxFaults \in Nat

VARIABLES
  sent,      \* messages routed to the work queue at least once
  work,      \* copies ready in the work queue
  retry,     \* copies waiting out their TTL in the retry queue
  parking,   \* copies of each message in the parking queue
  fresh,     \* unacked copies the Bus holds for the handler
  cur,       \* the delivery the handler works on, or None
  live,      \* the channel of that delivery is the current one
  pc,        \* the handler: "idle", "process", "retry", "park", "ack"
  wire,      \* unacked copies the handler has settled, by settlement: what it
             \* wrote to the channel and the broker has not processed yet
  stale,     \* deliveries of a dead connection the Bus still holds
  conn,      \* the consumer's channel: "up", "down", "mute" (the channel is
             \* closed under a connection that is up)
  up,        \* the process is running
  inbox,     \* the durable inbox table
  effects,   \* how often each message's effect was committed
  failures,  \* history: failed transactions per message, up to MaxAttempts
  faults     \* faults so far

queues == <<work, retry, parking>>
client == <<fresh, cur, live, pc, wire, stale>>
store == <<inbox, effects>>
vars == <<sent, queues, client, conn, up, store, failures, faults>>

(* "retry" and "park" stand for a DLX publish with the ack behind it.      *)
Settlements == {"ack", "nack", "retry", "park"}

NoCopies == [d \in Copies |-> 0]
Add(bag, d) == [bag EXCEPT ![d] = @ + 1]
Remove(bag, d) == [bag EXCEPT ![d] = @ - 1]
Move(d, from, to) ==
  [wire EXCEPT ![from] = Remove(@, d), ![to] = Add(@, d)]

Init ==
  /\ sent = {}
  /\ work = NoCopies
  /\ retry = NoCopies
  /\ parking = [m \in Msgs |-> 0]
  /\ fresh = NoCopies
  /\ cur = None
  /\ live = FALSE
  /\ pc = "idle"
  /\ wire = [k \in Settlements |-> NoCopies]
  /\ stale = NoCopies
  /\ conn = "up"
  /\ up = TRUE
  /\ inbox = {}
  /\ effects = [m \in Msgs |-> 0]
  /\ failures = [m \in Msgs |-> 0]
  /\ faults = 0

Fault == faults < MaxFaults /\ faults' = faults + 1

(* A producer's outbox publishes the message, and after a fault of its own *)
(* publishes it again.                                                     *)
Send(m) ==
  /\ IF m \in sent THEN Fault ELSE UNCHANGED faults
  /\ sent' = sent \cup {m}
  /\ work' = Add(work, <<m, 0>>)
  /\ UNCHANGED <<retry, parking, client, conn, up, store, failures>>

----------------------------------------------------------------------------
(* The broker.                                                             *)

Deliver(d) ==
  /\ conn = "up"
  /\ work[d] > 0
  /\ work' = Remove(work, d)
  /\ fresh' = Add(fresh, d)
  /\ UNCHANGED <<sent, retry, parking, cur, live, pc, wire, stale, conn, up, store,
                 failures, faults>>

(* The TTL of a retry runs out: it is dead-lettered to the work queue.     *)
Expire(d) ==
  /\ retry[d] > 0
  /\ retry' = Remove(retry, d)
  /\ work' = Add(work, d)
  /\ UNCHANGED <<sent, parking, client, conn, up, store, failures, faults>>

(* The DLX routes a retry, with its count incremented, to the retry queue  *)
(* and a park to the parking queue.                                        *)
RouteRetry(d) ==
  /\ retry' = Add(retry, <<d[1], d[2] + 1>>)
  /\ UNCHANGED <<work, parking>>

RoutePark(d) ==
  /\ parking' = [parking EXCEPT ![d[1]] = @ + 1]
  /\ UNCHANGED <<work, retry>>

(* The broker processes a channel in order: the publish, then its ack.     *)
ProcessRetry(d) ==
  /\ wire["retry"][d] > 0
  /\ wire' = Move(d, "retry", "ack")
  /\ RouteRetry(d)
  /\ UNCHANGED <<sent, fresh, cur, live, pc, stale, conn, up, store, failures, faults>>

ProcessPark(d) ==
  /\ wire["park"][d] > 0
  /\ wire' = Move(d, "park", "ack")
  /\ RoutePark(d)
  /\ UNCHANGED <<sent, fresh, cur, live, pc, stale, conn, up, store, failures, faults>>

ProcessAck(d) ==
  /\ wire["ack"][d] > 0
  /\ wire' = [wire EXCEPT !["ack"] = Remove(@, d)]
  /\ UNCHANGED <<sent, queues, fresh, cur, live, pc, stale, conn, up, store, failures,
                 faults>>

ProcessNack(d) ==
  /\ wire["nack"][d] > 0
  /\ wire' = [wire EXCEPT !["nack"] = Remove(@, d)]
  /\ work' = Add(work, d)
  /\ UNCHANGED <<sent, retry, parking, fresh, cur, live, pc, stale, conn, up, store,
                 failures, faults>>

----------------------------------------------------------------------------
(* The handler, one delivery at a time.                                    *)

TakeFresh(d) ==
  /\ pc = "idle" /\ fresh[d] > 0
  /\ fresh' = Remove(fresh, d)
  /\ cur' = d /\ live' = TRUE /\ pc' = "process"
  /\ UNCHANGED <<sent, queues, wire, stale, conn, up, store, failures, faults>>

TakeStale(d) ==
  /\ pc = "idle" /\ stale[d] > 0
  /\ stale' = Remove(stale, d)
  /\ cur' = d /\ live' = FALSE /\ pc' = "process"
  /\ UNCHANGED <<sent, queues, fresh, wire, conn, up, store, failures, faults>>

(* The client library drops what its dead channel had buffered.            *)
DropStale(d) ==
  /\ stale[d] > 0
  /\ stale' = Remove(stale, d)
  /\ UNCHANGED <<sent, queues, fresh, cur, live, pc, wire, conn, up, store, failures,
                 faults>>

Goto(label) ==
  /\ pc' = label
  /\ UNCHANGED <<sent, queues, fresh, cur, live, wire, stale, conn, up, faults>>

(* A message that fails validation or decoding is parked at once.          *)
RejectInvalid ==
  /\ pc = "process" /\ cur[1] \in Poison
  /\ Goto("park")
  /\ UNCHANGED <<store, failures>>

(* Tolerant reader: a valid type without a handler is acked.               *)
IgnoreType ==
  /\ pc = "process" /\ cur[1] \in Ignored
  /\ Goto("ack")
  /\ UNCHANGED <<store, failures>>

(* One transaction: look the id up in the inbox, apply, mark it seen.  The *)
(* mutant skips the lookup.                                                *)
ApplyUnchecked ==
  /\ pc = "process" /\ cur[1] \in Handled
  /\ inbox' = inbox \cup {cur[1]}
  /\ effects' = [effects EXCEPT ![cur[1]] = @ + 1]
  /\ Goto("ack")
  /\ UNCHANGED failures

Apply ==
  /\ pc = "process" /\ cur[1] \in Handled
  /\ IF cur[1] \in inbox
     THEN UNCHANGED store
     ELSE /\ inbox' = inbox \cup {cur[1]}
          /\ effects' = [effects EXCEPT ![cur[1]] = @ + 1]
  /\ Goto("ack")
  /\ UNCHANGED failures

(* NextRetry: the live delivery counts as the first attempt.  The mutants  *)
(* park one attempt early and one late.                                    *)
ParkEarly(h) == h + 2 >= MaxAttempts

ParkLate(h) == h >= MaxAttempts

ParkNow(h) == h + 1 >= MaxAttempts

(* The transaction fails and is rolled back.  The mutant commits it.       *)
FailCommitted ==
  /\ pc = "process" /\ cur[1] \in Handled
  /\ failures' = [failures EXCEPT ![cur[1]] = IF @ < MaxAttempts THEN @ + 1 ELSE @]
  /\ inbox' = inbox \cup {cur[1]}
  /\ effects' = [effects EXCEPT ![cur[1]] = 1]
  /\ Goto(IF ParkNow(cur[2]) THEN "park" ELSE "retry")

ApplyFails ==
  /\ pc = "process" /\ cur[1] \in Handled
  /\ failures' = [failures EXCEPT ![cur[1]] = IF @ < MaxAttempts THEN @ + 1 ELSE @]
  /\ Goto(IF ParkNow(cur[2]) THEN "park" ELSE "retry")
  /\ UNCHANGED store

(* The handler is done with a delivery of the current channel.             *)
Settle(how) ==
  /\ live
  /\ wire' = [wire EXCEPT ![how] = Add(@, cur)]
  /\ cur' = None /\ live' = FALSE /\ pc' = "idle"
  /\ UNCHANGED <<sent, queues, fresh, stale, conn, up, store, failures>>

(* retryOrPark and park: publish to the DLX on the current channel, then   *)
(* ack the original on its own.  The mutant acks whatever the publish did. *)
RepublishOrAck ==
  /\ pc \in {"retry", "park"}
  /\ Settle(pc) \/ Settle("ack")
  /\ UNCHANGED faults

Republish ==
  /\ pc \in {"retry", "park"}
  /\ Settle(pc)
  /\ UNCHANGED faults

(* The publish fails: nack with requeue, no ack.                           *)
RepublishFails ==
  /\ pc \in {"retry", "park"}
  /\ Fault
  /\ Settle("nack")

Ack ==
  /\ pc = "ack"
  /\ Settle("ack")
  /\ UNCHANGED faults

(* The delivery's channel is gone: a new channel takes the publish, which  *)
(* nothing confirms, or none does; the ack or nack that follows fails, and *)
(* the broker has requeued the original.                                   *)
SettleStale ==
  /\ pc \in {"retry", "park", "ack"} /\ ~live
  /\ \/ UNCHANGED queues
     \/ conn = "up" /\ pc = "retry" /\ RouteRetry(cur)
     \/ conn = "up" /\ pc = "park" /\ RoutePark(cur)
  /\ cur' = None /\ pc' = "idle"
  /\ UNCHANGED <<sent, fresh, live, wire, stale, conn, up, store, failures, faults>>

----------------------------------------------------------------------------
(* Connection and process.                                                 *)

(* The channel closes: the settlements still on the wire are lost with it  *)
(* and the broker requeues what is unacked.                                *)
Requeue ==
  /\ work' = [d \in Copies |->
                work[d] + fresh[d] + (IF live /\ cur = d THEN 1 ELSE 0)
                + wire["ack"][d] + wire["nack"][d] + wire["retry"][d] + wire["park"][d]]
  /\ wire' = [k \in Settlements |-> NoCopies]
  /\ fresh' = NoCopies
  /\ live' = FALSE
  /\ UNCHANGED <<retry, parking>>

(* The pump of a dead channel may still hand over what it holds.           *)
ChannelGone ==
  /\ Requeue
  /\ stale' = [d \in Copies |-> stale[d] + fresh[d]]
  /\ UNCHANGED <<sent, cur, pc, up, store, failures>>

ConnLost ==
  /\ conn # "down"
  /\ Fault
  /\ conn' = "down"
  /\ ChannelGone

(* The supervisor dials, redeclares the topology and subscribes again.     *)
(* The mutant forgets to subscribe.                                        *)
ReconnectMute ==
  /\ up /\ conn = "down"
  /\ conn' = "mute"
  /\ UNCHANGED <<sent, queues, client, up, store, failures, faults>>

Reconnect ==
  /\ up /\ conn = "down"
  /\ conn' = "up"
  /\ UNCHANGED <<sent, queues, client, up, store, failures, faults>>

(* The process stops or dies: only the database and the broker survive.    *)
Crash ==
  /\ up
  /\ Fault
  /\ up' = FALSE
  /\ conn' = "down"
  /\ Requeue
  /\ stale' = NoCopies
  /\ cur' = None /\ pc' = "idle"
  /\ UNCHANGED <<sent, store, failures>>

Start ==
  /\ ~up
  /\ up' = TRUE
  /\ conn' = "up"
  /\ UNCHANGED <<sent, queues, client, store, failures, faults>>

----------------------------------------------------------------------------
Broker ==
  \E d \in Copies :
    \/ Deliver(d) \/ Expire(d)
    \/ ProcessRetry(d) \/ ProcessPark(d) \/ ProcessAck(d) \/ ProcessNack(d)

Handler ==
  \/ \E d \in Copies : TakeFresh(d) \/ TakeStale(d) \/ DropStale(d)
  \/ RejectInvalid \/ IgnoreType \/ Apply \/ ApplyFails
  \/ Republish \/ Ack \/ SettleStale

Next ==
  \/ \E m \in Msgs : Send(m)
  \/ Broker
  \/ Handler \/ RepublishFails
  \/ ConnLost \/ Reconnect \/ Crash \/ Start

Spec == Init /\ [][Next]_vars

(* The broker serves its queues and its connections, the handler goroutine *)
(* runs, the supervisor keeps dialling and the platform restarts the       *)
(* process.  A transaction may fail every time.                            *)
Fairness ==
  /\ WF_vars(Broker)
  /\ WF_vars(Handler)
  /\ WF_vars(Reconnect)
  /\ WF_vars(Start)

FairSpec == Spec /\ Fairness

----------------------------------------------------------------------------
(* The broker holds copy d, other than one about to be acked.              *)
Kept(d) ==
  \/ work[d] > 0 \/ retry[d] > 0 \/ fresh[d] > 0
  \/ live /\ cur = d
  \/ \E k \in Settlements \ {"ack"} : wire[k][d] > 0

Domains ==
  /\ sent \subseteq Msgs
  /\ work \in [Copies -> Nat]
  /\ retry \in [Copies -> Nat]
  /\ parking \in [Msgs -> Nat]
  /\ fresh \in [Copies -> Nat]
  /\ cur \in Copies \cup {None}
  /\ live \in BOOLEAN
  /\ pc \in {"idle", "process", "retry", "park", "ack"}
  /\ wire \in [Settlements -> [Copies -> Nat]]
  /\ stale \in [Copies -> Nat]
  /\ conn \in {"up", "down", "mute"}
  /\ up \in BOOLEAN
  /\ inbox \subseteq Handled
  /\ effects \in [Msgs -> Nat]
  /\ failures \in [Msgs -> 0..MaxAttempts]
  /\ faults \in 0..MaxFaults

(* Every variable keeps to its domain, and no copy the broker holds ever   *)
(* carries more than MaxAttempts - 1 retries, whatever the mix of failures *)
(* and drops.                                                              *)
TypeOK == Domains /\ \A m \in Msgs : ~ Kept(<<m, MaxAttempts>>)

Parked == {m \in Msgs : parking[m] > 0}

Queued ==
  {m \in Msgs : \E h \in Hops : Kept(<<m, h>>) \/ wire["ack"][<<m, h>>] > 0}

(* Never lost: whatever drops, crashes or fails, and although no DLX       *)
(* publish is confirmed, a message that was sent is applied, of an ignored *)
(* type, parked, or queued in a copy that is not about to be acked.        *)
NeverLost ==
  \A m \in sent :
    m \in inbox \cup Ignored \cup Parked \/ \E h \in Hops : Kept(<<m, h>>)

(* The effect happens once: redeliveries, duplicate sends, stale           *)
(* deliveries and crashes between commit and ack never apply it again, and *)
(* the inbox tells exactly which effects happened.                         *)
EffectOnce ==
  \A m \in Msgs : effects[m] = IF m \in inbox THEN 1 ELSE 0

(* Parked for cause: a message is parked only because it is poison or      *)
(* because its transaction failed MaxAttempts times; drops, crashes and    *)
(* duplicate copies never use up its attempts.                             *)
ParkedForCause ==
  \A m \in Parked : m \in Poison \/ failures[m] >= MaxAttempts

(* Without a fault the retry path itself never duplicates a message: no    *)
(* message is both parked and applied, or parked twice, or parked with a   *)
(* copy left to process.                                                   *)
NoFaultNoDuplicate ==
  faults = 0 =>
    \A m \in Parked :
      parking[m] = 1 /\ m \notin inbox /\ \A h \in Hops : ~ Kept(<<m, h>>)

(* Everything is settled in the end: once the faults stop, the work and    *)
(* retry queues empty for good, nothing stays unacked and the handler goes *)
(* idle, even if every transaction fails.                                  *)
EventuallyDrained ==
  <>[](Queued = {} /\ pc = "idle" /\ stale = NoCopies)

(* The consumer implements effectively-once processing.                    *)
EO == INSTANCE EffectivelyOnce WITH
        queued  <- Queued,
        applied <- inbox,
        parked  <- Parked

ImplementsEffectivelyOnce == EO!Spec
=============================================================================
