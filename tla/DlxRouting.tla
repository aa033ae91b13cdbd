----------------------------- MODULE DlxRouting -----------------------------
(***************************************************************************)
(* How failed messages travel when several consumers declare their DLQ     *)
(* topology (libs/go-pitwall/messaging/dlq.go, DeclareDLQTopology) on one  *)
(* broker.  A dead-letter exchange is a direct exchange: it copies a       *)
(* message to EVERY queue bound with its routing key, and each consumer    *)
(* binds its retry, work and parking queues with the same three keys.      *)
(* Connections, crashes and lost acks are the business of module Delivery. *)
(***************************************************************************)
EXTENDS Naturals, FiniteSets

CONSTANTS Queues,       \* the consumers' work queues
          Msgs,         \* messages
          HomeOf,       \* the queue whose source exchange routes each message
          DlxOf,        \* ConsumerOptions.DLXExchange of each queue
          MaxAttempts,  \* Policy.MaxAttempts
          MaxCopies     \* bound on the copies one queue holds of a message

ASSUME RoutingConstantsOK ==
  /\ HomeOf \in [Msgs -> Queues]
  /\ DOMAIN DlxOf = Queues
  /\ MaxAttempts \in Nat \ {0}
  /\ MaxCopies \in Nat \ {0}

VARIABLES
  sent,      \* messages the source exchanges have routed
  work,      \* copies in each work queue, by message and retry count
  retry,     \* copies in each queue's retry queue
  parking,   \* copies in each queue's parking queue, by message
  attempts   \* history: failed attempts at each message by its own consumer

vars == <<sent, work, retry, parking, attempts>>

Hops == 0..(MaxAttempts - 1)

(* The queues whose bindings on the DLX of q match a given key: all three  *)
(* keys are bound by every consumer that names that exchange.  The mutant  *)
(* has one exchange for all.                                               *)
BoundAnywhere(q) == Queues

BoundWith(q) == {p \in Queues : DlxOf[p] = DlxOf[q]}

Init ==
  /\ sent = {}
  /\ work = [q \in Queues |-> [d \in Msgs \X Hops |-> 0]]
  /\ retry = [q \in Queues |-> [d \in Msgs \X Hops |-> 0]]
  /\ parking = [q \in Queues |-> [m \in Msgs |-> 0]]
  /\ attempts = [m \in Msgs |-> 0]

Routed(bags, q, d) ==
  [p \in Queues |-> IF p \in BoundWith(q) THEN [bags[p] EXCEPT ![d] = @ + 1] ELSE bags[p]]

Room(bags, q, d) == \A p \in BoundWith(q) : bags[p][d] < MaxCopies

Send(m) ==
  /\ m \notin sent
  /\ sent' = sent \cup {m}
  /\ work' = [work EXCEPT ![HomeOf[m]][<<m, 0>>] = @ + 1]
  /\ UNCHANGED <<retry, parking, attempts>>

Taken(q, d) == [work EXCEPT ![q][d] = @ - 1]

(* Handled, or of a type this consumer does not handle: acked.             *)
Ack(q, d) ==
  /\ work[q][d] > 0
  /\ work' = Taken(q, d)
  /\ UNCHANGED <<sent, retry, parking, attempts>>

(* The transaction fails: below the cap a copy goes to the DLX with the    *)
(* retry key ...                                                           *)
FailRetry(q, d) ==
  /\ work[q][d] > 0 /\ HomeOf[d[1]] = q
  /\ d[2] + 1 < MaxAttempts
  /\ LET next == <<d[1], d[2] + 1>>
     IN  Room(retry, q, next) /\ retry' = Routed(retry, q, next)
  /\ work' = Taken(q, d)
  /\ attempts' = [attempts EXCEPT ![d[1]] = @ + 1]
  /\ UNCHANGED <<sent, parking>>

(* ... and at the cap with the park key.                                   *)
FailPark(q, d) ==
  /\ work[q][d] > 0 /\ HomeOf[d[1]] = q
  /\ d[2] + 1 >= MaxAttempts
  /\ Room(parking, q, d[1])
  /\ parking' = Routed(parking, q, d[1])
  /\ work' = Taken(q, d)
  /\ attempts' = [attempts EXCEPT ![d[1]] = @ + 1]
  /\ UNCHANGED <<sent, retry>>

(* A retry whose TTL ran out is dead-lettered with the redeliver key.      *)
Expire(q, d) ==
  /\ retry[q][d] > 0
  /\ Room(work, q, d)
  /\ retry' = [retry EXCEPT ![q][d] = @ - 1]
  /\ work' = Routed(work, q, d)
  /\ UNCHANGED <<sent, parking, attempts>>

Next ==
  \/ \E m \in Msgs : Send(m)
  \/ \E q \in Queues, d \in Msgs \X Hops :
       Ack(q, d) \/ FailRetry(q, d) \/ FailPark(q, d) \/ Expire(q, d)

Spec == Init /\ [][Next]_vars

----------------------------------------------------------------------------
(* A consumer's failures stay its own: no copy of a message reaches the    *)
(* retry, work or parking queue of a consumer it was not routed to.        *)
Isolation ==
  \A q \in Queues, m \in Msgs : HomeOf[m] # q =>
    /\ parking[q][m] = 0
    /\ \A h \in Hops : work[q][<<m, h>>] = 0 /\ retry[q][<<m, h>>] = 0

(* "Total processing attempts (the live delivery + retries) before         *)
(* parking": a message that keeps failing is tried MaxAttempts times and   *)
(* parked once.                                                            *)
AttemptBudget ==
  \A m \in Msgs :
    /\ attempts[m] <= MaxAttempts
    /\ parking[HomeOf[m]][m] <= 1
=============================================================================
