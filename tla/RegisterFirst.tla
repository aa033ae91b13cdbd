--------------------------- MODULE RegisterFirst ----------------------------
(***************************************************************************)
(* Register-first: before its first session Timing resolves each driver's  *)
(* email to a masterId (simulator.go, Prepare).  Resolve publishes a       *)
(* lookup and waits on a channel for the reply; it publishes the lookup    *)
(* again, under the same requestId and a new envelope id, until a reply    *)
(* comes.  The consumer of identity.resolved marks a reply seen in the     *)
(* inbox and then signals the waiter, outside the transaction              *)
(* (services/timing/internal/consumer/resolver.go, consumer.go).           *)
(***************************************************************************)
EXTENDS Identity

CONSTANTS Rosters,    \* the sequences of driver addresses to try
          MaxCrashes  \* bound on Timing's restarts

ASSUME RostersOK ==
  /\ \A r \in Rosters : r \in Seq(Addresses) /\ r # <<>>
  /\ MaxCrashes \in Nat

VARIABLES
  roster,      \* the drivers to resolve, in order
  pc,          \* the simulator's goroutine
  ids,         \* masterIds resolved since the process started
  req,         \* requestId of the latest Resolve
  ch,          \* the waiter's channel, of capacity 1
  replies,     \* Timing's queue of identity.resolved
  timingSeen,  \* Timing's inbox
  marked,      \* the consumer is between the commit and the signal
  crashes      \* crashes of Timing so far

vars == <<identityVars, roster, pc, ids, req, ch, replies, timingSeen, marked, crashes>>
timingVars == <<roster, pc, ids, req, ch, replies, timingSeen, marked, crashes>>

Cur == roster[Len(ids) + 1]
Waiting == pc \in {"publish", "wait", "backoff"}

Init ==
  /\ IdentityInit
  /\ roster \in Rosters
  /\ pc = "down"
  /\ ids = <<>>
  /\ req = 0
  /\ ch = <<>>
  /\ replies = <<>>
  /\ timingSeen = {}
  /\ marked = FALSE
  /\ crashes = 0

(***************************************************************************)
(* Resolve, called for one driver after the other.                         *)
(***************************************************************************)
NextResolve ==
  /\ req' = req + 1
  /\ ch' = <<>>
  /\ pc' = "publish"

Start ==
  /\ pc = "down"
  /\ ids' = <<>>
  /\ NextResolve
  /\ UNCHANGED <<identityVars, roster, replies, timingSeen, marked, crashes>>

PublishLookup ==
  /\ pc = "publish"
  /\ Cur \notin Malformed
  /\ Submit("lookup_requested", req, Cur, NoMaster)
  /\ pc' = "wait"
  /\ UNCHANGED <<bound, seen, rows, minted, suppressed, tombstones, held, erased,
                 outbox, parked, asked, faults>>
  /\ UNCHANGED <<roster, ids, req, ch, replies, timingSeen, marked, crashes>>

(* The publish reports a failure; the broker may have taken the lookup all *)
(* the same.                                                               *)
PublishFails ==
  /\ pc = "publish"
  /\ Cur \notin Malformed
  /\ Fault
  /\ Submit("lookup_requested", req, Cur, NoMaster) \/ UNCHANGED queue
  /\ pc' = "backoff"
  /\ UNCHANGED <<bound, seen, rows, minted, suppressed, tombstones, held, erased,
                 outbox, parked, asked>>
  /\ UNCHANGED <<roster, ids, req, ch, replies, timingSeen, marked, crashes>>

(* A lookup the contract rejects can never be published: Prepare gives up. *)
PublishPermanentError ==
  /\ pc = "publish"
  /\ Cur \in Malformed
  /\ pc' = "failed"
  /\ UNCHANGED <<identityVars, roster, ids, req, ch, replies, timingSeen, marked, crashes>>

RetryDue ==
  /\ pc \in {"wait", "backoff"}
  /\ pc' = "publish"
  /\ UNCHANGED <<identityVars, roster, ids, req, ch, replies, timingSeen, marked, crashes>>

Receive ==
  /\ pc = "wait"
  /\ ch # <<>>
  /\ ids' = Append(ids, Head(ch))
  /\ IF Len(ids') < Len(roster)
     THEN NextResolve
     ELSE pc' = "ready" /\ ch' = <<>> /\ req' = req
  /\ UNCHANGED <<identityVars, roster, replies, timingSeen, marked, crashes>>

(***************************************************************************)
(* The relay of Identity and the consumer of Timing.                       *)
(***************************************************************************)
InFlight == Carried(outbox) \cup Carried(replies)

PublishReply ==
  /\ outbox # <<>>
  /\ Len(replies) < MaxReplies
  /\ replies' = Append(replies, Head(outbox))
  /\ \/ outbox' = Tail(outbox) /\ UNCHANGED faults
     \/ outbox' = outbox /\ Fault
  /\ UNCHANGED <<bound, queue, seen, rows, minted, suppressed, tombstones, held,
                 erased, parked, asked>>
  /\ UNCHANGED <<roster, pc, ids, req, ch, timingSeen, marked, crashes>>

Up == pc # "down"
Rep == Head(replies)

(* Deliver, first part: the inbox transaction.                             *)
MarkSeen ==
  /\ Up /\ replies # <<>> /\ ~marked
  /\ Rep.id \notin timingSeen
  /\ timingSeen' = timingSeen \cup {Rep.id}
  /\ marked' = TRUE
  /\ UNCHANGED <<identityVars, roster, pc, ids, req, ch, replies, crashes>>

(* The ack: taken, or lost and the reply comes again.                      *)
SettleReply ==
  /\ \/ replies' = Tail(replies) /\ UNCHANGED faults
     \/ replies' = replies /\ Fault
  /\ timingSeen' = timingSeen \cap (Carried(outbox) \cup Carried(replies'))

(* Second part: the signal.  A reply that finds the channel full, or no    *)
(* waiter for its requestId, is dropped.  The mutants send without looking *)
(* whether the channel is full, and hand the reply to whoever waits.       *)
SendBlindly(reply) ==
  ch' = IF Waiting /\ reply.req = req THEN Append(ch, reply.master) ELSE ch

SignalAnyWaiter(reply) ==
  ch' = IF Waiting /\ ch = <<>> THEN <<reply.master>> ELSE ch

Signal(reply) ==
  ch' = IF Waiting /\ reply.req = req /\ ch = <<>> THEN <<reply.master>> ELSE ch

DeliverReply ==
  /\ marked
  /\ Signal(Rep)
  /\ SettleReply
  /\ marked' = FALSE
  /\ UNCHANGED <<bound, queue, seen, rows, minted, suppressed, tombstones, held,
                 erased, outbox, parked, asked>>
  /\ UNCHANGED <<roster, pc, ids, req, crashes>>

DeliverDuplicate ==
  /\ Up /\ replies # <<>> /\ ~marked
  /\ Rep.id \in timingSeen
  /\ SettleReply
  /\ UNCHANGED <<bound, queue, seen, rows, minted, suppressed, tombstones, held,
                 erased, outbox, parked, asked>>
  /\ UNCHANGED <<roster, pc, ids, req, ch, marked, crashes>>

DeliverFails ==
  /\ Up /\ replies # <<>> /\ ~marked
  /\ Fault
  /\ replies' = IF Rep.tries + 1 >= MaxAttempts
                THEN Tail(replies)
                ELSE Append(Tail(replies), Retried(Rep))
  /\ timingSeen' = timingSeen \cap (Carried(outbox) \cup Carried(replies'))
  /\ UNCHANGED <<bound, queue, seen, rows, minted, suppressed, tombstones, held,
                 erased, outbox, parked, asked>>
  /\ UNCHANGED <<roster, pc, ids, req, ch, marked, crashes>>

(* The waiters, the channel and the resolved ids live in memory only.      *)
Crash ==
  /\ Up
  /\ crashes < MaxCrashes
  /\ crashes' = crashes + 1
  /\ pc' = "down"
  /\ ids' = <<>>
  /\ ch' = <<>>
  /\ marked' = FALSE
  /\ UNCHANGED <<identityVars, roster, req, replies, timingSeen>>

Next ==
  \/ IdentityNext(InFlight) /\ UNCHANGED timingVars
  \/ Start \/ PublishLookup \/ PublishFails \/ PublishPermanentError
  \/ RetryDue \/ Receive
  \/ PublishReply \/ MarkSeen \/ DeliverReply \/ DeliverDuplicate \/ DeliverFails
  \/ Crash

(* Every loop keeps running: both consumers, the relay, the simulator's    *)
(* goroutine and the process supervisor.  A waiter that finds its channel  *)
(* filled when it enters the select takes it at once, before the timer can *)
(* fire: it cannot miss it round after round (SF).                         *)
Fairness ==
  /\ WF_vars(Bind /\ UNCHANGED timingVars)
  /\ WF_vars(Handle(InFlight) /\ UNCHANGED timingVars)
  /\ WF_vars(Start)
  /\ WF_vars(PublishLookup)
  /\ WF_vars(PublishPermanentError)
  /\ WF_vars(RetryDue)
  /\ SF_vars(Receive)
  /\ WF_vars(PublishReply)
  /\ WF_vars(MarkSeen)
  /\ WF_vars(DeliverReply)
  /\ WF_vars(DeliverDuplicate)

Spec == Init /\ [][Next]_vars /\ Fairness

-----------------------------------------------------------------------------
MaxReq == (MaxCrashes + 1) * Len(roster)
Ids == 1..(MaxQueue + 2 * MaxReplies + 1)

TypeOK ==
  /\ bound \in BOOLEAN
  /\ queue \in Seq([id : Ids, type : {"lookup_requested", "erasure_requested"},
                    req : 0..MaxReq, addr : Addresses, master : Masters,
                    tries : 0..(MaxAttempts - 1)])
  /\ Len(queue) <= MaxQueue
  /\ seen \subseteq Ids
  /\ rows \in [Mailboxes -> Masters]
  /\ minted \in Seq(Mailboxes)
  /\ suppressed \subseteq Mailboxes
  /\ tombstones \subseteq Masters /\ erased \subseteq Masters /\ parked \subseteq Masters
  /\ held \subseteq 1..MaxReq
  /\ outbox \in Seq([id : Ids, req : 1..MaxReq, master : Masters, tries : {0}])
  /\ asked \in 0..MaxErasures /\ faults \in 0..MaxFaults
  /\ roster \in Rosters
  /\ pc \in {"down", "publish", "wait", "backoff", "ready", "failed"}
  /\ ids \in Seq(Masters) /\ Len(ids) <= Len(roster)
  /\ req \in 0..MaxReq
  /\ ch \in Seq(Masters) /\ Len(ch) <= 1
  /\ replies \in Seq([id : Ids, req : 1..MaxReq, master : Masters,
                      tries : 0..(MaxAttempts - 1)])
  /\ timingSeen \subseteq Ids
  /\ marked \in BOOLEAN
  /\ crashes \in 0..MaxCrashes

(* One mailbox gets one masterId, ever: through spelling variants, lookups *)
(* under several requests, redeliveries and crashes, and an erased one is  *)
(* never minted again (ResolveOrMint, IsEmailSuppressed).                  *)
OneIdPerMailbox ==
  \A i, j \in DOMAIN minted : minted[i] = minted[j] => i = j

(* A driver goes on track under the masterId of its own mailbox, whichever *)
(* of the replies to earlier requests and lookups reached the waiter.      *)
RightId ==
  \A i \in DOMAIN ids : ids[i] \in DOMAIN minted /\ minted[ids[i]] = Normalized[roster[i]]

(* privacy.erased tells the truth for good: once it is enqueued for a      *)
(* masterId Identity keeps no row for it, and blocks its mailbox.          *)
ErasedForGood ==
  \A m \in erased \ {NoMaster} :
    /\ m \in tombstones
    /\ \A b \in Mailboxes : rows[b] # m
    /\ minted[m] \in suppressed

(* Preparation ends unless a driver was erased: every Resolve returns,     *)
(* through lookups dropped before Identity bound its queue, failed         *)
(* publishes, parked messages and a reply marked seen whose signal was     *)
(* lost in a crash.                                                        *)
EveryDriverResolves ==
  []<>(pc \in {"ready", "failed"} \/ (Waiting /\ Normalized[Cur] \in suppressed))

(* A driver who waits in vain, because his address is suppressed, has his  *)
(* lookup on record for the operator.                                      *)
HeldOnRecord ==
  []<>((Waiting /\ Normalized[Cur] \in suppressed) => req \in held)

(* An erasure request in the queue is carried out or parked.               *)
ErasureSettles ==
  \A m \in Masters :
    (\E i \in DOMAIN queue : queue[i].type = "erasure_requested" /\ queue[i].master = m)
      ~> (m \in erased \cup parked)
=============================================================================
