--------------------------- MODULE DeliveryProofs ---------------------------
(***************************************************************************)
(* The safety of the consumer path, for every set of messages, retry       *)
(* budget and number of faults: nothing is lost, nothing is applied twice, *)
(* nothing is parked without cause, the whole implements effectively-once  *)
(* processing, and without a fault no message is ever in two copies.       *)
(***************************************************************************)
EXTENDS Delivery, TLAPS

(* Copy d is somewhere: with the broker or with the client.                *)
Present(d) ==
  \/ work[d] > 0 \/ retry[d] > 0 \/ fresh[d] > 0 \/ stale[d] > 0
  \/ cur = d
  \/ \E k \in Settlements : wire[k][d] > 0

(* A copy is of a message that was sent, and every retry it carries stands *)
(* for a failed transaction of that message.                               *)
CopyInv ==
  \A d \in Copies :
    Present(d) => d[1] \in sent /\ d[2] < MaxAttempts /\ d[2] <= failures[d[1]]

(* What the handler is about to do is justified.                           *)
MayRetry(d) == d[2] + 1 < MaxAttempts /\ d[2] + 1 <= failures[d[1]]
MayPark(m) == m \notin Ignored /\ (m \in Poison \/ failures[m] >= MaxAttempts)

HandlerInv ==
  /\ pc = "idle" <=> cur = None
  /\ live => cur # None
  /\ pc = "retry" => MayRetry(cur)
  /\ pc = "park" => MayPark(cur[1])
  /\ pc = "ack" => cur[1] \in inbox \cup Ignored

(* ... and so is what it has written to its channel.                       *)
WireInv ==
  \A d \in Copies :
    /\ wire["retry"][d] > 0 => MayRetry(d)
    /\ wire["park"][d] > 0 => MayPark(d[1])

IInv ==
  /\ Domains /\ CopyInv /\ HandlerInv /\ WireInv
  /\ EffectOnce /\ ParkedForCause /\ NeverLost
----------------------------------------------------------------------------
(* Bags of copies.                                                         *)
LEMMA AddFacts ==
  ASSUME NEW bag \in [Copies -> Nat], NEW d \in Copies
  PROVE  /\ Add(bag, d) \in [Copies -> Nat]
         /\ Add(bag, d)[d] = bag[d] + 1
         /\ \A e \in Copies : e # d => Add(bag, d)[e] = bag[e]
BY DEF Add

LEMMA RemoveFacts ==
  ASSUME NEW bag \in [Copies -> Nat], NEW d \in Copies, bag[d] > 0
  PROVE  /\ Remove(bag, d) \in [Copies -> Nat]
         /\ Remove(bag, d)[d] = bag[d] - 1
         /\ \A e \in Copies : e # d => Remove(bag, d)[e] = bag[e]
<1>1. bag[d] - 1 \in Nat
  OBVIOUS
<1>. QED
  BY <1>1 DEF Remove

(* The wire is a family of bags.                                           *)
LEMMA WireAdd ==
  ASSUME wire \in [Settlements -> [Copies -> Nat]], NEW k \in Settlements,
         NEW d \in Copies, wire' = [wire EXCEPT ![k] = Add(@, d)]
  PROVE  /\ wire' \in [Settlements -> [Copies -> Nat]]
         /\ wire'[k] = Add(wire[k], d)
         /\ \A j \in Settlements : j # k => wire'[j] = wire[j]
BY AddFacts

LEMMA WireRemove ==
  ASSUME wire \in [Settlements -> [Copies -> Nat]], NEW k \in Settlements,
         NEW d \in Copies, wire[k][d] > 0,
         wire' = [wire EXCEPT ![k] = Remove(@, d)]
  PROVE  /\ wire' \in [Settlements -> [Copies -> Nat]]
         /\ wire'[k] = Remove(wire[k], d)
         /\ \A j \in Settlements : j # k => wire'[j] = wire[j]
BY RemoveFacts

LEMMA WireMove ==
  ASSUME wire \in [Settlements -> [Copies -> Nat]],
         NEW j \in Settlements, NEW k \in Settlements, j # k,
         NEW d \in Copies, wire[j][d] > 0, wire' = Move(d, j, k)
  PROVE  /\ wire' \in [Settlements -> [Copies -> Nat]]
         /\ wire'[j] = Remove(wire[j], d)
         /\ wire'[k] = Add(wire[k], d)
         /\ \A i \in Settlements : i # j /\ i # k => wire'[i] = wire[i]
BY AddFacts, RemoveFacts DEF Move

(* The requeued copies are those unacked in any form.                      *)
LEMMA RequeueType ==
  ASSUME Domains, Requeue
  PROVE  /\ work' \in [Copies -> Nat]
         /\ \A d \in Copies :
              work'[d] > 0 <=> \/ work[d] > 0 \/ fresh[d] > 0 \/ (live /\ cur = d)
                              \/ \E k \in Settlements : wire[k][d] > 0
<1>. DEFINE n(d) == IF live /\ cur = d THEN 1 ELSE 0
<1>1. ASSUME NEW d \in Copies
      PROVE  /\ work[d] \in Nat /\ fresh[d] \in Nat /\ n(d) \in Nat
             /\ n(d) > 0 <=> live /\ cur = d
             /\ wire["ack"][d] \in Nat /\ wire["nack"][d] \in Nat
             /\ wire["retry"][d] \in Nat /\ wire["park"][d] \in Nat
  BY DEF Domains, Settlements
<1>2. ASSUME NEW d \in Copies
      PROVE  work'[d] = work[d] + fresh[d] + n(d) + wire["ack"][d] + wire["nack"][d]
                        + wire["retry"][d] + wire["park"][d]
  BY DEF Requeue
<1>. HIDE DEF n
<1>3. ASSUME NEW d \in Copies
      PROVE  /\ work'[d] \in Nat
             /\ work'[d] > 0 <=> \/ work[d] > 0 \/ fresh[d] > 0 \/ n(d) > 0
                                \/ wire["ack"][d] > 0 \/ wire["nack"][d] > 0
                                \/ wire["retry"][d] > 0 \/ wire["park"][d] > 0
  BY <1>1, <1>2
<1>4. work' = [d \in Copies |-> work'[d]]
  BY DEF Requeue
<1>5. work' \in [Copies -> Nat]
  BY <1>3, <1>4
<1>6. ASSUME NEW d \in Copies
      PROVE  (\E k \in Settlements : wire[k][d] > 0)
               <=> \/ wire["ack"][d] > 0 \/ wire["nack"][d] > 0
                   \/ wire["retry"][d] > 0 \/ wire["park"][d] > 0
  BY DEF Settlements
<1>7. ASSUME NEW d \in Copies
      PROVE  work'[d] > 0 <=> \/ work[d] > 0 \/ fresh[d] > 0 \/ (live /\ cur = d)
                              \/ \E k \in Settlements : wire[k][d] > 0
  <2>1. n(d) > 0 <=> live /\ cur = d
    BY <1>1
  <2>2. work'[d] > 0 <=> \/ work[d] > 0 \/ fresh[d] > 0 \/ n(d) > 0
                          \/ \E k \in Settlements : wire[k][d] > 0
    BY <1>3, <1>6
  <2>. QED
    BY <2>1, <2>2
<1>. QED
  BY <1>5, <1>7

(* A copy in a bag that grows stays kept.                                  *)
LEMMA AddGrows ==
  ASSUME NEW bag \in [Copies -> Nat], NEW d \in Copies
  PROVE  /\ Add(bag, d)[d] > 0
         /\ \A e \in Copies : bag[e] > 0 => Add(bag, d)[e] > 0
<1>1. ASSUME NEW e \in Copies, bag[e] > 0
      PROVE  Add(bag, d)[e] > 0
  BY <1>1 DEF Add
<1>. QED
  BY <1>1 DEF Add

(* After a channel is gone every kept copy is in the work or retry queue.  *)
LEMMA RequeueKeeps ==
  ASSUME Domains, Requeue, NEW e \in Copies, Kept(e)
  PROVE  Kept(e)'
<1>1. retry[e] > 0 \/ work'[e] > 0
  BY RequeueType DEF Kept
<1>2. retry' = retry
  BY DEF Requeue
<1>. QED
  BY <1>1, <1>2 DEF Kept

(* A step loses nothing if every copy it removes is accounted for.         *)
LEMMA LossMono ==
  ASSUME NeverLost, sent' = sent, inbox \subseteq inbox', Parked \subseteq Parked',
         \A d \in Copies : Kept(d) =>
            \/ Kept(d)'
            \/ d[1] \in inbox' \cup Ignored \cup Parked'
            \/ \E h \in Hops : Kept(<<d[1], h>>)',
         sent \subseteq Msgs
  PROVE  NeverLost'
<1>. SUFFICES ASSUME NEW m \in sent, m \notin inbox' \cup Ignored \cup Parked'
             PROVE  \E h \in Hops : Kept(<<m, h>>)'
  BY DEF NeverLost
<1>1. PICK h \in Hops : Kept(<<m, h>>)
  BY DEF NeverLost
<1>2. <<m, h>> \in Copies /\ <<m, h>>[1] = m
  BY DEF Copies
<1>. QED
  BY <1>1, <1>2

(* Every step keeps the variables in their domains.                        *)
LEMMA DomainsStep == IInv /\ [Next]_vars => Domains'
<1>. SUFFICES ASSUME IInv, [Next]_vars PROVE Domains'
  OBVIOUS
<1>. USE DeliveryConstantsOK DEF IInv, queues, client, store
<1>1. ASSUME NEW m \in Msgs, Send(m) PROVE Domains'
  BY <1>1 DEF Send, Fault, Add, Remove, Domains, HandlerInv, CopyInv,
     WireInv, Present, MayRetry, Copies, Hops, Settlements, Msgs
<1>2. ASSUME NEW d \in Copies, Deliver(d) PROVE Domains'
  BY <1>2 DEF Deliver, Add, Remove, Domains, HandlerInv, CopyInv, WireInv,
     Present, MayRetry, Copies, Hops, Settlements, Msgs
<1>3. ASSUME NEW d \in Copies, Expire(d) PROVE Domains'
  BY <1>3 DEF Expire, Add, Remove, Domains, HandlerInv, CopyInv, WireInv,
     Present, MayRetry, Copies, Hops, Settlements, Msgs
<1>4. ASSUME NEW d \in Copies, ProcessRetry(d) PROVE Domains'
  <2>1. wire' \in [Settlements -> [Copies -> Nat]]
    BY <1>4, WireMove DEF ProcessRetry, Domains, Settlements
  <2>2. <<d[1], d[2] + 1>> \in Copies
    BY <1>4 DEF ProcessRetry, WireInv, MayRetry, Copies, Hops
  <2>3. retry' \in [Copies -> Nat]
    BY <1>4, <2>2, AddFacts DEF ProcessRetry, RouteRetry, Domains
  <2>. QED
    BY <1>4, <2>1, <2>3 DEF ProcessRetry, RouteRetry, Domains
<1>5. ASSUME NEW d \in Copies, ProcessPark(d) PROVE Domains'
  <2>1. wire' \in [Settlements -> [Copies -> Nat]]
    BY <1>5, WireMove DEF ProcessPark, Domains, Settlements
  <2>2. parking' \in [Msgs -> Nat]
    BY <1>5 DEF ProcessPark, RoutePark, Domains, Copies
  <2>. QED
    BY <1>5, <2>1, <2>2 DEF ProcessPark, RoutePark, Domains
<1>6. ASSUME NEW d \in Copies, ProcessAck(d) PROVE Domains'
  BY <1>6 DEF ProcessAck, Add, Remove, Domains, HandlerInv, CopyInv, WireInv,
     Present, MayRetry, Copies, Hops, Settlements, Msgs
<1>7. ASSUME NEW d \in Copies, ProcessNack(d) PROVE Domains'
  BY <1>7 DEF ProcessNack, Add, Remove, Domains, HandlerInv, CopyInv,
     WireInv, Present, MayRetry, Copies, Hops, Settlements, Msgs
<1>8. ASSUME NEW d \in Copies, TakeFresh(d) PROVE Domains'
  BY <1>8 DEF TakeFresh, Add, Remove, Domains, HandlerInv, CopyInv, WireInv,
     Present, MayRetry, Copies, Hops, Settlements, Msgs
<1>9. ASSUME NEW d \in Copies, TakeStale(d) PROVE Domains'
  BY <1>9, RemoveFacts DEF TakeStale, Domains
<1>10. ASSUME NEW d \in Copies, DropStale(d) PROVE Domains'
  BY <1>10 DEF DropStale, Add, Remove, Domains, HandlerInv, CopyInv, WireInv,
     Present, MayRetry, Copies, Hops, Settlements, Msgs
<1>11. CASE RejectInvalid
  BY <1>11 DEF RejectInvalid, Goto, Domains, HandlerInv, CopyInv, WireInv,
     Present, MayRetry, Copies, Hops, Settlements, Msgs
<1>12. CASE IgnoreType
  BY <1>12 DEF IgnoreType, Goto, Domains, HandlerInv, CopyInv, WireInv,
     Present, MayRetry, Copies, Hops, Settlements, Msgs
<1>13. CASE Apply
  BY <1>13 DEF Apply, Goto, Domains, HandlerInv, CopyInv, WireInv, Present,
     MayRetry, Copies, Hops, Settlements, Msgs
<1>14. CASE ApplyFails
  BY <1>14 DEF ApplyFails, Goto, ParkNow, Domains, HandlerInv, CopyInv,
     WireInv, Present, MayRetry, Copies, Hops, Settlements, Msgs
<1>15. CASE Republish
  <2>1. cur \in Copies /\ pc \in Settlements
    BY <1>15 DEF Republish, Settle, Domains, HandlerInv, Settlements
  <2>2. wire' \in [Settlements -> [Copies -> Nat]]
    BY <1>15, <2>1, WireAdd DEF Republish, Settle, Domains
  <2>. QED
    BY <1>15, <2>2 DEF Republish, Settle, Domains
<1>16. CASE RepublishFails
  <2>1. cur \in Copies /\ "nack" \in Settlements
    BY <1>16 DEF RepublishFails, Settle, Domains, HandlerInv, Settlements
  <2>2. wire' \in [Settlements -> [Copies -> Nat]]
    BY <1>16, <2>1, WireAdd DEF RepublishFails, Settle, Domains
  <2>3. faults' \in 0..MaxFaults
    BY <1>16 DEF RepublishFails, Fault, Domains
  <2>. QED
    BY <1>16, <2>2, <2>3 DEF RepublishFails, Settle, Domains
<1>17. CASE Ack
  <2>1. cur \in Copies /\ "ack" \in Settlements
    BY <1>17 DEF Ack, Settle, Domains, HandlerInv, Settlements
  <2>2. wire' \in [Settlements -> [Copies -> Nat]]
    BY <1>17, <2>1, WireAdd DEF Ack, Settle, Domains
  <2>. QED
    BY <1>17, <2>2 DEF Ack, Settle, Domains
<1>18. CASE SettleStale
  <2>1. cur \in Copies
    BY <1>18 DEF SettleStale, Domains, HandlerInv
  <2>2. CASE UNCHANGED queues
    BY <1>18, <2>2 DEF SettleStale, Domains
  <2>3. CASE pc = "retry" /\ RouteRetry(cur)
    <3>1. <<cur[1], cur[2] + 1>> \in Copies
      BY <2>1, <2>3 DEF HandlerInv, MayRetry, Copies, Hops
    <3>2. retry' \in [Copies -> Nat]
      BY <2>3, <3>1, AddFacts DEF RouteRetry, Domains
    <3>. QED
      BY <1>18, <2>3, <3>2 DEF SettleStale, RouteRetry, Domains
  <2>4. CASE RoutePark(cur)
    <3>1. parking' \in [Msgs -> Nat]
      BY <2>1, <2>4 DEF RoutePark, Domains, Copies
    <3>. QED
      BY <1>18, <2>4, <3>1 DEF SettleStale, RoutePark, Domains
  <2>. QED
    BY <1>18, <2>2, <2>3, <2>4 DEF SettleStale
<1>19. CASE ConnLost
  <2>1. /\ wire' \in [Settlements -> [Copies -> Nat]]
        /\ fresh' \in [Copies -> Nat] /\ stale' \in [Copies -> Nat]
    BY <1>19 DEF ConnLost, ChannelGone, Requeue, NoCopies, Domains
  <2>2. work' \in [Copies -> Nat]
    BY <1>19, RequeueType DEF ConnLost, ChannelGone, Domains
  <2>3. faults' \in 0..MaxFaults
    BY <1>19 DEF ConnLost, Fault, Domains
  <2>. QED
    BY <1>19, <2>1, <2>2, <2>3 DEF ConnLost, ChannelGone, Requeue, Domains
<1>20. CASE Crash
  <2>1. /\ wire' \in [Settlements -> [Copies -> Nat]]
        /\ fresh' \in [Copies -> Nat] /\ stale' \in [Copies -> Nat]
    BY <1>20 DEF Crash, Requeue, NoCopies, Domains
  <2>2. work' \in [Copies -> Nat]
    BY <1>20, RequeueType DEF Crash, Domains
  <2>3. faults' \in 0..MaxFaults
    BY <1>20 DEF Crash, Fault, Domains
  <2>. QED
    BY <1>20, <2>1, <2>2, <2>3 DEF Crash, Requeue, Domains
<1>21. CASE Reconnect
  BY <1>21 DEF Reconnect, Domains, HandlerInv, CopyInv, WireInv, Present,
     MayRetry, Copies, Hops, Settlements, Msgs
<1>22. CASE Start
  BY <1>22 DEF Start, Domains, HandlerInv, CopyInv, WireInv, Present,
     MayRetry, Copies, Hops, Settlements, Msgs
<1>23. CASE UNCHANGED vars
  BY <1>23 DEF vars, Domains, HandlerInv, CopyInv, WireInv, Present,
     MayRetry, Copies, Hops, Settlements, Msgs
<1>. QED
  BY <1>1, <1>2, <1>3, <1>4, <1>5, <1>6, <1>7, <1>8, <1>9, <1>10, <1>11,
     <1>12, <1>13, <1>14, <1>15, <1>16, <1>17, <1>18, <1>19, <1>20, <1>21,
     <1>22, <1>23 DEF Next, Broker, Handler

(* Every step keeps the handler's next move justified.                     *)
LEMMA HandlerStep == IInv /\ [Next]_vars => HandlerInv'
<1>. SUFFICES ASSUME IInv, [Next]_vars PROVE HandlerInv'
  OBVIOUS
<1>. USE DeliveryConstantsOK DEF IInv, queues, client, store
<1>1. ASSUME NEW m \in Msgs, Send(m) PROVE HandlerInv'
  BY <1>1 DEF Send, Fault, Add, Remove, Domains, HandlerInv, CopyInv,
     Present, MayRetry, MayPark, Copies, Hops, Msgs
<1>2. ASSUME NEW d \in Copies, Deliver(d) PROVE HandlerInv'
  BY <1>2 DEF Deliver, Add, Remove, Domains, HandlerInv, CopyInv, Present,
     MayRetry, MayPark, Copies, Hops, Msgs
<1>3. ASSUME NEW d \in Copies, Expire(d) PROVE HandlerInv'
  BY <1>3 DEF Expire, Add, Remove, Domains, HandlerInv, CopyInv, Present,
     MayRetry, MayPark, Copies, Hops, Msgs
<1>4. ASSUME NEW d \in Copies, ProcessRetry(d) PROVE HandlerInv'
  BY <1>4 DEF ProcessRetry, RouteRetry, Move, Add, Remove, Domains,
     HandlerInv, CopyInv, Present, MayRetry, MayPark, Copies, Hops, Msgs
<1>5. ASSUME NEW d \in Copies, ProcessPark(d) PROVE HandlerInv'
  BY <1>5 DEF ProcessPark, RoutePark, Move, Add, Remove, Domains, HandlerInv,
     CopyInv, Present, MayRetry, MayPark, Copies, Hops, Msgs
<1>6. ASSUME NEW d \in Copies, ProcessAck(d) PROVE HandlerInv'
  BY <1>6 DEF ProcessAck, Add, Remove, Domains, HandlerInv, CopyInv, Present,
     MayRetry, MayPark, Copies, Hops, Msgs
<1>7. ASSUME NEW d \in Copies, ProcessNack(d) PROVE HandlerInv'
  BY <1>7 DEF ProcessNack, Add, Remove, Domains, HandlerInv, CopyInv,
     Present, MayRetry, MayPark, Copies, Hops, Msgs
<1>8. ASSUME NEW d \in Copies, TakeFresh(d) PROVE HandlerInv'
  BY <1>8 DEF TakeFresh, Add, Remove, Domains, HandlerInv, CopyInv, Present,
     MayRetry, MayPark, Copies, Hops, Msgs
<1>9. ASSUME NEW d \in Copies, TakeStale(d) PROVE HandlerInv'
  BY <1>9 DEF TakeStale, Add, Remove, Domains, HandlerInv, CopyInv, Present,
     MayRetry, MayPark, Copies, Hops, Msgs
<1>10. ASSUME NEW d \in Copies, DropStale(d) PROVE HandlerInv'
  BY <1>10 DEF DropStale, Add, Remove, Domains, HandlerInv, CopyInv, Present,
     MayRetry, MayPark, Copies, Hops, Msgs
<1>11. CASE RejectInvalid
  BY <1>11 DEF RejectInvalid, Goto, Domains, HandlerInv, CopyInv, Present,
     MayRetry, MayPark, Copies, Hops, Msgs
<1>12. CASE IgnoreType
  BY <1>12 DEF IgnoreType, Goto, Domains, HandlerInv, CopyInv, Present,
     MayRetry, MayPark, Copies, Hops, Msgs
<1>13. CASE Apply
  BY <1>13 DEF Apply, Goto, Domains, HandlerInv, CopyInv, Present, MayRetry,
     MayPark, Copies, Hops, Msgs
<1>14. CASE ApplyFails
  BY <1>14 DEF ApplyFails, Goto, ParkNow, Domains, HandlerInv, CopyInv,
     Present, MayRetry, MayPark, Copies, Hops, Msgs
<1>15. CASE Republish
  BY <1>15 DEF Republish, Settle, Add, Remove, Domains, HandlerInv, CopyInv,
     Present, MayRetry, MayPark, Copies, Hops, Msgs
<1>16. CASE RepublishFails
  BY <1>16 DEF RepublishFails, Settle, Fault, Add, Remove, Domains,
     HandlerInv, CopyInv, Present, MayRetry, MayPark, Copies, Hops, Msgs
<1>17. CASE Ack
  BY <1>17 DEF Ack, Settle, Add, Remove, Domains, HandlerInv, CopyInv,
     Present, MayRetry, MayPark, Copies, Hops, Msgs
<1>18. CASE SettleStale
  BY <1>18 DEF SettleStale, RouteRetry, RoutePark, Add, Remove, Domains,
     HandlerInv, CopyInv, Present, MayRetry, MayPark, Copies, Hops, Msgs
<1>19. CASE ConnLost
  BY <1>19 DEF ConnLost, ChannelGone, Requeue, Fault, NoCopies, Domains,
     HandlerInv, CopyInv, Present, MayRetry, MayPark, Copies, Hops, Msgs
<1>20. CASE Crash
  BY <1>20 DEF Crash, Requeue, Fault, NoCopies, Domains, HandlerInv, CopyInv,
     Present, MayRetry, MayPark, Copies, Hops, Msgs
<1>21. CASE Reconnect
  BY <1>21 DEF Reconnect, Domains, HandlerInv, CopyInv, Present, MayRetry,
     MayPark, Copies, Hops, Msgs
<1>22. CASE Start
  BY <1>22 DEF Start, Domains, HandlerInv, CopyInv, Present, MayRetry,
     MayPark, Copies, Hops, Msgs
<1>23. CASE UNCHANGED vars
  BY <1>23 DEF vars, Domains, HandlerInv, CopyInv, Present, MayRetry,
     MayPark, Copies, Hops, Msgs
<1>. QED
  BY <1>1, <1>2, <1>3, <1>4, <1>5, <1>6, <1>7, <1>8, <1>9, <1>10, <1>11,
     <1>12, <1>13, <1>14, <1>15, <1>16, <1>17, <1>18, <1>19, <1>20, <1>21,
     <1>22, <1>23 DEF Next, Broker, Handler

(* Every step keeps the settlements on the wire justified.                 *)
LEMMA WireStep == IInv /\ [Next]_vars => WireInv'
<1>. SUFFICES ASSUME IInv, [Next]_vars PROVE WireInv'
  OBVIOUS
<1>. USE DeliveryConstantsOK DEF IInv, queues, client, store
<1>1. ASSUME NEW m \in Msgs, Send(m) PROVE WireInv'
  BY <1>1 DEF Send, Fault, Add, Remove, Domains, WireInv, HandlerInv,
     MayRetry, MayPark, Copies, Hops, Settlements
<1>2. ASSUME NEW d \in Copies, Deliver(d) PROVE WireInv'
  BY <1>2 DEF Deliver, Add, Remove, Domains, WireInv, HandlerInv, MayRetry,
     MayPark, Copies, Hops, Settlements
<1>3. ASSUME NEW d \in Copies, Expire(d) PROVE WireInv'
  BY <1>3 DEF Expire, Add, Remove, Domains, WireInv, HandlerInv, MayRetry,
     MayPark, Copies, Hops, Settlements
<1>4. ASSUME NEW d \in Copies, ProcessRetry(d) PROVE WireInv'
  BY <1>4 DEF ProcessRetry, RouteRetry, Move, Add, Remove, Domains, WireInv,
     HandlerInv, MayRetry, MayPark, Copies, Hops, Settlements
<1>5. ASSUME NEW d \in Copies, ProcessPark(d) PROVE WireInv'
  BY <1>5 DEF ProcessPark, RoutePark, Move, Add, Remove, Domains, WireInv,
     HandlerInv, MayRetry, MayPark, Copies, Hops, Settlements
<1>6. ASSUME NEW d \in Copies, ProcessAck(d) PROVE WireInv'
  BY <1>6 DEF ProcessAck, Add, Remove, Domains, WireInv, HandlerInv,
     MayRetry, MayPark, Copies, Hops, Settlements
<1>7. ASSUME NEW d \in Copies, ProcessNack(d) PROVE WireInv'
  BY <1>7 DEF ProcessNack, Add, Remove, Domains, WireInv, HandlerInv,
     MayRetry, MayPark, Copies, Hops, Settlements
<1>8. ASSUME NEW d \in Copies, TakeFresh(d) PROVE WireInv'
  BY <1>8 DEF TakeFresh, Add, Remove, Domains, WireInv, HandlerInv, MayRetry,
     MayPark, Copies, Hops, Settlements
<1>9. ASSUME NEW d \in Copies, TakeStale(d) PROVE WireInv'
  BY <1>9 DEF TakeStale, Add, Remove, Domains, WireInv, HandlerInv, MayRetry,
     MayPark, Copies, Hops, Settlements
<1>10. ASSUME NEW d \in Copies, DropStale(d) PROVE WireInv'
  BY <1>10 DEF DropStale, Add, Remove, Domains, WireInv, HandlerInv,
     MayRetry, MayPark, Copies, Hops, Settlements
<1>11. CASE RejectInvalid
  BY <1>11 DEF RejectInvalid, Goto, Domains, WireInv, HandlerInv, MayRetry,
     MayPark, Copies, Hops, Settlements
<1>12. CASE IgnoreType
  BY <1>12 DEF IgnoreType, Goto, Domains, WireInv, HandlerInv, MayRetry,
     MayPark, Copies, Hops, Settlements
<1>13. CASE Apply
  BY <1>13 DEF Apply, Goto, Domains, WireInv, HandlerInv, MayRetry, MayPark,
     Copies, Hops, Settlements
<1>14. CASE ApplyFails
  BY <1>14 DEF ApplyFails, Goto, ParkNow, Domains, WireInv, HandlerInv,
     MayRetry, MayPark, Copies, Hops, Settlements
<1>15. CASE Republish
  BY <1>15 DEF Republish, Settle, Add, Remove, Domains, WireInv, HandlerInv,
     MayRetry, MayPark, Copies, Hops, Settlements
<1>16. CASE RepublishFails
  BY <1>16 DEF RepublishFails, Settle, Fault, Add, Remove, Domains, WireInv,
     HandlerInv, MayRetry, MayPark, Copies, Hops, Settlements
<1>17. CASE Ack
  BY <1>17 DEF Ack, Settle, Add, Remove, Domains, WireInv, HandlerInv,
     MayRetry, MayPark, Copies, Hops, Settlements
<1>18. CASE SettleStale
  BY <1>18 DEF SettleStale, RouteRetry, RoutePark, Add, Remove, Domains,
     WireInv, HandlerInv, MayRetry, MayPark, Copies, Hops, Settlements
<1>19. CASE ConnLost
  BY <1>19 DEF ConnLost, ChannelGone, Requeue, Fault, NoCopies, Domains,
     WireInv, HandlerInv, MayRetry, MayPark, Copies, Hops, Settlements
<1>20. CASE Crash
  BY <1>20 DEF Crash, Requeue, Fault, NoCopies, Domains, WireInv, HandlerInv,
     MayRetry, MayPark, Copies, Hops, Settlements
<1>21. CASE Reconnect
  BY <1>21 DEF Reconnect, Domains, WireInv, HandlerInv, MayRetry, MayPark,
     Copies, Hops, Settlements
<1>22. CASE Start
  BY <1>22 DEF Start, Domains, WireInv, HandlerInv, MayRetry, MayPark,
     Copies, Hops, Settlements
<1>23. CASE UNCHANGED vars
  BY <1>23 DEF vars, Domains, WireInv, HandlerInv, MayRetry, MayPark, Copies,
     Hops, Settlements
<1>. QED
  BY <1>1, <1>2, <1>3, <1>4, <1>5, <1>6, <1>7, <1>8, <1>9, <1>10, <1>11,
     <1>12, <1>13, <1>14, <1>15, <1>16, <1>17, <1>18, <1>19, <1>20, <1>21,
     <1>22, <1>23 DEF Next, Broker, Handler

(* Every step keeps copies to sent messages and within the retry budget.   *)
LEMMA CopyStep == IInv /\ [Next]_vars => CopyInv'
<1>. SUFFICES ASSUME IInv, [Next]_vars PROVE CopyInv'
  OBVIOUS
<1>. USE DeliveryConstantsOK DEF IInv, queues, client, store
<1>1. ASSUME NEW m \in Msgs, Send(m) PROVE CopyInv'
  BY <1>1 DEF Send, Fault, Add, Remove, Domains, CopyInv, HandlerInv,
     WireInv, MayRetry, Present, Copies, Hops, Settlements
<1>2. ASSUME NEW d \in Copies, Deliver(d) PROVE CopyInv'
  BY <1>2 DEF Deliver, Add, Remove, Domains, CopyInv, HandlerInv, WireInv,
     MayRetry, Present, Copies, Hops, Settlements
<1>3. ASSUME NEW d \in Copies, Expire(d) PROVE CopyInv'
  BY <1>3 DEF Expire, Add, Remove, Domains, CopyInv, HandlerInv, WireInv,
     MayRetry, Present, Copies, Hops, Settlements
<1>4. ASSUME NEW d \in Copies, ProcessRetry(d) PROVE CopyInv'
  BY <1>4, SMTT(30) DEF ProcessRetry, RouteRetry, Move, Add, Remove, Domains, CopyInv,
     HandlerInv, WireInv, MayRetry, Present, Copies, Hops, Settlements
<1>5. ASSUME NEW d \in Copies, ProcessPark(d) PROVE CopyInv'
  BY <1>5 DEF ProcessPark, RoutePark, Move, Add, Remove, Domains, CopyInv,
     HandlerInv, WireInv, MayRetry, Present, Copies, Hops, Settlements
<1>6. ASSUME NEW d \in Copies, ProcessAck(d) PROVE CopyInv'
  BY <1>6 DEF ProcessAck, Add, Remove, Domains, CopyInv, HandlerInv, WireInv,
     MayRetry, Present, Copies, Hops, Settlements
<1>7. ASSUME NEW d \in Copies, ProcessNack(d) PROVE CopyInv'
  BY <1>7 DEF ProcessNack, Add, Remove, Domains, CopyInv, HandlerInv,
     WireInv, MayRetry, Present, Copies, Hops, Settlements
<1>8. ASSUME NEW d \in Copies, TakeFresh(d) PROVE CopyInv'
  BY <1>8 DEF TakeFresh, Add, Remove, Domains, CopyInv, HandlerInv, WireInv,
     MayRetry, Present, Copies, Hops, Settlements
<1>9. ASSUME NEW d \in Copies, TakeStale(d) PROVE CopyInv'
  BY <1>9 DEF TakeStale, Add, Remove, Domains, CopyInv, HandlerInv, WireInv,
     MayRetry, Present, Copies, Hops, Settlements
<1>10. ASSUME NEW d \in Copies, DropStale(d) PROVE CopyInv'
  BY <1>10 DEF DropStale, Add, Remove, Domains, CopyInv, HandlerInv, WireInv,
     MayRetry, Present, Copies, Hops, Settlements
<1>11. CASE RejectInvalid
  BY <1>11 DEF RejectInvalid, Goto, Domains, CopyInv, HandlerInv, WireInv,
     MayRetry, Present, Copies, Hops, Settlements
<1>12. CASE IgnoreType
  BY <1>12 DEF IgnoreType, Goto, Domains, CopyInv, HandlerInv, WireInv,
     MayRetry, Present, Copies, Hops, Settlements
<1>13. CASE Apply
  BY <1>13 DEF Apply, Goto, Domains, CopyInv, HandlerInv, WireInv, MayRetry,
     Present, Copies, Hops, Settlements
<1>14. CASE ApplyFails
  BY <1>14 DEF ApplyFails, Goto, ParkNow, Domains, CopyInv, HandlerInv,
     WireInv, MayRetry, Present, Copies, Hops, Settlements
<1>15. CASE Republish
  BY <1>15 DEF Republish, Settle, Add, Remove, Domains, CopyInv, HandlerInv,
     WireInv, MayRetry, Present, Copies, Hops, Settlements
<1>16. CASE RepublishFails
  BY <1>16 DEF RepublishFails, Settle, Fault, Add, Remove, Domains, CopyInv,
     HandlerInv, WireInv, MayRetry, Present, Copies, Hops, Settlements
<1>17. CASE Ack
  BY <1>17 DEF Ack, Settle, Add, Remove, Domains, CopyInv, HandlerInv,
     WireInv, MayRetry, Present, Copies, Hops, Settlements
<1>18. CASE SettleStale
  BY <1>18 DEF SettleStale, RouteRetry, RoutePark, Add, Remove, Domains,
     CopyInv, HandlerInv, WireInv, MayRetry, Present, Copies, Hops,
     Settlements
<1>19. CASE ConnLost
  BY <1>19 DEF ConnLost, ChannelGone, Requeue, Fault, NoCopies, Domains,
     CopyInv, HandlerInv, WireInv, MayRetry, Present, Copies, Hops,
     Settlements
<1>20. CASE Crash
  BY <1>20 DEF Crash, Requeue, Fault, NoCopies, Domains, CopyInv, HandlerInv,
     WireInv, MayRetry, Present, Copies, Hops, Settlements
<1>21. CASE Reconnect
  BY <1>21 DEF Reconnect, Domains, CopyInv, HandlerInv, WireInv, MayRetry,
     Present, Copies, Hops, Settlements
<1>22. CASE Start
  BY <1>22 DEF Start, Domains, CopyInv, HandlerInv, WireInv, MayRetry,
     Present, Copies, Hops, Settlements
<1>23. CASE UNCHANGED vars
  BY <1>23 DEF vars, Domains, CopyInv, HandlerInv, WireInv, MayRetry,
     Present, Copies, Hops, Settlements
<1>. QED
  BY <1>1, <1>2, <1>3, <1>4, <1>5, <1>6, <1>7, <1>8, <1>9, <1>10, <1>11,
     <1>12, <1>13, <1>14, <1>15, <1>16, <1>17, <1>18, <1>19, <1>20, <1>21,
     <1>22, <1>23 DEF Next, Broker, Handler

(* Every step keeps effects and inbox in agreement.                        *)
LEMMA EffectStep == IInv /\ [Next]_vars => EffectOnce'
<1>. SUFFICES ASSUME IInv, [Next]_vars PROVE EffectOnce'
  OBVIOUS
<1>. USE DeliveryConstantsOK DEF IInv, queues, client, store
<1>1. ASSUME NEW m \in Msgs, Send(m) PROVE EffectOnce'
  BY <1>1 DEF Send, Fault, Add, Remove, Domains, EffectOnce, HandlerInv,
     Msgs, Copies
<1>2. ASSUME NEW d \in Copies, Deliver(d) PROVE EffectOnce'
  BY <1>2 DEF Deliver, Add, Remove, Domains, EffectOnce, HandlerInv, Msgs,
     Copies
<1>3. ASSUME NEW d \in Copies, Expire(d) PROVE EffectOnce'
  BY <1>3 DEF Expire, Add, Remove, Domains, EffectOnce, HandlerInv, Msgs,
     Copies
<1>4. ASSUME NEW d \in Copies, ProcessRetry(d) PROVE EffectOnce'
  BY <1>4 DEF ProcessRetry, RouteRetry, Move, Add, Remove, Domains,
     EffectOnce, HandlerInv, Msgs, Copies
<1>5. ASSUME NEW d \in Copies, ProcessPark(d) PROVE EffectOnce'
  BY <1>5 DEF ProcessPark, RoutePark, Move, Add, Remove, Domains, EffectOnce,
     HandlerInv, Msgs, Copies
<1>6. ASSUME NEW d \in Copies, ProcessAck(d) PROVE EffectOnce'
  BY <1>6 DEF ProcessAck, Add, Remove, Domains, EffectOnce, HandlerInv, Msgs,
     Copies
<1>7. ASSUME NEW d \in Copies, ProcessNack(d) PROVE EffectOnce'
  BY <1>7 DEF ProcessNack, Add, Remove, Domains, EffectOnce, HandlerInv,
     Msgs, Copies
<1>8. ASSUME NEW d \in Copies, TakeFresh(d) PROVE EffectOnce'
  BY <1>8 DEF TakeFresh, Add, Remove, Domains, EffectOnce, HandlerInv, Msgs,
     Copies
<1>9. ASSUME NEW d \in Copies, TakeStale(d) PROVE EffectOnce'
  BY <1>9 DEF TakeStale, Add, Remove, Domains, EffectOnce, HandlerInv, Msgs,
     Copies
<1>10. ASSUME NEW d \in Copies, DropStale(d) PROVE EffectOnce'
  BY <1>10 DEF DropStale, Add, Remove, Domains, EffectOnce, HandlerInv, Msgs,
     Copies
<1>11. CASE RejectInvalid
  BY <1>11 DEF RejectInvalid, Goto, Domains, EffectOnce, HandlerInv, Msgs,
     Copies
<1>12. CASE IgnoreType
  BY <1>12 DEF IgnoreType, Goto, Domains, EffectOnce, HandlerInv, Msgs,
     Copies
<1>13. CASE Apply
  BY <1>13 DEF Apply, Goto, Domains, EffectOnce, HandlerInv, Msgs, Copies
<1>14. CASE ApplyFails
  BY <1>14 DEF ApplyFails, Goto, ParkNow, Domains, EffectOnce, HandlerInv,
     Msgs, Copies
<1>15. CASE Republish
  BY <1>15 DEF Republish, Settle, Add, Remove, Domains, EffectOnce,
     HandlerInv, Msgs, Copies
<1>16. CASE RepublishFails
  BY <1>16 DEF RepublishFails, Settle, Fault, Add, Remove, Domains,
     EffectOnce, HandlerInv, Msgs, Copies
<1>17. CASE Ack
  BY <1>17 DEF Ack, Settle, Add, Remove, Domains, EffectOnce, HandlerInv,
     Msgs, Copies
<1>18. CASE SettleStale
  BY <1>18 DEF SettleStale, RouteRetry, RoutePark, Add, Remove, Domains,
     EffectOnce, HandlerInv, Msgs, Copies
<1>19. CASE ConnLost
  BY <1>19 DEF ConnLost, ChannelGone, Requeue, Fault, NoCopies, Domains,
     EffectOnce, HandlerInv, Msgs, Copies
<1>20. CASE Crash
  BY <1>20 DEF Crash, Requeue, Fault, NoCopies, Domains, EffectOnce,
     HandlerInv, Msgs, Copies
<1>21. CASE Reconnect
  BY <1>21 DEF Reconnect, Domains, EffectOnce, HandlerInv, Msgs, Copies
<1>22. CASE Start
  BY <1>22 DEF Start, Domains, EffectOnce, HandlerInv, Msgs, Copies
<1>23. CASE UNCHANGED vars
  BY <1>23 DEF vars, Domains, EffectOnce, HandlerInv, Msgs, Copies
<1>. QED
  BY <1>1, <1>2, <1>3, <1>4, <1>5, <1>6, <1>7, <1>8, <1>9, <1>10, <1>11,
     <1>12, <1>13, <1>14, <1>15, <1>16, <1>17, <1>18, <1>19, <1>20, <1>21,
     <1>22, <1>23 DEF Next, Broker, Handler

(* Every step keeps the parking queue justified.                           *)
LEMMA ParkStep == IInv /\ [Next]_vars => ParkedForCause'
<1>. SUFFICES ASSUME IInv, [Next]_vars PROVE ParkedForCause'
  OBVIOUS
<1>. USE DeliveryConstantsOK DEF IInv, queues, client, store
<1>1. ASSUME NEW m \in Msgs, Send(m) PROVE ParkedForCause'
  BY <1>1 DEF Send, Fault, Add, Remove, Domains, ParkedForCause, Parked,
     HandlerInv, WireInv, MayPark, Copies
<1>2. ASSUME NEW d \in Copies, Deliver(d) PROVE ParkedForCause'
  BY <1>2 DEF Deliver, Add, Remove, Domains, ParkedForCause, Parked,
     HandlerInv, WireInv, MayPark, Copies
<1>3. ASSUME NEW d \in Copies, Expire(d) PROVE ParkedForCause'
  BY <1>3 DEF Expire, Add, Remove, Domains, ParkedForCause, Parked,
     HandlerInv, WireInv, MayPark, Copies
<1>4. ASSUME NEW d \in Copies, ProcessRetry(d) PROVE ParkedForCause'
  BY <1>4 DEF ProcessRetry, RouteRetry, Move, Add, Remove, Domains,
     ParkedForCause, Parked, HandlerInv, WireInv, MayPark, Copies
<1>5. ASSUME NEW d \in Copies, ProcessPark(d) PROVE ParkedForCause'
  BY <1>5 DEF ProcessPark, RoutePark, Move, Add, Remove, Domains,
     ParkedForCause, Parked, HandlerInv, WireInv, MayPark, Copies
<1>6. ASSUME NEW d \in Copies, ProcessAck(d) PROVE ParkedForCause'
  BY <1>6 DEF ProcessAck, Add, Remove, Domains, ParkedForCause, Parked,
     HandlerInv, WireInv, MayPark, Copies
<1>7. ASSUME NEW d \in Copies, ProcessNack(d) PROVE ParkedForCause'
  BY <1>7 DEF ProcessNack, Add, Remove, Domains, ParkedForCause, Parked,
     HandlerInv, WireInv, MayPark, Copies
<1>8. ASSUME NEW d \in Copies, TakeFresh(d) PROVE ParkedForCause'
  BY <1>8 DEF TakeFresh, Add, Remove, Domains, ParkedForCause, Parked,
     HandlerInv, WireInv, MayPark, Copies
<1>9. ASSUME NEW d \in Copies, TakeStale(d) PROVE ParkedForCause'
  BY <1>9 DEF TakeStale, Add, Remove, Domains, ParkedForCause, Parked,
     HandlerInv, WireInv, MayPark, Copies
<1>10. ASSUME NEW d \in Copies, DropStale(d) PROVE ParkedForCause'
  BY <1>10 DEF DropStale, Add, Remove, Domains, ParkedForCause, Parked,
     HandlerInv, WireInv, MayPark, Copies
<1>11. CASE RejectInvalid
  BY <1>11 DEF RejectInvalid, Goto, Domains, ParkedForCause, Parked,
     HandlerInv, WireInv, MayPark, Copies
<1>12. CASE IgnoreType
  BY <1>12 DEF IgnoreType, Goto, Domains, ParkedForCause, Parked, HandlerInv,
     WireInv, MayPark, Copies
<1>13. CASE Apply
  BY <1>13 DEF Apply, Goto, Domains, ParkedForCause, Parked, HandlerInv,
     WireInv, MayPark, Copies
<1>14. CASE ApplyFails
  BY <1>14 DEF ApplyFails, Goto, ParkNow, Domains, ParkedForCause, Parked,
     HandlerInv, WireInv, MayPark, Copies
<1>15. CASE Republish
  BY <1>15 DEF Republish, Settle, Add, Remove, Domains, ParkedForCause,
     Parked, HandlerInv, WireInv, MayPark, Copies
<1>16. CASE RepublishFails
  BY <1>16 DEF RepublishFails, Settle, Fault, Add, Remove, Domains,
     ParkedForCause, Parked, HandlerInv, WireInv, MayPark, Copies
<1>17. CASE Ack
  BY <1>17 DEF Ack, Settle, Add, Remove, Domains, ParkedForCause, Parked,
     HandlerInv, WireInv, MayPark, Copies
<1>18. CASE SettleStale
  BY <1>18 DEF SettleStale, RouteRetry, RoutePark, Add, Remove, Domains,
     ParkedForCause, Parked, HandlerInv, WireInv, MayPark, Copies
<1>19. CASE ConnLost
  BY <1>19 DEF ConnLost, ChannelGone, Requeue, Fault, NoCopies, Domains,
     ParkedForCause, Parked, HandlerInv, WireInv, MayPark, Copies
<1>20. CASE Crash
  BY <1>20 DEF Crash, Requeue, Fault, NoCopies, Domains, ParkedForCause,
     Parked, HandlerInv, WireInv, MayPark, Copies
<1>21. CASE Reconnect
  BY <1>21 DEF Reconnect, Domains, ParkedForCause, Parked, HandlerInv,
     WireInv, MayPark, Copies
<1>22. CASE Start
  BY <1>22 DEF Start, Domains, ParkedForCause, Parked, HandlerInv, WireInv,
     MayPark, Copies
<1>23. CASE UNCHANGED vars
  BY <1>23 DEF vars, Domains, ParkedForCause, Parked, HandlerInv, WireInv,
     MayPark, Copies
<1>. QED
  BY <1>1, <1>2, <1>3, <1>4, <1>5, <1>6, <1>7, <1>8, <1>9, <1>10, <1>11,
     <1>12, <1>13, <1>14, <1>15, <1>16, <1>17, <1>18, <1>19, <1>20, <1>21,
     <1>22, <1>23 DEF Next, Broker, Handler

(* No step loses a message.                                                *)
LEMMA LossStep == IInv /\ [Next]_vars => NeverLost'
<1>. SUFFICES ASSUME IInv, [Next]_vars PROVE NeverLost'
  OBVIOUS
<1>. USE DeliveryConstantsOK DEF IInv, queues, client, store
<1>1. ASSUME NEW m \in Msgs, Send(m) PROVE NeverLost'
  <2>2. 0 \in Hops /\ <<m, 0>> \in Copies
    BY DEF Copies, Hops
  <2>1. \A d \in Copies : Kept(d) => Kept(d)'
    <3>1. \A d \in Copies : work[d] > 0 => work'[d] > 0
      BY <1>1, <2>2, AddGrows DEF Send, Domains
    <3>. QED
      BY <1>1, <3>1 DEF Send, Kept
  <2>3. Kept(<<m, 0>>)'
    BY <1>1, <2>2 DEF Send, Add, Kept, Domains
  <2>4. ASSUME NEW n \in sent, n \notin inbox \cup Ignored \cup Parked
        PROVE  \E h \in Hops : Kept(<<n, h>>)'
    <3>1. PICK h \in Hops : Kept(<<n, h>>)
      BY <2>4 DEF NeverLost
    <3>. QED
      BY <2>1, <3>1 DEF Copies, Domains
  <2>5. inbox' = inbox /\ Parked' = Parked /\ sent' = sent \cup {m}
    BY <1>1 DEF Send, Parked
  <2>. QED
    BY <2>2, <2>3, <2>4, <2>5 DEF NeverLost
<1>2. ASSUME NEW d \in Copies, Deliver(d) PROVE NeverLost'
  BY <1>2 DEF Deliver, Add, Remove, Domains, NeverLost, Parked, Kept,
     HandlerInv, Settlements, Copies
<1>3. ASSUME NEW d \in Copies, Expire(d) PROVE NeverLost'
  <2>1. \A e \in Copies : Kept(e) => Kept(e)'
    BY <1>3 DEF Expire, Add, Remove, Kept, Domains
  <2>. QED
    BY <1>3, <2>1, LossMono DEF Expire, Parked, Domains
<1>4. ASSUME NEW d \in Copies, ProcessRetry(d) PROVE NeverLost'
  <2>. DEFINE next == <<d[1], d[2] + 1>>
  <2>1. next \in Copies /\ next[1] = d[1] /\ d[2] + 1 \in Hops
    BY <1>4 DEF ProcessRetry, WireInv, MayRetry, Copies, Hops
  <2>2. /\ wire'["retry"] = Remove(wire["retry"], d)
        /\ wire'["nack"] = wire["nack"] /\ wire'["park"] = wire["park"]
    BY <1>4, WireMove DEF ProcessRetry, Domains, Settlements
  <2>3. retry'[next] > 0 /\ \A e \in Copies : retry[e] > 0 => retry'[e] > 0
    BY <1>4, <2>1, AddGrows DEF ProcessRetry, RouteRetry, Domains
  <2>4. Kept(next)'
    BY <2>3 DEF Kept
  <2>5. ASSUME NEW e \in Copies, Kept(e), e # d
        PROVE  Kept(e)'
    <3>1. wire'["retry"][e] = wire["retry"][e]
      BY <1>4, <2>2, <2>5, RemoveFacts DEF ProcessRetry, Domains, Settlements
    <3>2. \A k \in Settlements \ {"ack"} : wire'[k][e] = wire[k][e]
      BY <2>2, <3>1 DEF Settlements
    <3>3. work' = work /\ fresh' = fresh /\ live' = live /\ cur' = cur
      BY <1>4 DEF ProcessRetry, RouteRetry
    <3>. QED
      BY <2>3, <2>5, <3>2, <3>3 DEF Kept
  <2>. QED
    BY <1>4, <2>1, <2>4, <2>5, LossMono DEF ProcessRetry, RouteRetry, Parked, Domains
<1>5. ASSUME NEW d \in Copies, ProcessPark(d) PROVE NeverLost'
  <2>1. /\ wire'["park"] = Remove(wire["park"], d)
        /\ wire'["nack"] = wire["nack"] /\ wire'["retry"] = wire["retry"]
    BY <1>5, WireMove DEF ProcessPark, Domains, Settlements
  <2>2. d[1] \in Msgs /\ d[1] \in Parked' /\ Parked \subseteq Parked'
    BY <1>5 DEF ProcessPark, RoutePark, Parked, Domains, Copies
  <2>3. \A e \in Copies : Kept(e) => Kept(e)' \/ e = d
    BY <1>5, <2>1, RemoveFacts
    DEF ProcessPark, RoutePark, Kept, Domains, Settlements
  <2>. QED
    BY <1>5, <2>2, <2>3, LossMono DEF ProcessPark, RoutePark, Domains
<1>6. ASSUME NEW d \in Copies, ProcessAck(d) PROVE NeverLost'
  BY <1>6 DEF ProcessAck, Add, Remove, Domains, NeverLost, Parked, Kept,
     HandlerInv, Settlements, Copies
<1>7. ASSUME NEW d \in Copies, ProcessNack(d) PROVE NeverLost'
  BY <1>7 DEF ProcessNack, Add, Remove, Domains, NeverLost, Parked, Kept,
     HandlerInv, Settlements, Copies
<1>8. ASSUME NEW d \in Copies, TakeFresh(d) PROVE NeverLost'
  BY <1>8 DEF TakeFresh, Add, Remove, Domains, NeverLost, Parked, Kept,
     HandlerInv, Settlements, Copies
<1>9. ASSUME NEW d \in Copies, TakeStale(d) PROVE NeverLost'
  BY <1>9 DEF TakeStale, Add, Remove, Domains, NeverLost, Parked, Kept,
     HandlerInv, Settlements, Copies
<1>10. ASSUME NEW d \in Copies, DropStale(d) PROVE NeverLost'
  BY <1>10 DEF DropStale, Add, Remove, Domains, NeverLost, Parked, Kept,
     HandlerInv, Settlements, Copies
<1>11. CASE RejectInvalid
  BY <1>11 DEF RejectInvalid, Goto, Domains, NeverLost, Parked, Kept,
     HandlerInv, Settlements, Copies
<1>12. CASE IgnoreType
  BY <1>12 DEF IgnoreType, Goto, Domains, NeverLost, Parked, Kept,
     HandlerInv, Settlements, Copies
<1>13. CASE Apply
  BY <1>13 DEF Apply, Goto, Domains, NeverLost, Parked, Kept, HandlerInv,
     Settlements, Copies
<1>14. CASE ApplyFails
  BY <1>14 DEF ApplyFails, Goto, ParkNow, Domains, NeverLost, Parked, Kept,
     HandlerInv, Settlements, Copies
<1>15. CASE Republish
  BY <1>15 DEF Republish, Settle, Add, Remove, Domains, NeverLost, Parked,
     Kept, HandlerInv, Settlements, Copies
<1>16. CASE RepublishFails
  BY <1>16 DEF RepublishFails, Settle, Fault, Add, Remove, Domains,
     NeverLost, Parked, Kept, HandlerInv, Settlements, Copies
<1>17. CASE Ack
  BY <1>17 DEF Ack, Settle, Add, Remove, Domains, NeverLost, Parked, Kept,
     HandlerInv, Settlements, Copies
<1>18. CASE SettleStale
  <2>1. cur \in Copies /\ ~ live
    BY <1>18 DEF SettleStale, Domains, HandlerInv
  <2>2. \A e \in Copies : Kept(e) => Kept(e)'
    <3>1. \A e \in Copies : retry[e] > 0 => retry'[e] > 0
      <4>1. CASE pc = "retry" /\ RouteRetry(cur)
        <5>1. <<cur[1], cur[2] + 1>> \in Copies
          BY <2>1, <4>1 DEF HandlerInv, MayRetry, Copies, Hops
        <5>. QED
          BY <4>1, <5>1, AddGrows DEF RouteRetry, Domains
      <4>. QED
        BY <1>18, <4>1 DEF SettleStale, RoutePark
    <3>2. work' = work /\ fresh' = fresh /\ wire' = wire
      BY <1>18 DEF SettleStale, RouteRetry, RoutePark
    <3>. QED
      BY <2>1, <3>1, <3>2 DEF Kept
  <2>3. Parked \subseteq Parked'
    BY <1>18, <2>1 DEF SettleStale, RouteRetry, RoutePark, Parked, Domains
  <2>. QED
    BY <1>18, <2>2, <2>3, LossMono DEF SettleStale, Domains
<1>19. CASE ConnLost
  <2>1. \A e \in Copies : Kept(e) => Kept(e)'
    BY <1>19, RequeueKeeps DEF ConnLost, ChannelGone
  <2>. QED
    BY <1>19, <2>1, LossMono DEF ConnLost, ChannelGone, Requeue, Parked, Domains
<1>20. CASE Crash
  <2>1. \A e \in Copies : Kept(e) => Kept(e)'
    BY <1>20, RequeueKeeps DEF Crash
  <2>. QED
    BY <1>20, <2>1, LossMono DEF Crash, Requeue, Parked, Domains
<1>21. CASE Reconnect
  BY <1>21 DEF Reconnect, Domains, NeverLost, Parked, Kept, HandlerInv,
     Settlements, Copies
<1>22. CASE Start
  BY <1>22 DEF Start, Domains, NeverLost, Parked, Kept, HandlerInv,
     Settlements, Copies
<1>23. CASE UNCHANGED vars
  BY <1>23 DEF vars, Domains, NeverLost, Parked, Kept, HandlerInv,
     Settlements, Copies
<1>. QED
  BY <1>1, <1>2, <1>3, <1>4, <1>5, <1>6, <1>7, <1>8, <1>9, <1>10, <1>11,
     <1>12, <1>13, <1>14, <1>15, <1>16, <1>17, <1>18, <1>19, <1>20, <1>21,
     <1>22, <1>23 DEF Next, Broker, Handler

(* Init establishes the invariant.                                         *)
LEMMA InitInv == Init => IInv
<1>. SUFFICES ASSUME Init PROVE IInv
  OBVIOUS
<1>. USE DeliveryConstantsOK DEF Init, NoCopies
<1>1. Domains
  <2>1. 0 \in 0..MaxAttempts /\ 0 \in 0..MaxFaults
    OBVIOUS
  <2>. QED
    BY <2>1 DEF Domains
<1>2. CopyInv
  BY DEF CopyInv, Present
<1>3. HandlerInv /\ WireInv
  BY DEF HandlerInv, WireInv, Settlements
<1>4. EffectOnce /\ ParkedForCause /\ NeverLost
  BY DEF EffectOnce, ParkedForCause, Parked, NeverLost
<1>. QED
  BY <1>1, <1>2, <1>3, <1>4 DEF IInv

----------------------------------------------------------------------------
(* IInv is an invariant of the consumer path.                              *)
THEOREM Invariance == Spec => []IInv
<1>1. IInv /\ [Next]_vars => IInv'
  BY DomainsStep, HandlerStep, WireStep, CopyStep, EffectStep, ParkStep, LossStep
  DEF IInv
<1>. QED
  BY InitInv, <1>1, PTL DEF Spec

(* Every variable keeps to its domain and no copy is retried beyond the    *)
(* budget NextRetry grants.                                                *)
THEOREM TypeCorrect == Spec => []TypeOK
<1>1. IInv => TypeOK
  <2>. SUFFICES ASSUME IInv, NEW m \in Msgs, Kept(<<m, MaxAttempts>>)
                PROVE  FALSE
    BY DEF TypeOK, IInv
  <2>. DEFINE d == <<m, MaxAttempts>>
  <2>1. d \in Copies /\ d[2] = MaxAttempts
    BY DeliveryConstantsOK DEF Copies, Hops
  <2>2. Present(d)
    BY DEF Kept, Present
  <2>. QED
    BY <2>1, <2>2, DeliveryConstantsOK DEF IInv, CopyInv
<1>. QED
  BY Invariance, <1>1, PTL

(* The handler, the DLX republish and the supervisor never lose a message, *)
(* whatever drops, crashes or fails and in whatever order.                 *)
THEOREM NothingLost == Spec => []NeverLost
<1>1. IInv => NeverLost
  BY DEF IInv
<1>. QED
  BY Invariance, <1>1, PTL

(* The inbox makes the effect of a message happen at most once.            *)
THEOREM AppliedOnce == Spec => []EffectOnce
<1>1. IInv => EffectOnce
  BY DEF IInv
<1>. QED
  BY Invariance, <1>1, PTL

(* A message is parked only if it is poison or failed MaxAttempts times.   *)
THEOREM ParkingIsJustified == Spec => []ParkedForCause
<1>1. IInv => ParkedForCause
  BY DEF IInv
<1>. QED
  BY Invariance, <1>1, PTL

----------------------------------------------------------------------------
(* Refinement.  A message is queued while the broker holds a copy of it.   *)
Held(d) == Kept(d) \/ wire["ack"][d] > 0

LEMMA QueuedDef == Queued = {m \in Msgs : \E h \in Hops : Held(<<m, h>>)}
BY DEF Queued, Held

(* A step that changes no copy's being held changes no message's being     *)
(* queued.                                                                 *)
LEMMA QueuedSame ==
  ASSUME \A e \in Copies : Held(e)' <=> Held(e)
  PROVE  Queued' = Queued
<1>1. \A m \in Msgs, h \in Hops : Held(<<m, h>>)' <=> Held(<<m, h>>)
  BY DEF Copies
<1>. QED
  BY <1>1, QueuedDef DEF Queued, Held

LEMMA HeldIsQueued ==
  ASSUME NEW d \in Copies, Held(d)
  PROVE  d[1] \in Queued
<1>1. d[1] \in Msgs /\ d[2] \in Hops /\ d = <<d[1], d[2]>>
  BY DEF Copies
<1>. QED
  BY <1>1, QueuedDef

(* Steps that only move a copy between places where it is held, or that    *)
(* touch no copy.                                                          *)
LEMMA MovesStutter ==
  ASSUME IInv,
         \/ \E d \in Copies : \/ Deliver(d) \/ Expire(d) \/ ProcessNack(d)
                              \/ TakeFresh(d) \/ TakeStale(d) \/ DropStale(d)
         \/ RejectInvalid \/ IgnoreType \/ ApplyFails
         \/ Republish \/ RepublishFails \/ Ack
         \/ ConnLost \/ Crash \/ Reconnect \/ Start
         \/ UNCHANGED vars
  PROVE  UNCHANGED EO!vars
<1>. USE DEF queues, client, store
<1>a. Domains /\ HandlerInv
  BY DEF IInv
<1>1. sent' = sent /\ inbox' = inbox /\ parking' = parking
  BY DEF Deliver, Expire, ProcessNack, TakeFresh, TakeStale, DropStale,
         RejectInvalid, IgnoreType, ApplyFails, Goto, Republish, RepublishFails,
         Ack, Settle, ConnLost, Crash, ChannelGone, Requeue, Reconnect, Start, vars
<1>2. ASSUME NEW e \in Copies
      PROVE  Held(e)' <=> Held(e)
  <2>. USE DEF Held, Kept
  <2>1. ASSUME NEW d \in Copies, Deliver(d) \/ TakeFresh(d) \/ Expire(d)
        PROVE  Held(e)' <=> Held(e)
    BY <1>a, <2>1 DEF Deliver, TakeFresh, Expire, Add, Remove, Domains, HandlerInv
  <2>2. ASSUME NEW d \in Copies, TakeStale(d) \/ DropStale(d)
        PROVE  Held(e)' <=> Held(e)
    BY <1>a, <2>2 DEF TakeStale, DropStale, HandlerInv
  <2>3. ASSUME NEW d \in Copies, ProcessNack(d)
        PROVE  Held(e)' <=> Held(e)
    BY <1>a, <2>3 DEF ProcessNack, Add, Remove, Domains, Settlements
  <2>4. CASE Republish \/ RepublishFails \/ Ack
    <3>1. PICK k \in Settlements :
             /\ live /\ wire' = [wire EXCEPT ![k] = Add(@, cur)] /\ ~ live'
             /\ work' = work /\ retry' = retry /\ fresh' = fresh
      BY <2>4 DEF Republish, RepublishFails, Ack, Settle, Settlements
    <3>2. cur \in Copies
      BY <1>a, <3>1 DEF Domains, HandlerInv
    <3>3. /\ wire'[k] = Add(wire[k], cur)
          /\ \A j \in Settlements : j # k => wire'[j] = wire[j]
      BY <1>a, <3>1, <3>2, WireAdd DEF Domains
    <3>4. wire[k] \in [Copies -> Nat]
      BY <1>a DEF Domains
    <3>5. e = cur => wire'[k][e] > 0
      BY <3>2, <3>3, <3>4, AddFacts
    <3>6. e # cur => wire'[k][e] = wire[k][e]
      BY <3>2, <3>3, <3>4, AddFacts
    <3>. QED
      BY <3>1, <3>3, <3>5, <3>6 DEF Settlements
  <2>5. CASE ConnLost \/ Crash
    <3>1. Requeue
      BY <2>5 DEF ConnLost, Crash, ChannelGone
    <3>2. /\ retry' = retry /\ fresh'[e] = 0 /\ ~ live'
          /\ \A k \in Settlements : wire'[k][e] = 0
      BY <3>1 DEF Requeue, NoCopies
    <3>3. Held(e)' <=> retry[e] > 0 \/ work'[e] > 0
      BY <3>2 DEF Settlements
    <3>4. Held(e) <=> \/ retry[e] > 0 \/ work[e] > 0 \/ fresh[e] > 0
                      \/ (live /\ cur = e)
                      \/ \E k \in Settlements : wire[k][e] > 0
      BY DEF Settlements
    <3>. HIDE DEF Held
    <3>. QED
      BY <1>a, <3>1, <3>3, <3>4, RequeueType
  <2>6. CASE \/ RejectInvalid \/ IgnoreType \/ ApplyFails
             \/ Reconnect \/ Start \/ UNCHANGED vars
    BY <2>6 DEF RejectInvalid, IgnoreType, ApplyFails, Goto, Reconnect, Start, vars
  <2>. QED
    BY <2>1, <2>2, <2>3, <2>4, <2>5, <2>6
<1>3. Queued' = Queued
  BY <1>2, QueuedSame
<1>. QED
  BY <1>1, <1>3 DEF EO!vars, Parked

(* A step that leaves every copy but d as it was leaves every message but  *)
(* d's queued as it was.                                                   *)
LEMMA QueuedOthers ==
  ASSUME NEW d \in Copies,
         \A e \in Copies : e # d => (Held(e)' <=> Held(e))
  PROVE  Queued' \ {d[1]} = Queued \ {d[1]}
<1>1. \A m \in Msgs, h \in Hops : m # d[1] => (Held(<<m, h>>)' <=> Held(<<m, h>>))
  BY DEF Copies
<1>. QED
  BY <1>1, QueuedDef DEF Queued, Held

LEMMA RefinesStep ==
  ASSUME IInv, [Next]_vars
  PROVE  [EO!Next]_(EO!vars)
<1>. USE DEF queues, client, store
<1>a. Domains /\ HandlerInv /\ WireInv /\ CopyInv /\ NeverLost
  BY DEF IInv
<1>b. Domains' /\ NeverLost'
  BY DomainsStep, LossStep
<1>c. \A d \in Copies : d[1] \in Msgs
  BY DEF Copies
<1>1. ASSUME NEW m \in Msgs, Send(m)
      PROVE  EO!Next
  <2>1. <<m, 0>> \in Copies
    BY DeliveryConstantsOK DEF Copies, Hops
  <2>2. /\ work'[<<m, 0>>] > 0
        /\ \A e \in Copies : e # <<m, 0>> => work'[e] = work[e]
    <3>1. work \in [Copies -> Nat] /\ work' = Add(work, <<m, 0>>)
      BY <1>a, <1>1 DEF Send, Domains
    <3>2. work'[<<m, 0>>] > 0
      BY <2>1, <3>1, AddGrows
    <3>. QED
      BY <2>1, <3>1, <3>2, AddFacts
  <2>3. \A e \in Copies : e # <<m, 0>> => (Held(e)' <=> Held(e))
    BY <1>1, <2>2 DEF Send, Held, Kept
  <2>4. Queued' \ {m} = Queued \ {m}
    BY <2>1, <2>3, QueuedOthers
  <2>5. m \in Queued'
    BY <2>1, <2>2, DeliveryConstantsOK DEF Queued, Kept, Hops
  <2>6. EO!Send(m)
    BY <1>1, <2>4, <2>5 DEF Send, EO!Send, Parked
  <2>. QED
    BY <2>6 DEF EO!Next, EO!Msgs, Msgs
<1>2. ASSUME NEW d \in Copies, ProcessRetry(d)
      PROVE  UNCHANGED EO!vars
  <2>1. <<d[1], d[2] + 1>> \in Copies
    BY <1>a, <1>2, DeliveryConstantsOK DEF ProcessRetry, WireInv, MayRetry, Copies, Hops
  <2>2. /\ wire["retry"] \in [Copies -> Nat] /\ wire["ack"] \in [Copies -> Nat]
        /\ retry \in [Copies -> Nat]
    BY <1>a DEF Domains, Settlements
  <2>3. /\ wire'["retry"] = Remove(wire["retry"], d)
        /\ wire'["ack"] = Add(wire["ack"], d)
        /\ wire'["nack"] = wire["nack"] /\ wire'["park"] = wire["park"]
    BY <1>a, <1>2, WireMove DEF ProcessRetry, Domains, Settlements
  <2>4. /\ wire'["ack"][d] > 0
        /\ \A e \in Copies : e # d => /\ wire'["retry"][e] = wire["retry"][e]
                                      /\ wire'["ack"][e] = wire["ack"][e]
    BY <1>2, <2>2, <2>3, AddFacts, RemoveFacts DEF ProcessRetry
  <2>5. \A e \in Copies : e # <<d[1], d[2] + 1>> => retry'[e] = retry[e]
    BY <1>2, <2>1, <2>2, AddFacts DEF ProcessRetry, RouteRetry
  <2>6. Held(d) /\ Held(d)'
    BY <1>2, <2>4 DEF ProcessRetry, Held, Kept, Settlements
  <2>7. ASSUME NEW e \in Copies, e # <<d[1], d[2] + 1>>
        PROVE  Held(e)' <=> Held(e)
    <3>1. CASE e = d
      BY <2>6, <3>1
    <3>2. CASE e # d
      BY <1>2, <2>3, <2>4, <2>5, <2>7, <3>2
      DEF ProcessRetry, RouteRetry, Held, Kept, Settlements
    <3>. QED
      BY <3>1, <3>2
  <2>8. Queued' \ {d[1]} = Queued \ {d[1]}
    <3>1. <<d[1], d[2] + 1>>[1] = d[1]
      OBVIOUS
    <3>. QED
      BY <2>1, <2>7, <3>1, QueuedOthers
  <2>9. d[1] \in Queued
    BY <2>6, HeldIsQueued
  <2>10. d[1] \in Queued'
    BY <2>6, QueuedDef, <1>c DEF Queued, Held, Copies
  <2>11. Queued' = Queued
    BY <2>8, <2>9, <2>10
  <2>. QED
    BY <1>2, <2>11 DEF ProcessRetry, RouteRetry, EO!vars, Parked
<1>3. ASSUME NEW d \in Copies, ProcessPark(d)
      PROVE  EO!Next
  <2>1. d[1] \in sent /\ d[1] \notin Ignored
    BY <1>a, <1>3 DEF ProcessPark, WireInv, MayPark, CopyInv, Present, Settlements
  <2>2. wire["park"] \in [Copies -> Nat] /\ wire["ack"] \in [Copies -> Nat]
    BY <1>a DEF Domains, Settlements
  <2>3. /\ wire'["park"] = Remove(wire["park"], d)
        /\ wire'["ack"] = Add(wire["ack"], d)
        /\ wire'["nack"] = wire["nack"] /\ wire'["retry"] = wire["retry"]
    BY <1>a, <1>3, WireMove DEF ProcessPark, Domains, Settlements
  <2>4. /\ wire'["ack"][d] > 0
        /\ \A e \in Copies : e # d => /\ wire'["park"][e] = wire["park"][e]
                                      /\ wire'["ack"][e] = wire["ack"][e]
    BY <1>3, <2>2, <2>3, AddFacts, RemoveFacts DEF ProcessPark
  <2>5. Held(d) /\ Held(d)'
    BY <1>3, <2>4 DEF ProcessPark, Held, Kept, Settlements
  <2>6. ASSUME NEW e \in Copies, e # d
        PROVE  Held(e)' <=> Held(e)
    BY <1>3, <2>3, <2>4, <2>6 DEF ProcessPark, RoutePark, Held, Kept, Settlements
  <2>7. Queued' = Queued
    BY <2>5, <2>6, QueuedSame
  <2>8. Parked' = Parked \cup {d[1]}
    BY <1>3, <1>a, <1>c DEF ProcessPark, RoutePark, Parked, Domains
  <2>9. EO!Park(d[1])
    BY <1>3, <2>1, <2>7, <2>8 DEF ProcessPark, EO!Park
  <2>. QED
    BY <1>c, <2>9 DEF EO!Next, EO!Msgs, Msgs
<1>4. ASSUME NEW d \in Copies, ProcessAck(d)
      PROVE  EO!Next \/ UNCHANGED EO!vars
  <2>1. d[1] \in sent
    BY <1>a, <1>4 DEF ProcessAck, CopyInv, Present, Settlements
  <2>2. wire["ack"] \in [Copies -> Nat]
    BY <1>a DEF Domains, Settlements
  <2>3. /\ wire'["ack"] = Remove(wire["ack"], d)
        /\ wire'["park"] = wire["park"]
        /\ wire'["nack"] = wire["nack"] /\ wire'["retry"] = wire["retry"]
    BY <1>a, <1>4, WireRemove DEF ProcessAck, Domains, Settlements
  <2>4. \A e \in Copies : e # d => wire'["ack"][e] = wire["ack"][e]
    BY <1>4, <2>2, <2>3, RemoveFacts DEF ProcessAck
  <2>5. ASSUME NEW e \in Copies, e # d
        PROVE  Held(e)' <=> Held(e)
    BY <1>4, <2>3, <2>4, <2>5 DEF ProcessAck, Held, Kept, Settlements
  <2>6. Queued' \ {d[1]} = Queued \ {d[1]}
    BY <2>5, QueuedOthers
  <2>7. d[1] \in Queued
    <3>1. Held(d)
      BY <1>4 DEF ProcessAck, Held, Kept, Settlements
    <3>. QED
      BY <3>1, HeldIsQueued
  <2>8. sent' = sent /\ inbox' = inbox /\ Parked' = Parked
    BY <1>4 DEF ProcessAck, Parked
  <2>9. CASE d[1] \in Queued'
    <3>1. Queued' = Queued
      BY <2>6, <2>7, <2>9
    <3>. QED
      BY <2>8, <3>1 DEF EO!vars
  <2>10. CASE d[1] \notin Queued'
    <3>1. Queued' = Queued \ {d[1]}
      BY <2>6, <2>10
    <3>2. d[1] \in inbox \cup Ignored \cup Parked
      BY <1>b, <1>c, <2>1, <2>8, <2>10 DEF NeverLost, Queued
    <3>3. EO!Release(d[1])
      BY <2>7, <2>8, <3>1, <3>2 DEF EO!Release
    <3>. QED
      BY <1>c, <3>3 DEF EO!Next, EO!Msgs, Msgs
  <2>. QED
    BY <2>9, <2>10
<1>5. CASE Apply
  <2>1. cur \in Copies /\ cur[1] \in sent /\ cur[1] \in Handled
    BY <1>5, <1>a DEF Apply, HandlerInv, Domains, CopyInv, Present
  <2>2. ASSUME NEW e \in Copies
        PROVE  Held(e)' <=> Held(e)
    BY <1>5 DEF Apply, Goto, Held, Kept
  <2>3. Queued' = Queued
    BY <2>2, QueuedSame
  <2>4. sent' = sent /\ Parked' = Parked
    BY <1>5 DEF Apply, Goto, Parked
  <2>5. CASE cur[1] \in inbox
    BY <1>5, <2>3, <2>4, <2>5 DEF Apply, EO!vars
  <2>6. CASE cur[1] \notin inbox
    <3>1. EO!Apply(cur[1])
      BY <1>5, <2>1, <2>3, <2>4, <2>6 DEF Apply, EO!Apply
    <3>. QED
      BY <2>1, <3>1 DEF EO!Next, EO!Msgs
  <2>. QED
    BY <2>5, <2>6
<1>6. CASE SettleStale
  <2>1. cur \in Copies /\ cur[1] \in sent /\ cur[1] \in Msgs /\ ~ live
    BY <1>6, <1>a, <1>c DEF SettleStale, HandlerInv, Domains, CopyInv, Present
  <2>2. /\ sent' = sent /\ inbox' = inbox /\ work' = work /\ fresh' = fresh
        /\ live' = live /\ wire' = wire
    BY <1>6 DEF SettleStale, RouteRetry, RoutePark
  <2>3. CASE retry' = retry
    <3>1. ASSUME NEW e \in Copies
          PROVE  Held(e)' <=> Held(e)
      BY <2>1, <2>2, <2>3 DEF Held, Kept
    <3>2. Queued' = Queued
      BY <3>1, QueuedSame
    <3>3. CASE parking' = parking
      BY <2>2, <3>2, <3>3 DEF EO!vars, Parked
    <3>4. CASE pc = "park" /\ RoutePark(cur)
      <4>1. Parked' = Parked \cup {cur[1]}
        BY <3>4, <1>a, <2>1 DEF RoutePark, Parked, Domains
      <4>2. cur[1] \notin Ignored
        BY <3>4, <1>a DEF HandlerInv, MayPark
      <4>3. EO!Park(cur[1])
        BY <2>1, <2>2, <3>2, <4>1, <4>2 DEF EO!Park
      <4>. QED
        BY <2>1, <4>3 DEF EO!Next, EO!Msgs, Msgs
    <3>. QED
      BY <1>6, <3>3, <3>4 DEF SettleStale, RouteRetry
  <2>4. CASE pc = "retry" /\ RouteRetry(cur)
    <3>. DEFINE c == <<cur[1], cur[2] + 1>>
    <3>1. c \in Copies /\ c[1] = cur[1]
      BY <1>a, <2>1, <2>4, DeliveryConstantsOK DEF HandlerInv, MayRetry, Copies, Hops
    <3>2. /\ retry'[c] > 0
          /\ \A e \in Copies : e # c => retry'[e] = retry[e]
      <4>1. retry \in [Copies -> Nat] /\ retry' = Add(retry, c)
        BY <1>a, <2>4 DEF RouteRetry, Domains
      <4>. HIDE DEF c
      <4>2. retry'[c] > 0
        BY <3>1, <4>1, AddGrows
      <4>. QED
        BY <3>1, <4>1, <4>2, AddFacts
    <3>. HIDE DEF c
    <3>3. ASSUME NEW e \in Copies, e # c
          PROVE  Held(e)' <=> Held(e)
      BY <2>1, <2>2, <3>2, <3>3 DEF Held, Kept
    <3>4. Queued' \ {cur[1]} = Queued \ {cur[1]}
      BY <3>1, <3>3, QueuedOthers
    <3>5. cur[1] \in Queued'
      BY <2>1, <3>1, <3>2 DEF Queued, Kept, Copies
    <3>6. EO!Revive(cur[1])
      BY <2>1, <2>2, <2>4, <3>4, <3>5 DEF EO!Revive, RouteRetry, Parked
    <3>. QED
      BY <2>1, <3>6 DEF EO!Next, EO!Msgs, Msgs
  <2>. QED
    BY <1>6, <2>3, <2>4 DEF SettleStale, RoutePark
<1>. QED
  BY <1>1, <1>2, <1>3, <1>4, <1>5, <1>6, MovesStutter DEF Next, Broker, Handler

(* The consumer path, for every set of messages, retry budget and number   *)
(* of faults, implements effectively-once processing: consumer.go's pump,  *)
(* Process, retryOrPark and park never apply twice and never drop.         *)
THEOREM Refinement == Spec => ImplementsEffectivelyOnce
<1>1. Init => EO!Init
  <2>. SUFFICES ASSUME Init
               PROVE  EO!Init
    OBVIOUS
  <2>1. ASSUME NEW m \in Msgs, NEW h \in Hops
        PROVE  ~ Held(<<m, h>>)
    <3>1. <<m, h>> \in Copies
      BY DEF Copies
    <3>. QED
      BY <3>1 DEF Init, Held, Kept, NoCopies, Settlements
  <2>2. Queued = {}
    BY <2>1, QueuedDef
  <2>3. Parked = {}
    BY DEF Init, Parked
  <2>. QED
    BY <2>2, <2>3 DEF Init, EO!Init
<1>2. IInv /\ [Next]_vars => [EO!Next]_(EO!vars)
  BY RefinesStep
<1>. QED
  BY <1>1, <1>2, Invariance, PTL DEF Spec, EO!Spec, ImplementsEffectivelyOnce

-----------------------------------------------------------------------------
(***************************************************************************)
(* While nothing has gone wrong on the connection, the retry path of the   *)
(* consumer keeps a message in a single copy: dlq.go's republish-then-ack  *)
(* never leaves the original and the retry behind, whatever the order in   *)
(* which the broker delivers, expires and processes.  Duplicates come from *)
(* faults alone.                                                           *)
(***************************************************************************)
(* The places a copy waits in on its way to being applied or parked.  One  *)
(* whose ack is on the wire has no future and is not counted.              *)
Slots == {"work", "retry", "fresh", "cur", "wretry", "wpark"}

At(t, d) ==
  CASE t = "work"   -> work[d]
    [] t = "retry"  -> retry[d]
    [] t = "fresh"  -> fresh[d]
    [] t = "cur"    -> IF cur = d THEN 1 ELSE 0
    [] t = "wretry" -> wire["retry"][d]
    [] t = "wpark"  -> wire["park"][d]

(* A message has at most one copy, in one place.                           *)
Single ==
  \A s, t \in Slots, d, e \in Copies :
    At(s, d) > 0 /\ At(t, e) > 0 /\ d[1] = e[1] => s = t /\ d = e /\ At(s, d) = 1

(* That copy is not of a parked message, and of an applied one only until  *)
(* the handler acks it.                                                    *)
Pending ==
  \A t \in Slots, d \in Copies :
    At(t, d) > 0 =>
      parking[d[1]] = 0 /\ (d[1] \in inbox => t = "cur" /\ pc = "ack")

(* A message ends in one way.                                              *)
EndsOnce ==
  \A m \in Msgs :
    /\ parking[m] <= 1
    /\ parking[m] > 0 => m \notin inbox
    /\ parking[m] > 0 \/ m \in inbox => m \in sent

(* Nothing of a lost channel is about.                                     *)
NoRemains ==
  /\ cur # None => live
  /\ \A d \in Copies : stale[d] = 0 /\ wire["nack"][d] = 0

Clean == Single /\ Pending /\ EndsOnce /\ NoRemains

CleanInv == faults = 0 => Clean

-----------------------------------------------------------------------------
LEMMA AtIs ==
  ASSUME NEW d \in Copies
  PROVE  /\ At("work", d) = work[d] /\ At("work", d)' = work'[d]
         /\ At("retry", d) = retry[d] /\ At("retry", d)' = retry'[d]
         /\ At("fresh", d) = fresh[d] /\ At("fresh", d)' = fresh'[d]
         /\ At("cur", d) = (IF cur = d THEN 1 ELSE 0)
         /\ At("cur", d)' = (IF cur' = d THEN 1 ELSE 0)
         /\ At("wretry", d) = wire["retry"][d] /\ At("wretry", d)' = wire'["retry"][d]
         /\ At("wpark", d) = wire["park"][d] /\ At("wpark", d)' = wire'["park"][d]
BY DEF At

LEMMA AtType ==
  ASSUME Domains, NEW t \in Slots, NEW d \in Copies
  PROVE  At(t, d) \in Nat
<1>1. /\ work[d] \in Nat /\ retry[d] \in Nat /\ fresh[d] \in Nat
      /\ wire["retry"][d] \in Nat /\ wire["park"][d] \in Nat
  BY DEF Domains, Settlements
<1>. QED
  BY <1>1, AtIs DEF Slots

(* A slot with a copy of a message is the only one.                        *)
LEMMA OneSlot ==
  ASSUME Domains, Single, NEW s \in Slots, NEW d \in Copies, At(s, d) > 0
  PROVE  /\ At(s, d) = 1
         /\ \A t \in Slots, e \in Copies :
              e[1] = d[1] /\ (t # s \/ e # d) => At(t, e) = 0
<1>1. At(s, d) = 1
  BY DEF Single
<1>2. ASSUME NEW t \in Slots, NEW e \in Copies, e[1] = d[1], t # s \/ e # d
      PROVE  At(t, e) = 0
  <2>1. ~ (At(t, e) > 0)
    BY <1>2 DEF Single
  <2>2. At(t, e) \in Nat
    BY AtType
  <2>. QED
    BY <2>1, <2>2
<1>. QED
  BY <1>1, <1>2

(* The step takes a copy of d's message from s, and leaves one in t or     *)
(* none: what becomes of the slots.                                        *)
LEMMA Taken ==
  ASSUME Domains, Single, NEW s \in Slots, NEW d \in Copies, At(s, d) > 0,
         At(s, d)' = At(s, d) - 1,
         \A u \in Slots, c \in Copies : u # s \/ c # d => At(u, c)' = At(u, c)
  PROVE  /\ Single'
         /\ \A u \in Slots, c \in Copies :
              At(u, c)' > 0 => c[1] # d[1] /\ At(u, c) > 0
<1>1. At(s, d)' = 0
  BY OneSlot
<1>2. ASSUME NEW u \in Slots, NEW c \in Copies, At(u, c)' > 0
      PROVE  c[1] # d[1] /\ At(u, c) > 0 /\ At(u, c)' = At(u, c)
  <2>1. u # s \/ c # d
    BY <1>1, <1>2
  <2>2. At(u, c)' = At(u, c)
    BY <2>1
  <2>3. c[1] # d[1]
    BY <2>1, <2>2, <1>2, OneSlot
  <2>. QED
    BY <1>2, <2>2, <2>3
<1>3. Single'
  <2>. SUFFICES ASSUME NEW u \in Slots, NEW v \in Slots, NEW c \in Copies, NEW e \in Copies,
                       At(u, c)' > 0, At(v, e)' > 0, c[1] = e[1]
                PROVE  u = v /\ c = e /\ At(u, c)' = 1
    BY DEF Single
  <2>1. At(u, c) > 0 /\ At(v, e) > 0 /\ At(u, c)' = At(u, c)
    BY <1>2
  <2>. QED
    BY <2>1 DEF Single
<1>. QED
  BY <1>2, <1>3

LEMMA Moved ==
  ASSUME Domains, Single, NEW s \in Slots, NEW d \in Copies, At(s, d) > 0,
         NEW t \in Slots, NEW e \in Copies, e[1] = d[1], s # t \/ d # e,
         At(s, d)' = At(s, d) - 1, At(t, e)' = At(t, e) + 1,
         \A u \in Slots, c \in Copies :
           (u # s \/ c # d) /\ (u # t \/ c # e) => At(u, c)' = At(u, c)
  PROVE  /\ Single'
         /\ \A u \in Slots, c \in Copies :
              At(u, c)' > 0 => (u = t /\ c = e) \/ (c[1] # d[1] /\ At(u, c) > 0)
<1>1. At(s, d)' = 0 /\ At(t, e)' = 1
  BY OneSlot
<1>2. ASSUME NEW u \in Slots, NEW c \in Copies, At(u, c)' > 0, u # t \/ c # e
      PROVE  c[1] # d[1] /\ At(u, c) > 0 /\ At(u, c)' = At(u, c)
  <2>1. u # s \/ c # d
    BY <1>1, <1>2
  <2>2. At(u, c)' = At(u, c)
    BY <1>2, <2>1
  <2>3. c[1] # d[1]
    BY <2>1, <2>2, <1>2, OneSlot
  <2>. QED
    BY <1>2, <2>2, <2>3
<1>3. Single'
  <2>. SUFFICES ASSUME NEW u \in Slots, NEW v \in Slots, NEW c \in Copies, NEW f \in Copies,
                       At(u, c)' > 0, At(v, f)' > 0, c[1] = f[1]
                PROVE  u = v /\ c = f /\ At(u, c)' = 1
    BY DEF Single
  <2>1. CASE u = t /\ c = e
    <3>1. v = t /\ f = e
      BY <1>2, <2>1
    <3>. QED
      BY <2>1, <3>1, <1>1
  <2>2. CASE u # t \/ c # e
    <3>1. At(u, c) > 0 /\ At(u, c)' = At(u, c) /\ c[1] # d[1]
      BY <1>2, <2>2
    <3>2. At(v, f) > 0
      BY <1>2, <3>1
    <3>. QED
      BY <3>1, <3>2 DEF Single
  <2>. QED
    BY <2>1, <2>2
<1>. QED
  BY <1>2, <1>3

(* An unsettled copy, other than one the handler has dealt with, is of a   *)
(* message that is neither applied nor parked.                             *)
LEMMA Unsettled ==
  ASSUME Pending, NEW s \in Slots, NEW d \in Copies, At(s, d) > 0, s # "cur" \/ pc # "ack"
  PROVE  d[1] \notin inbox /\ parking[d[1]] = 0
BY DEF Pending

(* A copy moves on, and the handler does not leave "ack" for it.           *)
LEMMA MoveClean ==
  ASSUME Domains, Clean, NEW s \in Slots, NEW d \in Copies, At(s, d) > 0,
         NEW t \in Slots, NEW e \in Copies, e[1] = d[1], s # t \/ d # e,
         At(s, d)' = At(s, d) - 1, At(t, e)' = At(t, e) + 1,
         \A u \in Slots, c \in Copies :
           (u # s \/ c # d) /\ (u # t \/ c # e) => At(u, c)' = At(u, c),
         s # "cur" \/ pc # "ack", pc = "ack" => pc' = "ack",
         parking' = parking, inbox' = inbox, sent' = sent, NoRemains'
  PROVE  Clean'
<1>1. /\ Single'
      /\ \A u \in Slots, c \in Copies :
           At(u, c)' > 0 => (u = t /\ c = e) \/ (c[1] # d[1] /\ At(u, c) > 0)
  BY Moved DEF Clean
<1>2. d[1] \notin inbox /\ parking[d[1]] = 0
  BY Unsettled DEF Clean
<1>3. Pending'
  <2>. SUFFICES ASSUME NEW u \in Slots, NEW c \in Copies, At(u, c)' > 0
                PROVE  parking'[c[1]] = 0 /\ (c[1] \in inbox' => u = "cur" /\ pc' = "ack")
    BY DEF Pending
  <2>1. CASE u = t /\ c = e
    BY <2>1, <1>2
  <2>2. CASE At(u, c) > 0
    BY <2>2 DEF Clean, Pending
  <2>. QED
    BY <1>1, <2>1, <2>2
<1>4. EndsOnce'
  BY DEF Clean, EndsOnce
<1>. QED
  BY <1>1, <1>3, <1>4 DEF Clean

(* The handler's last word on the copy it works on, or the broker's on one *)
(* to park.                                                                *)
LEMMA EndClean ==
  ASSUME Domains, Clean, NEW s \in Slots, NEW d \in Copies, At(s, d) > 0,
         At(s, d)' = At(s, d) - 1,
         \A u \in Slots, c \in Copies : u # s \/ c # d => At(u, c)' = At(u, c),
         s = "cur" \/ pc' = pc,
         inbox' = inbox, sent' = sent, NoRemains', EndsOnce',
         \A m \in Msgs : m # d[1] => parking'[m] = parking[m]
  PROVE  Clean'
<1>1. /\ Single'
      /\ \A u \in Slots, c \in Copies : At(u, c)' > 0 => c[1] # d[1] /\ At(u, c) > 0
  BY Taken DEF Clean
<1>2. Pending'
  <2>. SUFFICES ASSUME NEW u \in Slots, NEW c \in Copies, At(u, c)' > 0
                PROVE  parking'[c[1]] = 0 /\ (c[1] \in inbox' => u = "cur" /\ pc' = "ack")
    BY DEF Pending
  <2>1. c[1] # d[1] /\ At(u, c) > 0 /\ c[1] \in Msgs
    BY <1>1 DEF Copies
  <2>2. parking[c[1]] = 0 /\ (c[1] \in inbox => u = "cur" /\ pc = "ack")
    BY <2>1 DEF Clean, Pending
  <2>3. s = "cur" => u # "cur"
    <3>. SUFFICES ASSUME s = "cur", u = "cur" PROVE FALSE
      OBVIOUS
    <3>1. cur = d /\ cur = c
      BY <2>1, AtIs
    <3>. QED
      BY <2>1, <3>1
  <2>. QED
    BY <2>1, <2>2, <2>3
<1>. QED
  BY <1>1, <1>2 DEF Clean

(* No copy moves.                                                          *)
LEMMA StayClean ==
  ASSUME Domains, Clean,
         \A u \in Slots, c \in Copies : At(u, c)' = At(u, c),
         parking' = parking, sent' = sent, NoRemains', EndsOnce',
         \A u \in Slots, c \in Copies :
           At(u, c) > 0 /\ c[1] \in inbox' => u = "cur" /\ pc' = "ack"
  PROVE  Clean'
<1>1. Single'
  BY DEF Clean, Single
<1>2. Pending'
  BY DEF Clean, Pending
<1>. QED
  BY <1>1, <1>2 DEF Clean

-----------------------------------------------------------------------------
LEMMA SendClean ==
  ASSUME IInv, Clean, NEW m \in Msgs, Send(m), faults' = 0
  PROVE  Clean'
<1>. DEFINE d == <<m, 0>>
<1>a. Domains /\ CopyInv
  BY DEF IInv
<1>1. m \notin sent
  BY <1>a, DeliveryConstantsOK DEF Send, Fault, Domains
<1>2. d \in Copies /\ d[1] = m
  BY DeliveryConstantsOK DEF Copies, Hops
<1>3. /\ sent' = sent \cup {m} /\ work' = Add(work, d) /\ retry' = retry /\ parking' = parking
      /\ fresh' = fresh /\ cur' = cur /\ live' = live /\ pc' = pc /\ wire' = wire /\ stale' = stale
      /\ inbox' = inbox
  BY DEF Send, client, store
<1>. HIDE DEF d
<1>4. ASSUME NEW u \in Slots, NEW c \in Copies, c[1] = m PROVE At(u, c) = 0
  <2>1. ~ Present(c)
    BY <1>a, <1>1, <1>4 DEF CopyInv
  <2>2. ~ (At(u, c) > 0)
    BY <2>1, AtIs DEF Present, Slots, Settlements
  <2>. QED
    BY <2>2, <1>a, AtType
<1>5. work'[d] = work[d] + 1 /\ \A c \in Copies : c # d => work'[c] = work[c]
  BY <1>a, <1>2, <1>3, AddFacts DEF Domains
<1>6. /\ At("work", d)' = 1
      /\ \A u \in Slots, c \in Copies : u # "work" \/ c # d => At(u, c)' = At(u, c)
  <2>1. work[d] = 0
    BY <1>2, <1>4, AtIs DEF Slots
  <2>2. At("work", d)' = 1
    BY <2>1, <1>2, <1>5, AtIs
  <2>3. ASSUME NEW u \in Slots, NEW c \in Copies, u # "work" \/ c # d
        PROVE  At(u, c)' = At(u, c)
    BY <2>3, <1>3, <1>5, AtIs DEF Slots
  <2>. QED
    BY <2>2, <2>3
<1>7. ASSUME NEW u \in Slots, NEW c \in Copies, At(u, c)' > 0
      PROVE  (u = "work" /\ c = d) \/ (c[1] # m /\ At(u, c) > 0 /\ At(u, c)' = At(u, c))
  BY <1>4, <1>6, <1>7
<1>8. Single'
  <2>. SUFFICES ASSUME NEW u \in Slots, NEW v \in Slots, NEW c \in Copies, NEW f \in Copies,
                       At(u, c)' > 0, At(v, f)' > 0, c[1] = f[1]
                PROVE  u = v /\ c = f /\ At(u, c)' = 1
    BY DEF Single
  <2>1. CASE u = "work" /\ c = d
    BY <2>1, <1>2, <1>6, <1>7
  <2>2. CASE c[1] # m /\ At(u, c) > 0 /\ At(u, c)' = At(u, c)
    <3>1. At(v, f) > 0
      BY <2>2, <1>2, <1>7
    <3>. QED
      BY <2>2, <3>1 DEF Clean, Single
  <2>. QED
    BY <2>1, <2>2, <1>7
<1>9. parking[m] = 0 /\ m \notin inbox
  <2>1. parking[m] \in Nat
    BY <1>a DEF Domains
  <2>. QED
    BY <2>1, <1>1 DEF Clean, EndsOnce
<1>10. Pending'
  <2>. SUFFICES ASSUME NEW u \in Slots, NEW c \in Copies, At(u, c)' > 0
                PROVE  parking'[c[1]] = 0 /\ (c[1] \in inbox' => u = "cur" /\ pc' = "ack")
    BY DEF Pending
  <2>1. CASE c = d
    BY <2>1, <1>2, <1>3, <1>9
  <2>2. CASE At(u, c) > 0
    BY <2>2, <1>3 DEF Clean, Pending
  <2>. QED
    BY <1>7, <2>1, <2>2
<1>11. EndsOnce'
  BY <1>3 DEF Clean, EndsOnce
<1>12. NoRemains'
  BY <1>3 DEF Clean, NoRemains
<1>. QED
  BY <1>8, <1>10, <1>11, <1>12 DEF Clean

(* The broker's steps.                                                     *)
LEMMA DeliverClean ==
  ASSUME IInv, Clean, NEW d \in Copies, Deliver(d)
  PROVE  Clean'
<1>a. Domains
  BY DEF IInv
<1>1. /\ work[d] > 0 /\ work' = Remove(work, d) /\ fresh' = Add(fresh, d)
      /\ sent' = sent /\ retry' = retry /\ parking' = parking /\ cur' = cur /\ live' = live
      /\ pc' = pc /\ wire' = wire /\ stale' = stale /\ inbox' = inbox
  BY DEF Deliver, store
<1>2. work'[d] = work[d] - 1 /\ \A c \in Copies : c # d => work'[c] = work[c]
  BY <1>a, <1>1, RemoveFacts DEF Domains
<1>3. fresh'[d] = fresh[d] + 1 /\ \A c \in Copies : c # d => fresh'[c] = fresh[c]
  BY <1>a, <1>1, AddFacts DEF Domains
<1>4. /\ At("work", d) > 0 /\ At("work", d)' = At("work", d) - 1
      /\ At("fresh", d)' = At("fresh", d) + 1
  BY <1>1, <1>2, <1>3, AtIs
<1>5. ASSUME NEW u \in Slots, NEW c \in Copies, u # "work" \/ c # d, u # "fresh" \/ c # d
      PROVE  At(u, c)' = At(u, c)
  BY <1>1, <1>2, <1>3, <1>5, AtIs DEF Slots
<1>6. NoRemains'
  BY <1>1 DEF Clean, NoRemains
<1>7. "work" \in Slots /\ "fresh" \in Slots
  BY DEF Slots
<1>. QED
  BY <1>a, <1>1, <1>4, <1>5, <1>6, <1>7, MoveClean

LEMMA ExpireClean ==
  ASSUME IInv, Clean, NEW d \in Copies, Expire(d)
  PROVE  Clean'
<1>a. Domains
  BY DEF IInv
<1>1. /\ retry[d] > 0 /\ retry' = Remove(retry, d) /\ work' = Add(work, d)
      /\ sent' = sent /\ fresh' = fresh /\ parking' = parking /\ cur' = cur /\ live' = live
      /\ pc' = pc /\ wire' = wire /\ stale' = stale /\ inbox' = inbox
  BY DEF Expire, client, store
<1>2. retry'[d] = retry[d] - 1 /\ \A c \in Copies : c # d => retry'[c] = retry[c]
  BY <1>a, <1>1, RemoveFacts DEF Domains
<1>3. work'[d] = work[d] + 1 /\ \A c \in Copies : c # d => work'[c] = work[c]
  BY <1>a, <1>1, AddFacts DEF Domains
<1>4. /\ At("retry", d) > 0 /\ At("retry", d)' = At("retry", d) - 1
      /\ At("work", d)' = At("work", d) + 1
  BY <1>1, <1>2, <1>3, AtIs
<1>5. ASSUME NEW u \in Slots, NEW c \in Copies, u # "retry" \/ c # d, u # "work" \/ c # d
      PROVE  At(u, c)' = At(u, c)
  BY <1>1, <1>2, <1>3, <1>5, AtIs DEF Slots
<1>6. NoRemains'
  BY <1>1 DEF Clean, NoRemains
<1>7. "work" \in Slots /\ "retry" \in Slots
  BY DEF Slots
<1>. QED
  BY <1>a, <1>1, <1>4, <1>5, <1>6, <1>7, MoveClean

LEMMA ProcessRetryClean ==
  ASSUME IInv, Clean, NEW d \in Copies, ProcessRetry(d)
  PROVE  Clean'
<1>. DEFINE e == <<d[1], d[2] + 1>>
<1>a. Domains /\ WireInv
  BY DEF IInv
<1>1. /\ wire["retry"][d] > 0 /\ wire' = Move(d, "retry", "ack") /\ retry' = Add(retry, e)
      /\ sent' = sent /\ work' = work /\ fresh' = fresh /\ parking' = parking /\ cur' = cur
      /\ live' = live /\ pc' = pc /\ stale' = stale /\ inbox' = inbox
  BY DEF ProcessRetry, RouteRetry, store
<1>2. e \in Copies /\ e[1] = d[1]
  BY <1>a, <1>1, DeliveryConstantsOK DEF WireInv, MayRetry, Copies, Hops
<1>. HIDE DEF e
<1>3. /\ wire'["retry"] = Remove(wire["retry"], d)
      /\ wire'["park"] = wire["park"] /\ wire'["nack"] = wire["nack"]
  BY <1>a, <1>1, WireMove DEF Domains, Settlements
<1>4. /\ wire'["retry"][d] = wire["retry"][d] - 1
      /\ \A c \in Copies : c # d => wire'["retry"][c] = wire["retry"][c]
  <2>1. wire["retry"] \in [Copies -> Nat]
    BY <1>a DEF Domains, Settlements
  <2>. QED
    BY <2>1, <1>1, <1>3, RemoveFacts
<1>5. retry'[e] = retry[e] + 1 /\ \A c \in Copies : c # e => retry'[c] = retry[c]
  BY <1>a, <1>1, <1>2, AddFacts DEF Domains
<1>6. /\ At("wretry", d) > 0 /\ At("wretry", d)' = At("wretry", d) - 1
      /\ At("retry", e)' = At("retry", e) + 1
  BY <1>1, <1>2, <1>4, <1>5, AtIs
<1>7. ASSUME NEW u \in Slots, NEW c \in Copies, u # "wretry" \/ c # d, u # "retry" \/ c # e
      PROVE  At(u, c)' = At(u, c)
  BY <1>1, <1>3, <1>4, <1>5, <1>7, AtIs DEF Slots
<1>8. NoRemains'
  BY <1>1, <1>3 DEF Clean, NoRemains
<1>9. "wretry" \in Slots /\ "retry" \in Slots
  BY DEF Slots
<1>. QED
  BY <1>a, <1>1, <1>2, <1>6, <1>7, <1>8, <1>9, MoveClean

LEMMA ProcessParkClean ==
  ASSUME IInv, Clean, NEW d \in Copies, ProcessPark(d)
  PROVE  Clean'
<1>a. Domains /\ CopyInv
  BY DEF IInv
<1>1. /\ wire["park"][d] > 0 /\ wire' = Move(d, "park", "ack")
      /\ parking' = [parking EXCEPT ![d[1]] = @ + 1]
      /\ sent' = sent /\ work' = work /\ retry' = retry /\ fresh' = fresh /\ cur' = cur
      /\ live' = live /\ pc' = pc /\ stale' = stale /\ inbox' = inbox
  BY DEF ProcessPark, RoutePark, store
<1>2. /\ wire'["park"] = Remove(wire["park"], d)
      /\ wire'["retry"] = wire["retry"] /\ wire'["nack"] = wire["nack"]
  BY <1>a, <1>1, WireMove DEF Domains, Settlements
<1>3. /\ wire'["park"][d] = wire["park"][d] - 1
      /\ \A c \in Copies : c # d => wire'["park"][c] = wire["park"][c]
  <2>1. wire["park"] \in [Copies -> Nat]
    BY <1>a DEF Domains, Settlements
  <2>. QED
    BY <2>1, <1>1, <1>2, RemoveFacts
<1>4. At("wpark", d) > 0 /\ At("wpark", d)' = At("wpark", d) - 1
  BY <1>1, <1>3, AtIs
<1>5. ASSUME NEW u \in Slots, NEW c \in Copies, u # "wpark" \/ c # d
      PROVE  At(u, c)' = At(u, c)
  BY <1>1, <1>2, <1>3, <1>5, AtIs DEF Slots
<1>6. NoRemains'
  BY <1>1, <1>2 DEF Clean, NoRemains
<1>7. "wpark" \in Slots
  BY DEF Slots
<1>8. d[1] \in Msgs /\ d[1] \in sent /\ d[1] \notin inbox /\ parking[d[1]] = 0
  <2>1. d[1] \in sent
    BY <1>a, <1>1 DEF CopyInv, Present, Settlements
  <2>. QED
    BY <2>1, <1>4, <1>7, Unsettled DEF Clean, Copies
<1>9. /\ parking'[d[1]] = 1
      /\ \A m \in Msgs : m # d[1] => parking'[m] = parking[m]
  BY <1>a, <1>1, <1>8 DEF Domains
<1>10. EndsOnce'
  <2>. SUFFICES ASSUME NEW m \in Msgs
                PROVE  /\ parking'[m] <= 1
                       /\ parking'[m] > 0 => m \notin inbox'
                       /\ parking'[m] > 0 \/ m \in inbox' => m \in sent'
    BY DEF EndsOnce
  <2>1. CASE m = d[1]
    BY <2>1, <1>1, <1>8, <1>9
  <2>2. CASE m # d[1]
    BY <2>2, <1>1, <1>9 DEF Clean, EndsOnce
  <2>. QED
    BY <2>1, <2>2
<1>. QED
  BY <1>a, <1>1, <1>4, <1>5, <1>6, <1>7, <1>9, <1>10, EndClean

LEMMA ProcessAckClean ==
  ASSUME IInv, Clean, NEW d \in Copies, ProcessAck(d)
  PROVE  Clean'
<1>a. Domains
  BY DEF IInv
<1>1. /\ wire["ack"][d] > 0 /\ wire' = [wire EXCEPT !["ack"] = Remove(@, d)]
      /\ sent' = sent /\ work' = work /\ retry' = retry /\ parking' = parking /\ fresh' = fresh
      /\ cur' = cur /\ live' = live /\ pc' = pc /\ stale' = stale /\ inbox' = inbox
  BY DEF ProcessAck, queues, store
<1>2. /\ wire'["retry"] = wire["retry"] /\ wire'["park"] = wire["park"]
      /\ wire'["nack"] = wire["nack"]
  BY <1>a, <1>1, WireRemove DEF Domains, Settlements
<1>3. ASSUME NEW u \in Slots, NEW c \in Copies
      PROVE  At(u, c)' = At(u, c)
  BY <1>1, <1>2, AtIs DEF Slots
<1>4. NoRemains' /\ EndsOnce'
  BY <1>1, <1>2 DEF Clean, NoRemains, EndsOnce
<1>5. \A u \in Slots, c \in Copies :
        At(u, c) > 0 /\ c[1] \in inbox' => u = "cur" /\ pc' = "ack"
  BY <1>1 DEF Clean, Pending
<1>. QED
  BY <1>a, <1>1, <1>3, <1>4, <1>5, StayClean

(* The handler's steps.                                                    *)
LEMMA TakeFreshClean ==
  ASSUME IInv, Clean, NEW d \in Copies, TakeFresh(d)
  PROVE  Clean'
<1>a. Domains /\ HandlerInv
  BY DEF IInv
<1>1. /\ pc = "idle" /\ fresh[d] > 0 /\ fresh' = Remove(fresh, d) /\ cur' = d /\ live' = TRUE
      /\ sent' = sent /\ work' = work /\ retry' = retry /\ parking' = parking
      /\ wire' = wire /\ stale' = stale /\ inbox' = inbox
  BY DEF TakeFresh, queues, store
<1>2. cur = None /\ \A c \in Copies : cur # c
  BY <1>a, <1>1, DeliveryConstantsOK DEF HandlerInv
<1>3. fresh'[d] = fresh[d] - 1 /\ \A c \in Copies : c # d => fresh'[c] = fresh[c]
  BY <1>a, <1>1, RemoveFacts DEF Domains
<1>4. /\ At("fresh", d) > 0 /\ At("fresh", d)' = At("fresh", d) - 1
      /\ At("cur", d)' = At("cur", d) + 1
  BY <1>1, <1>2, <1>3, AtIs
<1>5. ASSUME NEW u \in Slots, NEW c \in Copies, u # "fresh" \/ c # d, u # "cur" \/ c # d
      PROVE  At(u, c)' = At(u, c)
  BY <1>1, <1>2, <1>3, <1>5, AtIs DEF Slots
<1>6. NoRemains'
  BY <1>1 DEF Clean, NoRemains
<1>7. "fresh" \in Slots /\ "cur" \in Slots
  BY DEF Slots
<1>. QED
  BY <1>a, <1>1, <1>4, <1>5, <1>6, <1>7, MoveClean

LEMMA CurSlot ==
  ASSUME IInv, pc # "idle"
  PROVE  cur \in Copies /\ "cur" \in Slots /\ At("cur", cur) > 0
<1>1. cur \in Copies
  BY DEF IInv, Domains, HandlerInv
<1>. QED
  BY <1>1, AtIs DEF Slots

(* The handler decides what to do with the copy it has.                    *)
LEMMA DecideClean ==
  ASSUME IInv, Clean, RejectInvalid \/ IgnoreType \/ Apply \/ ApplyFails
  PROVE  Clean'
<1>a. Domains /\ CopyInv
  BY DEF IInv
<1>1. /\ pc = "process"
      /\ sent' = sent /\ work' = work /\ retry' = retry /\ parking' = parking /\ fresh' = fresh
      /\ cur' = cur /\ live' = live /\ wire' = wire /\ stale' = stale
  BY DEF RejectInvalid, IgnoreType, Apply, ApplyFails, Goto, queues
<1>2. cur \in Copies /\ "cur" \in Slots /\ At("cur", cur) > 0
  BY <1>1, CurSlot
<1>3. /\ cur[1] \in Msgs /\ cur[1] \in sent /\ cur[1] \notin inbox /\ parking[cur[1]] = 0
  BY <1>a, <1>1, <1>2, Unsettled DEF Clean, Copies, CopyInv, Present
<1>4. inbox' = inbox \/ (inbox' = inbox \cup {cur[1]} /\ pc' = "ack")
  BY DEF RejectInvalid, IgnoreType, Apply, ApplyFails, Goto, store
<1>5. ASSUME NEW u \in Slots, NEW c \in Copies
      PROVE  At(u, c)' = At(u, c)
  BY <1>1, AtIs DEF Slots
<1>6. NoRemains'
  BY <1>1 DEF Clean, NoRemains
<1>7. EndsOnce'
  <2>. SUFFICES ASSUME NEW m \in Msgs
                PROVE  /\ parking'[m] <= 1
                       /\ parking'[m] > 0 => m \notin inbox'
                       /\ parking'[m] > 0 \/ m \in inbox' => m \in sent'
    BY DEF EndsOnce
  <2>1. CASE m = cur[1]
    BY <2>1, <1>1, <1>3
  <2>2. CASE m # cur[1]
    BY <2>2, <1>1, <1>4 DEF Clean, EndsOnce
  <2>. QED
    BY <2>1, <2>2
<1>8. ASSUME NEW u \in Slots, NEW c \in Copies, At(u, c) > 0, c[1] \in inbox'
      PROVE  u = "cur" /\ pc' = "ack"
  <2>1. c[1] \notin inbox
    BY <1>1, <1>8 DEF Clean, Pending
  <2>2. c[1] = cur[1] /\ pc' = "ack"
    BY <2>1, <1>4, <1>8
  <2>3. u = "cur"
    BY <2>2, <1>2, <1>8 DEF Clean, Single
  <2>. QED
    BY <2>2, <2>3
<1>. QED
  BY <1>a, <1>1, <1>5, <1>6, <1>7, <1>8, StayClean

LEMMA RepublishClean ==
  ASSUME IInv, Clean, Republish
  PROVE  Clean'
<1>a. Domains
  BY DEF IInv
<1>1. /\ pc \in {"retry", "park"} /\ wire' = [wire EXCEPT ![pc] = Add(@, cur)]
      /\ cur' = None
      /\ sent' = sent /\ work' = work /\ retry' = retry /\ parking' = parking /\ fresh' = fresh
      /\ stale' = stale /\ inbox' = inbox
  BY DEF Republish, Settle, queues, store
<1>2. PICK d \in Copies : d = cur
  BY <1>1, CurSlot
<1>3. PICK k \in {"retry", "park"} : k = pc
  BY <1>1
<1>4. /\ wire'[k] = Add(wire[k], d) /\ wire[k] \in [Copies -> Nat]
      /\ \A j \in Settlements : j # k => wire'[j] = wire[j]
  BY <1>a, <1>1, <1>2, <1>3, WireAdd DEF Domains, Settlements
<1>5. /\ wire'[k][d] = wire[k][d] + 1
      /\ \A c \in Copies : c # d => wire'[k][c] = wire[k][c]
  BY <1>4, AddFacts
<1>6. wire'["nack"] = wire["nack"]
  BY <1>4 DEF Settlements
<1>7. PICK t \in {"wretry", "wpark"} : t = IF k = "retry" THEN "wretry" ELSE "wpark"
  OBVIOUS
<1>8. \A c \in Copies : cur' # c
  BY <1>1, DeliveryConstantsOK
<1>9. At("cur", d) > 0 /\ At("cur", d)' = At("cur", d) - 1
  BY <1>2, <1>8, AtIs
<1>10. At(t, d)' = At(t, d) + 1
  BY <1>3, <1>5, <1>7, AtIs
<1>11. ASSUME NEW u \in Slots, NEW c \in Copies, u # "cur" \/ c # d, u # t \/ c # d
       PROVE  At(u, c)' = At(u, c)
  <2>1. CASE u = "cur"
    BY <2>1, <1>2, <1>8, <1>11, AtIs
  <2>2. CASE u \in {"wretry", "wpark"}
    BY <2>2, <1>4, <1>5, <1>7, <1>11, AtIs DEF Settlements
  <2>3. CASE u \in {"work", "retry", "fresh"}
    BY <2>3, <1>1, AtIs
  <2>. QED
    BY <2>1, <2>2, <2>3 DEF Slots
<1>12. NoRemains'
  BY <1>1, <1>6 DEF Clean, NoRemains
<1>13. "cur" \in Slots /\ t \in Slots /\ t # "cur" /\ pc # "ack"
  BY <1>1, <1>7 DEF Slots
<1>. QED
  BY <1>a, <1>1, <1>9, <1>10, <1>11, <1>12, <1>13, MoveClean

LEMMA AckClean ==
  ASSUME IInv, Clean, Ack
  PROVE  Clean'
<1>a. Domains
  BY DEF IInv
<1>1. /\ pc = "ack" /\ wire' = [wire EXCEPT !["ack"] = Add(@, cur)]
      /\ cur' = None
      /\ sent' = sent /\ work' = work /\ retry' = retry /\ parking' = parking /\ fresh' = fresh
      /\ stale' = stale /\ inbox' = inbox
  BY DEF Ack, Settle, queues, store
<1>2. PICK d \in Copies : d = cur
  BY <1>1, CurSlot
<1>3. /\ wire'["retry"] = wire["retry"] /\ wire'["park"] = wire["park"]
      /\ wire'["nack"] = wire["nack"]
  BY <1>a, <1>1, <1>2, WireAdd DEF Domains, Settlements
<1>4. \A c \in Copies : cur' # c
  BY <1>1, DeliveryConstantsOK
<1>5. At("cur", d) > 0 /\ At("cur", d)' = At("cur", d) - 1
  BY <1>2, <1>4, AtIs
<1>6. ASSUME NEW u \in Slots, NEW c \in Copies, u # "cur" \/ c # d
      PROVE  At(u, c)' = At(u, c)
  BY <1>1, <1>2, <1>3, <1>4, <1>6, AtIs DEF Slots
<1>7. NoRemains' /\ EndsOnce'
  BY <1>1, <1>3 DEF Clean, NoRemains, EndsOnce
<1>8. "cur" \in Slots
  BY DEF Slots
<1>. QED
  BY <1>a, <1>1, <1>5, <1>6, <1>7, <1>8, EndClean

-----------------------------------------------------------------------------
LEMMA CleanStep ==
  ASSUME IInv, CleanInv, [Next]_vars
  PROVE  CleanInv'
<1>. SUFFICES ASSUME faults' = 0
              PROVE  Clean'
  BY DEF CleanInv
<1>a. Domains /\ HandlerInv
  BY DEF IInv
<1>b. faults \in Nat
  BY <1>a, DeliveryConstantsOK DEF Domains
(* The steps of a fault are out of question ...                            *)
<1>1. ~ Fault
  BY <1>b DEF Fault
<1>2. ~ RepublishFails /\ ~ ConnLost /\ ~ Crash
  BY <1>1 DEF RepublishFails, ConnLost, Crash
<1>3. faults = 0
  BY <1>1, <1>2 DEF Next, Broker, Handler, Send, Deliver, Expire, ProcessRetry, ProcessPark,
       ProcessAck, ProcessNack, TakeFresh, TakeStale, DropStale, RejectInvalid, IgnoreType,
       Apply, ApplyFails, Goto, Republish, Ack, SettleStale, Reconnect, Start, vars
<1>4. Clean
  BY <1>3 DEF CleanInv
(* ... and so is what only a fault leaves behind.                          *)
<1>5. ASSUME NEW d \in Copies, ProcessNack(d) \/ TakeStale(d) \/ DropStale(d)
      PROVE  FALSE
  BY <1>4, <1>5 DEF ProcessNack, TakeStale, DropStale, Clean, NoRemains
<1>6. ~ SettleStale
  BY <1>a, <1>4 DEF SettleStale, HandlerInv, Clean, NoRemains
<1>7. CASE Reconnect \/ Start \/ UNCHANGED vars
  <2>1. /\ sent' = sent /\ work' = work /\ retry' = retry /\ parking' = parking /\ fresh' = fresh
        /\ cur' = cur /\ live' = live /\ pc' = pc /\ wire' = wire /\ stale' = stale
        /\ inbox' = inbox
    BY <1>7 DEF Reconnect, Start, vars, queues, client, store
  <2>2. ASSUME NEW u \in Slots, NEW c \in Copies
        PROVE  At(u, c)' = At(u, c)
    BY <2>1, AtIs DEF Slots
  <2>3. NoRemains' /\ EndsOnce'
    BY <2>1, <1>4 DEF Clean, NoRemains, EndsOnce
  <2>4. \A u \in Slots, c \in Copies :
          At(u, c) > 0 /\ c[1] \in inbox' => u = "cur" /\ pc' = "ack"
    BY <2>1, <1>4 DEF Clean, Pending
  <2>. QED
    BY <1>a, <1>4, <2>1, <2>2, <2>3, <2>4, StayClean
<1>8. ASSUME NEW m \in Msgs, Send(m) PROVE Clean'
  BY <1>4, <1>8, SendClean
<1>9. CASE Broker
  BY <1>4, <1>5, <1>9, DeliverClean, ExpireClean, ProcessRetryClean, ProcessParkClean,
     ProcessAckClean DEF Broker
<1>10. CASE Handler
  BY <1>4, <1>5, <1>6, <1>10, TakeFreshClean, DecideClean, RepublishClean, AckClean DEF Handler
<1>. QED
  BY <1>2, <1>7, <1>8, <1>9, <1>10 DEF Next

LEMMA InitClean == Init => CleanInv
<1>. SUFFICES ASSUME Init PROVE Clean
  BY DEF CleanInv
<1>1. ASSUME NEW t \in Slots, NEW d \in Copies PROVE At(t, d) = 0
  BY AtIs, DeliveryConstantsOK DEF Init, Slots, NoCopies, Settlements
<1>2. Single /\ Pending
  BY <1>1 DEF Single, Pending
<1>3. EndsOnce /\ NoRemains
  BY DEF Init, EndsOnce, NoRemains, NoCopies, Settlements
<1>. QED
  BY <1>2, <1>3 DEF Clean

(* As long as there is no fault a message is in one copy at most.          *)
THEOREM FaultFreeInvariant == Spec => []CleanInv
<1>1. IInv /\ CleanInv /\ [Next]_vars => CleanInv'
  BY CleanStep
<1>. QED
  BY <1>1, InitClean, Invariance, PTL DEF Spec

(* Without a fault the retry path (retryOrPark, park and the DLX) parks a  *)
(* message once, never one that was applied, and leaves no copy of it to   *)
(* process.                                                                *)
THEOREM RetryPathNeverDuplicates == Spec => []NoFaultNoDuplicate
<1>1. IInv /\ CleanInv => NoFaultNoDuplicate
  <2>. SUFFICES ASSUME IInv, CleanInv, faults = 0, NEW m \in Parked
                PROVE  parking[m] = 1 /\ m \notin inbox /\ \A h \in Hops : ~ Kept(<<m, h>>)
    BY DEF NoFaultNoDuplicate
  <2>1. Clean /\ Domains
    BY DEF CleanInv, IInv
  <2>2. m \in Msgs /\ parking[m] > 0 /\ parking[m] \in Nat
    BY <2>1 DEF Parked, Domains
  <2>3. parking[m] = 1 /\ m \notin inbox
    BY <2>1, <2>2 DEF Clean, EndsOnce
  <2>4. ASSUME NEW h \in Hops, Kept(<<m, h>>) PROVE FALSE
    <3>. DEFINE d == <<m, h>>
    <3>1. d \in Copies /\ d[1] = m
      BY <2>2 DEF Copies
    <3>2. wire["nack"][d] = 0
      BY <2>1, <3>1 DEF Clean, NoRemains
    <3>. HIDE DEF d
    <3>3. \E t \in Slots : At(t, d) > 0
      <4>1. \/ work[d] > 0 \/ retry[d] > 0 \/ fresh[d] > 0 \/ cur = d
            \/ wire["retry"][d] > 0 \/ wire["park"][d] > 0
        BY <2>4, <3>2 DEF Kept, Settlements, d
      <4>. QED
        BY <3>1, <4>1, AtIs DEF Slots
    <3>. QED
      BY <2>1, <2>2, <3>1, <3>3 DEF Clean, Pending
  <2>. QED
    BY <2>3, <2>4
<1>. QED
  BY <1>1, FaultFreeInvariant, Invariance, PTL
=============================================================================
