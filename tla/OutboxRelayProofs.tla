------------------------- MODULE OutboxRelayProofs -------------------------
(***************************************************************************)
(* The safety of the outbox relay, for every set of rows, batch limit,     *)
(* backoff ceiling and number of faults.  The inductive invariant IInv     *)
(* ties what the relay holds in memory (its batch, its outstanding         *)
(* publish) to the table and to the broker.                                *)
(***************************************************************************)
EXTENDS OutboxRelay, FiniteSetTheorems, TLAPS

(* What the relay holds agrees with the table: the batch is made of rows   *)
(* still pending, and a publish is outstanding only inside                 *)
(* PublishConfirmed, for a valid row.                                      *)
BatchInv ==
  /\ pc = "wait" => batch = {}
  /\ conf # "none" <=> pc = "confirm"
  /\ pc \in {"confirm", "mark"} => batch # {} /\ Cur \in Valid
  /\ batch \subseteq Pending
  /\ mode \in {"down", "stopping"} => pc = "wait"

(* A row about to be marked sent is one the broker holds.                  *)
AckInv ==
  /\ SentOnlyAfterAck
  /\ pc = "mark" \/ conf = "acked" => accepted[Cur] > 0

Waiting(r) == IF conf = "waiting" /\ r = Cur THEN 1 ELSE 0

(* The copy a row is entitled to without any fault.                        *)
Allowed(r) ==
  IF \/ status[r] = "sent"
     \/ pc \in {"confirm", "mark"} /\ r = Cur /\ conf # "failed"
  THEN 1 ELSE 0

(* The copies the broker has, may still get, or is about to get, counted   *)
(* against the faults that happened.                                       *)
CopyInv ==
  \A r \in Rows : accepted[r] + orphans[r] + Waiting(r) <= faults + Allowed(r)

(* Everything pending that is neither in the batch nor newly inserted is   *)
(* newer than the whole batch.                                             *)
OrderInv ==
  \A r \in Pending \ (batch \cup late) : \A b \in batch : b < r

(* Nothing of a row that was never inserted is on its way to the broker.   *)
FreshInv ==
  \A r \in Rows : status[r] = "absent" => orphans[r] = 0

IInv ==
  /\ TypeOK /\ BatchInv /\ AckInv /\ QuarantineExact
  /\ CopyInv /\ OrderInv /\ FreshInv
----------------------------------------------------------------------------
(* Every non-empty set of naturals has a least element.                    *)
LEMMA LeastNatural ==
  ASSUME NEW T, T \subseteq Nat, T # {}
  PROVE  \E x \in T : \A y \in T : x <= y
<1>. DEFINE R == {ss \in Nat \X Nat : ss[1] < ss[2]}
<1>1. IsWellFoundedOn(R, Nat)
  BY NatLessThanWellFounded, Zenon DEF OpToRel
<1>. HIDE DEF R
<1>2. PICK x \in T : \A y \in T : ~ (<<y, x>> \in R)
  BY <1>1, WFMin, Zenon
<1>3. ASSUME NEW y \in T, y < x
      PROVE  FALSE
  <2>1. <<y, x>> \in Nat \X Nat /\ <<y, x>>[1] < <<y, x>>[2]
    BY <1>3
  <2>2. <<y, x>> \in R
    BY <2>1, Zenon DEF R
  <2>. QED
    BY <1>2, <2>2
<1>. QED
  BY <1>3

(* The batch is handled from its least row.                                *)
LEMMA CurLeast ==
  ASSUME batch \subseteq Rows, batch # {}
  PROVE  Cur \in batch /\ \A s \in batch : Cur <= s
<1>1. batch \subseteq Nat
  BY ConstantsOK
<1>2. \E x \in batch : \A y \in batch : x <= y
  BY <1>1, LeastNatural
<1>. QED
  BY <1>2 DEF Cur

(* A fetched batch is pending, and whatever it leaves behind is newer.     *)
LEMMA FetchOldest ==
  ASSUME status \in [Rows -> Statuses]
  PROVE  /\ FetchPending \subseteq Pending
         /\ \A r \in Pending \ FetchPending : \A b \in FetchPending : b < r
<1>1. FetchPending \subseteq Pending
  BY DEF FetchPending
<1>2. ASSUME NEW r \in Pending \ FetchPending, NEW b \in FetchPending, ~ (b < r)
      PROVE  FALSE
  <2>. DEFINE Older(x) == {s \in Pending : s < x}
  <2>1. r \in Nat /\ b \in Nat /\ Pending \subseteq Nat /\ IsFiniteSet(Pending)
    BY <1>1, <1>2, ConstantsOK, FS_Subset DEF Pending
  <2>2. Older(r) \subseteq Older(b)
    <3>1. ASSUME NEW s \in Pending, s < r
          PROVE  s < b
      BY <1>2, <2>1, <3>1
    <3>. QED
      BY <3>1
  <2>3. /\ Older(b) \subseteq Pending
        /\ IsFiniteSet(Older(b)) /\ IsFiniteSet(Older(r))
    BY <2>1, FS_Subset
  <2>4. /\ Cardinality(Older(r)) <= Cardinality(Older(b))
        /\ Cardinality(Older(r)) \in Nat /\ Cardinality(Older(b)) \in Nat
    BY <2>2, <2>3, FS_Subset, FS_CardinalityType
  <2>5. Cardinality(Older(b)) < Batch
    BY <1>2 DEF FetchPending
  <2>6. ~ (Cardinality(Older(r)) < Batch)
    BY <1>2 DEF FetchPending
  <2>. HIDE DEF Older
  <2>. QED
    BY <2>4, <2>5, <2>6, ConstantsOK
<1>. QED
  BY <1>1, <1>2

----------------------------------------------------------------------------
(* Doubling keeps the backoff between the interval and the ceiling.        *)
LEMMA BackoffBounds ==
  ASSUME backoff \in Nat
  PROVE  /\ NextBackoff \in Nat
         /\ NextBackoff >= Interval
         /\ NextBackoff <= MaxBackoff \/ NextBackoff = Interval
BY ConstantsOK DEF NextBackoff

(* Returning from a drain keeps every variable it touches in its domain.   *)
LEMMA EndDrainType ==
  ASSUME TypeOK, NEW ok \in BOOLEAN, EndDrain(ok)
  PROVE  /\ pc' = "wait" /\ batch' = {} /\ conf' = "none"
         /\ mode' \in {"run", "stopping", "flush", "down"}
         /\ conn' \in BOOLEAN /\ kick' \in BOOLEAN
         /\ backoff' \in Nat /\ backoff' >= Interval
         /\ backoff' <= MaxBackoff \/ backoff' = Interval
<1>1. backoff' \in {Interval, NextBackoff}
  BY DEF EndDrain
<1>2. /\ backoff' \in Nat /\ backoff' >= Interval
      /\ backoff' <= MaxBackoff \/ backoff' = Interval
  BY <1>1, BackoffBounds, ConstantsOK DEF TypeOK
<1>3. pc' = "wait" /\ batch' = {} /\ conf' = "none"
  BY DEF EndDrain
<1>4. CASE mode = "flush"
  BY <1>2, <1>3, <1>4 DEF EndDrain
<1>5. CASE mode # "flush"
  BY <1>2, <1>3, <1>5 DEF EndDrain, TypeOK
<1>. QED
  BY <1>4, <1>5

(* A fault leaves the count within its bound.                              *)
LEMMA FaultType ==
  ASSUME TypeOK, Fault
  PROVE  faults' \in 0..MaxFaults /\ faults' = faults + 1
BY ConstantsOK DEF TypeOK, Fault

(* An outstanding publish left behind by a dead connection is one more     *)
(* orphan.                                                                 *)
LEMMA OrphanType ==
  ASSUME TypeOK, BatchInv, OrphanOutstanding
  PROVE  orphans' \in [Rows -> Nat]
<1>1. CASE conf = "waiting"
  <2>1. Cur \in Rows
    BY <1>1, CurLeast DEF TypeOK, BatchInv
  <2>. QED
    BY <1>1, <2>1 DEF TypeOK, OrphanOutstanding
<1>2. CASE conf # "waiting"
  BY <1>2 DEF TypeOK, OrphanOutstanding
<1>. QED
  BY <1>1, <1>2

----------------------------------------------------------------------------
(* Init establishes the invariant.                                         *)
LEMMA InitInv == Init => IInv
<1>. SUFFICES ASSUME Init PROVE IInv
  OBVIOUS
<1>1. TypeOK
  <2>1. /\ status \in [Rows -> Statuses]
        /\ orphans \in [Rows -> Nat] /\ accepted \in [Rows -> Nat]
    BY DEF Init, Statuses
  <2>2. backoff \in Nat /\ backoff >= Interval /\ faults \in 0..MaxFaults
    BY ConstantsOK DEF Init
  <2>. QED
    BY <2>1, <2>2 DEF Init, TypeOK
<1>2. BatchInv /\ OrderInv /\ FreshInv
  BY DEF Init, BatchInv, OrderInv, FreshInv
<1>3. AckInv /\ QuarantineExact
  BY DEF Init, AckInv, SentOnlyAfterAck, QuarantineExact
<1>4. CopyInv
  BY DEF Init, CopyInv, Waiting, Allowed
<1>. QED
  BY <1>1, <1>2, <1>3, <1>4 DEF IInv

(* Every step keeps the type invariant.                                    *)
LEMMA TypeStep == IInv /\ [Next]_vars => TypeOK'
<1>. SUFFICES ASSUME IInv, [Next]_vars PROVE TypeOK'
  OBVIOUS
<1>. USE ConstantsOK DEF IInv
<1>a. batch # {} => Cur \in batch /\ \A s \in batch : Cur <= s
  BY CurLeast DEF TypeOK
<1>1. ASSUME NEW r \in Rows, Enqueue(r) PROVE TypeOK'
  BY <1>1 DEF Enqueue, TypeOK, Statuses
<1>2. ASSUME NEW r \in Rows, AcceptOrphan(r) \/ LoseOrphan(r) PROVE TypeOK'
  <2>1. orphans' \in [Rows -> Nat]
    BY <1>2 DEF AcceptOrphan, LoseOrphan, TypeOK
  <2>2. accepted' \in [Rows -> Nat]
    BY <1>2 DEF AcceptOrphan, LoseOrphan, TypeOK
  <2>. QED
    BY <1>2, <2>1, <2>2 DEF AcceptOrphan, LoseOrphan, TypeOK
<1>3. CASE DrainOnKick \/ DrainOnTimer \/ Flush
  BY <1>3 DEF DrainOnKick, DrainOnTimer, Flush, StartDrain, FetchPending,
     Pending, TypeOK
<1>4. CASE FetchFails
  BY <1>4, BackoffBounds, FaultType DEF FetchFails, TypeOK
<1>5. CASE \/ DrainDone \/ QuarantineFails \/ PublishNoChannel
          \/ PublishFails \/ MarkSentFails
  BY <1>5, EndDrainType, FaultType DEF DrainDone, QuarantineFails,
     PublishNoChannel, PublishFails, MarkSentFails, TypeOK
<1>6. CASE Quarantine \/ MarkSent
  BY <1>6 DEF Quarantine, MarkSent, TypeOK, Statuses
<1>7. CASE PublishSend \/ AckReceived
  BY <1>7 DEF PublishSend, AckReceived, TypeOK
<1>8. CASE BrokerAccept
  <2>1. Cur \in Rows
    BY <1>8, <1>a DEF BrokerAccept, BatchInv, TypeOK
  <2>. QED
    BY <1>8, <2>1 DEF BrokerAccept, TypeOK
<1>9. CASE BrokerNack
  BY <1>9, FaultType DEF BrokerNack, TypeOK
<1>10. CASE ConnLost \/ Shutdown \/ Crash
  BY <1>10, FaultType, OrphanType DEF ConnLost, Shutdown, Crash, TypeOK
<1>11. CASE Reconnect
  BY <1>11 DEF Reconnect, TypeOK
<1>12. CASE Start
  BY <1>12 DEF Start, TypeOK
<1>13. CASE UNCHANGED vars
  BY <1>13 DEF vars, TypeOK
<1>. QED
  BY <1>1, <1>2, <1>3, <1>4, <1>5, <1>6, <1>7, <1>8, <1>9, <1>10, <1>11,
     <1>12, <1>13 DEF Next

(* Every step keeps the batch in agreement with the table.                 *)
LEMMA BatchStep == IInv /\ [Next]_vars => BatchInv'
<1>. SUFFICES ASSUME IInv, [Next]_vars PROVE BatchInv'
  OBVIOUS
<1>. USE ConstantsOK DEF IInv
<1>a. batch # {} => Cur \in batch /\ \A s \in batch : Cur <= s
  BY CurLeast DEF TypeOK
<1>b. batch' = batch => Cur' = Cur
  BY DEF Cur
<1>1. ASSUME NEW r \in Rows, \/ Enqueue(r) \/ AcceptOrphan(r) \/ LoseOrphan(r) PROVE BatchInv'
  BY <1>1, <1>b DEF Enqueue, AcceptOrphan, LoseOrphan, TypeOK, BatchInv,
     Pending
<1>2. CASE DrainOnKick \/ DrainOnTimer \/ Flush
  BY <1>2, FetchOldest DEF DrainOnKick, DrainOnTimer, Flush, StartDrain,
     TypeOK, BatchInv, Pending
<1>3. CASE \/ DrainDone \/ QuarantineFails \/ PublishNoChannel
          \/ PublishFails \/ MarkSentFails
  BY <1>3 DEF DrainDone, QuarantineFails, PublishNoChannel, PublishFails,
     MarkSentFails, EndDrain, Fault, TypeOK, BatchInv, Pending
<1>4. CASE Quarantine \/ MarkSent
  BY <1>4, <1>a DEF Quarantine, MarkSent, TypeOK, BatchInv, Pending
<1>5. CASE PublishSend \/ AckReceived
  BY <1>5, <1>b DEF PublishSend, AckReceived, TypeOK, BatchInv, Pending
<1>6. CASE BrokerAccept \/ BrokerNack \/ ConnLost
  BY <1>6, <1>b DEF BrokerAccept, BrokerNack, ConnLost, TypeOK, BatchInv,
     Pending
<1>7. CASE Shutdown \/ Crash
  BY <1>7 DEF Shutdown, Crash, TypeOK, BatchInv, Pending
<1>8. CASE FetchFails \/ Reconnect \/ Start
  BY <1>8, <1>b DEF FetchFails, Reconnect, Start, TypeOK, BatchInv, Pending
<1>9. CASE UNCHANGED vars
  BY <1>9, <1>b DEF vars, TypeOK, BatchInv, Pending
<1>. QED
  BY <1>1, <1>2, <1>3, <1>4, <1>5, <1>6, <1>7, <1>8, <1>9 DEF Next

(* Every step keeps a sent, or about to be marked, row with the broker.    *)
LEMMA AckStep == IInv /\ [Next]_vars => AckInv'
<1>. SUFFICES ASSUME IInv, [Next]_vars PROVE AckInv'
  OBVIOUS
<1>. USE ConstantsOK DEF IInv
<1>a. batch # {} => Cur \in batch /\ \A s \in batch : Cur <= s
  BY CurLeast DEF TypeOK
<1>b. batch' = batch => Cur' = Cur
  BY DEF Cur
<1>1. ASSUME NEW r \in Rows, Enqueue(r) PROVE AckInv'
  BY <1>1, <1>b DEF Enqueue, TypeOK, BatchInv, AckInv, SentOnlyAfterAck
<1>2. ASSUME NEW r \in Rows, AcceptOrphan(r) \/ LoseOrphan(r) PROVE AckInv'
  <2>1. \A s \in Rows : accepted'[s] >= accepted[s]
    BY <1>2 DEF AcceptOrphan, LoseOrphan, TypeOK
  <2>2. (pc = "mark" \/ conf = "acked") => Cur \in Rows
    BY <1>a DEF BatchInv, TypeOK
  <2>3. /\ status' = status /\ pc' = pc /\ conf' = conf /\ Cur' = Cur
        /\ accepted \in [Rows -> Nat] /\ accepted' \in [Rows -> Nat]
    BY <1>2, <1>b DEF AcceptOrphan, LoseOrphan, TypeOK
  <2>4. SentOnlyAfterAck'
    BY <2>1, <2>3 DEF AckInv, SentOnlyAfterAck
  <2>5. (pc = "mark" \/ conf = "acked") => accepted'[Cur] > 0
    <3>1. SUFFICES ASSUME pc = "mark" \/ conf = "acked"
                   PROVE  accepted'[Cur] > 0
      OBVIOUS
    <3>2. accepted[Cur] > 0
      BY <3>1 DEF AckInv
    <3>3. accepted[Cur] \in Nat /\ accepted'[Cur] \in Nat
      BY <3>1, <2>2, <2>3
    <3>4. accepted'[Cur] >= accepted[Cur]
      BY <3>1, <2>1, <2>2, Zenon
    <3>. QED
      BY <3>2, <3>3, <3>4
  <2>. QED
    BY <2>3, <2>4, <2>5 DEF AckInv
<1>3. CASE DrainOnKick \/ DrainOnTimer \/ Flush
  BY <1>3 DEF DrainOnKick, DrainOnTimer, Flush, StartDrain, TypeOK, BatchInv,
     AckInv, SentOnlyAfterAck
<1>4. CASE \/ DrainDone \/ QuarantineFails \/ PublishNoChannel
          \/ PublishFails \/ MarkSentFails
  BY <1>4 DEF DrainDone, QuarantineFails, PublishNoChannel, PublishFails,
     MarkSentFails, EndDrain, Fault, TypeOK, BatchInv, AckInv,
     SentOnlyAfterAck
<1>5. CASE Quarantine
  BY <1>5, <1>a DEF Quarantine, TypeOK, BatchInv, AckInv, SentOnlyAfterAck
<1>6. CASE MarkSent
  BY <1>6, <1>a DEF MarkSent, TypeOK, BatchInv, AckInv, SentOnlyAfterAck
<1>7. CASE PublishSend \/ AckReceived \/ BrokerNack
  BY <1>7, <1>b DEF PublishSend, AckReceived, BrokerNack, TypeOK, BatchInv,
     AckInv, SentOnlyAfterAck
<1>8. CASE BrokerAccept
  <2>1. Cur \in Rows /\ Cur' = Cur
    BY <1>8, <1>a, <1>b DEF BrokerAccept, BatchInv, TypeOK
  <2>2. accepted'[Cur] > 0 /\ \A r \in Rows : accepted'[r] >= accepted[r]
    BY <1>8, <2>1 DEF BrokerAccept, TypeOK
  <2>. QED
    BY <1>8, <2>1, <2>2 DEF BrokerAccept, TypeOK, AckInv, SentOnlyAfterAck
<1>9. CASE ConnLost
  BY <1>9, <1>b DEF ConnLost, TypeOK, BatchInv, AckInv, SentOnlyAfterAck
<1>10. CASE Shutdown \/ Crash
  BY <1>10 DEF Shutdown, Crash, TypeOK, BatchInv, AckInv, SentOnlyAfterAck
<1>11. CASE FetchFails \/ Reconnect \/ Start
  BY <1>11, <1>b DEF FetchFails, Reconnect, Start, TypeOK, BatchInv, AckInv,
     SentOnlyAfterAck
<1>12. CASE UNCHANGED vars
  BY <1>12, <1>b DEF vars, TypeOK, BatchInv, AckInv, SentOnlyAfterAck
<1>. QED
  BY <1>1, <1>2, <1>3, <1>4, <1>5, <1>6, <1>7, <1>8, <1>9, <1>10, <1>11,
     <1>12 DEF Next

(* Every step keeps the quarantine exact.                                 *)
LEMMA QuarantineStep == IInv /\ [Next]_vars => QuarantineExact'
<1>. SUFFICES ASSUME IInv, [Next]_vars PROVE QuarantineExact'
  OBVIOUS
<1>. USE ConstantsOK DEF IInv
<1>a. batch # {} => Cur \in batch /\ \A s \in batch : Cur <= s
  BY CurLeast DEF TypeOK
<1>1. ASSUME NEW r \in Rows, Enqueue(r) PROVE QuarantineExact'
  BY <1>1 DEF Enqueue, TypeOK, BatchInv, QuarantineExact
<1>2. ASSUME NEW r \in Rows, AcceptOrphan(r) \/ LoseOrphan(r) PROVE QuarantineExact'
  BY <1>2 DEF AcceptOrphan, LoseOrphan, TypeOK, BatchInv, QuarantineExact
<1>3. CASE DrainOnKick \/ DrainOnTimer \/ Flush
  BY <1>3 DEF DrainOnKick, DrainOnTimer, Flush, StartDrain, TypeOK, BatchInv,
     QuarantineExact
<1>4. CASE \/ DrainDone \/ QuarantineFails \/ PublishNoChannel
          \/ PublishFails \/ MarkSentFails
  BY <1>4 DEF DrainDone, QuarantineFails, PublishNoChannel, PublishFails,
     MarkSentFails, EndDrain, Fault, TypeOK, BatchInv, QuarantineExact
<1>5. CASE Quarantine \/ MarkSent
  BY <1>5, <1>a DEF Quarantine, MarkSent, TypeOK, BatchInv, QuarantineExact
<1>6. CASE BrokerAccept
  BY <1>6, <1>a DEF BrokerAccept, TypeOK, BatchInv, QuarantineExact
<1>7. CASE ConnLost \/ Shutdown \/ Crash
  BY <1>7, <1>a DEF ConnLost, Shutdown, Crash, OrphanOutstanding, TypeOK,
     BatchInv, QuarantineExact
<1>8. CASE \/ PublishSend \/ AckReceived \/ BrokerNack
          \/ FetchFails \/ Reconnect \/ Start
  BY <1>8 DEF PublishSend, AckReceived, BrokerNack, FetchFails, Reconnect,
     Start, TypeOK, BatchInv, QuarantineExact
<1>9. CASE UNCHANGED vars
  BY <1>9 DEF vars, TypeOK, BatchInv, QuarantineExact
<1>. QED
  BY <1>1, <1>2, <1>3, <1>4, <1>5, <1>6, <1>7, <1>8, <1>9 DEF Next

(* Every step keeps the account of copies balanced.                        *)
LEMMA CopyStep == IInv /\ [Next]_vars => CopyInv'
<1>. SUFFICES ASSUME IInv, [Next]_vars PROVE CopyInv'
  OBVIOUS
<1>. USE ConstantsOK DEF IInv
<1>a. batch # {} => Cur \in batch /\ \A s \in batch : Cur <= s
  BY CurLeast DEF TypeOK
<1>b. batch' = batch => Cur' = Cur
  BY DEF Cur
<1>1. ASSUME NEW r \in Rows, Enqueue(r) PROVE CopyInv'
  BY <1>1, <1>b DEF Enqueue, TypeOK, BatchInv, CopyInv, Waiting, Allowed
<1>2. ASSUME NEW r \in Rows, AcceptOrphan(r) \/ LoseOrphan(r) PROVE CopyInv'
  BY <1>2, <1>b DEF AcceptOrphan, LoseOrphan, TypeOK, BatchInv, CopyInv,
     Waiting, Allowed
<1>3. CASE DrainOnKick \/ DrainOnTimer \/ Flush
  BY <1>3 DEF DrainOnKick, DrainOnTimer, Flush, StartDrain, TypeOK, BatchInv,
     CopyInv, Waiting, Allowed
<1>4. CASE DrainDone \/ PublishNoChannel \/ PublishFails
  BY <1>4 DEF DrainDone, PublishNoChannel, PublishFails, EndDrain, TypeOK,
     BatchInv, CopyInv, Waiting, Allowed
<1>5. CASE QuarantineFails \/ MarkSentFails
  BY <1>5, FaultType DEF QuarantineFails, MarkSentFails, EndDrain, TypeOK,
     BatchInv, CopyInv, Waiting, Allowed
<1>6. CASE Quarantine
  BY <1>6, <1>a DEF Quarantine, TypeOK, BatchInv, CopyInv, Waiting, Allowed,
     Pending
<1>7. CASE MarkSent
  BY <1>7, <1>a DEF MarkSent, TypeOK, BatchInv, CopyInv, Waiting, Allowed,
     Pending
<1>8. CASE PublishSend \/ AckReceived
  <2>1. CASE PublishSend
    BY <2>1, <1>a, <1>b
    DEF PublishSend, TypeOK, BatchInv, CopyInv, Waiting, Allowed, Pending
  <2>2. CASE AckReceived
    BY <2>2, <1>b
    DEF AckReceived, TypeOK, BatchInv, CopyInv, Waiting, Allowed
  <2>. QED
    BY <1>8, <2>1, <2>2
<1>9. CASE BrokerAccept
  BY <1>9, <1>a, <1>b DEF BrokerAccept, TypeOK, BatchInv, CopyInv, Waiting,
     Allowed
<1>10. CASE BrokerNack
  BY <1>10, <1>b, FaultType DEF BrokerNack, TypeOK, BatchInv, CopyInv,
     Waiting, Allowed
<1>11. CASE ConnLost
  BY <1>11, <1>a, <1>b, FaultType DEF ConnLost, OrphanOutstanding, TypeOK,
     BatchInv, CopyInv, Waiting, Allowed
<1>12. CASE Shutdown \/ Crash
  BY <1>12, <1>a, FaultType DEF Shutdown, Crash, OrphanOutstanding, TypeOK,
     BatchInv, CopyInv, Waiting, Allowed
<1>13. CASE FetchFails
  BY <1>13, <1>b, FaultType DEF FetchFails, TypeOK, BatchInv, CopyInv,
     Waiting, Allowed
<1>14. CASE Reconnect \/ Start
  BY <1>14, <1>b DEF Reconnect, Start, TypeOK, BatchInv, CopyInv, Waiting,
     Allowed
<1>15. CASE UNCHANGED vars
  BY <1>15, <1>b DEF vars, TypeOK, BatchInv, CopyInv, Waiting, Allowed
<1>. QED
  BY <1>1, <1>2, <1>3, <1>4, <1>5, <1>6, <1>7, <1>8, <1>9, <1>10, <1>11,
     <1>12, <1>13, <1>14, <1>15 DEF Next

(* Every step keeps what is outside the batch newer than the batch.        *)
LEMMA OrderStep == IInv /\ [Next]_vars => OrderInv'
<1>. SUFFICES ASSUME IInv, [Next]_vars PROVE OrderInv'
  OBVIOUS
<1>. USE ConstantsOK DEF IInv
<1>a. batch # {} => Cur \in batch /\ \A s \in batch : Cur <= s
  BY CurLeast DEF TypeOK
<1>1. ASSUME NEW r \in Rows, Enqueue(r) PROVE OrderInv'
  BY <1>1 DEF Enqueue, TypeOK, BatchInv, OrderInv, Pending
<1>2. ASSUME NEW r \in Rows, AcceptOrphan(r) \/ LoseOrphan(r) PROVE OrderInv'
  BY <1>2 DEF AcceptOrphan, LoseOrphan, TypeOK, BatchInv, OrderInv, Pending
<1>3. CASE DrainOnKick \/ DrainOnTimer \/ Flush
  BY <1>3, FetchOldest DEF DrainOnKick, DrainOnTimer, Flush, StartDrain,
     TypeOK, BatchInv, OrderInv, Pending
<1>4. CASE \/ DrainDone \/ QuarantineFails \/ PublishNoChannel
          \/ PublishFails \/ MarkSentFails
  BY <1>4 DEF DrainDone, QuarantineFails, PublishNoChannel, PublishFails,
     MarkSentFails, EndDrain, Fault, TypeOK, BatchInv, OrderInv, Pending
<1>5. CASE Quarantine \/ MarkSent
  BY <1>5, <1>a DEF Quarantine, MarkSent, TypeOK, BatchInv, OrderInv, Pending
<1>6. CASE \/ PublishSend \/ AckReceived \/ BrokerAccept
          \/ BrokerNack \/ ConnLost
  BY <1>6 DEF PublishSend, AckReceived, BrokerAccept, BrokerNack, ConnLost,
     TypeOK, BatchInv, OrderInv, Pending
<1>7. CASE Shutdown \/ Crash
  BY <1>7 DEF Shutdown, Crash, TypeOK, BatchInv, OrderInv, Pending
<1>8. CASE FetchFails \/ Reconnect \/ Start
  BY <1>8 DEF FetchFails, Reconnect, Start, TypeOK, BatchInv, OrderInv,
     Pending
<1>9. CASE UNCHANGED vars
  BY <1>9 DEF vars, TypeOK, BatchInv, OrderInv, Pending
<1>. QED
  BY <1>1, <1>2, <1>3, <1>4, <1>5, <1>6, <1>7, <1>8, <1>9 DEF Next

(* Every step keeps orphans to inserted rows.                              *)
LEMMA FreshStep == IInv /\ [Next]_vars => FreshInv'
<1>. SUFFICES ASSUME IInv, [Next]_vars PROVE FreshInv'
  OBVIOUS
<1>. USE ConstantsOK DEF IInv
<1>a. batch # {} => Cur \in batch /\ \A s \in batch : Cur <= s
  BY CurLeast DEF TypeOK
<1>1. ASSUME NEW r \in Rows, \/ Enqueue(r) \/ AcceptOrphan(r) \/ LoseOrphan(r) PROVE FreshInv'
  BY <1>1 DEF Enqueue, AcceptOrphan, LoseOrphan, TypeOK, FreshInv
<1>2. CASE DrainOnKick \/ DrainOnTimer \/ Flush
  BY <1>2 DEF DrainOnKick, DrainOnTimer, Flush, StartDrain, TypeOK, FreshInv
<1>3. CASE \/ DrainDone \/ QuarantineFails \/ PublishNoChannel
          \/ PublishFails \/ MarkSentFails
  BY <1>3 DEF DrainDone, QuarantineFails, PublishNoChannel, PublishFails,
     MarkSentFails, TypeOK, FreshInv
<1>4. CASE Quarantine \/ MarkSent
  BY <1>4 DEF Quarantine, MarkSent, TypeOK, FreshInv
<1>5. CASE ConnLost \/ Shutdown \/ Crash
  BY <1>5, <1>a DEF ConnLost, Shutdown, Crash, OrphanOutstanding, BatchInv,
     Pending, TypeOK, FreshInv
<1>6. CASE \/ PublishSend \/ AckReceived \/ BrokerAccept \/ BrokerNack
          \/ FetchFails \/ Reconnect \/ Start
  BY <1>6 DEF PublishSend, AckReceived, BrokerAccept, BrokerNack, FetchFails,
     Reconnect, Start, TypeOK, FreshInv
<1>7. CASE UNCHANGED vars
  BY <1>7 DEF vars, TypeOK, FreshInv
<1>. QED
  BY <1>1, <1>2, <1>3, <1>4, <1>5, <1>6, <1>7 DEF Next

----------------------------------------------------------------------------
(* IInv is an invariant of the relay.                                      *)
THEOREM Invariance == Spec => []IInv
<1>1. IInv /\ [Next]_vars => IInv'
  BY TypeStep, BatchStep, AckStep, QuarantineStep, CopyStep, OrderStep,
     FreshStep DEF IInv
<1>. QED
  BY InitInv, <1>1, PTL DEF Spec

(* Every variable of the relay keeps to its domain, and the backoff stays  *)
(* between the poll interval and the ceiling, under any pattern of faults. *)
THEOREM TypeCorrect == Spec => []TypeOK
<1>1. IInv => TypeOK
  BY DEF IInv
<1>. QED
  BY Invariance, <1>1, PTL

(* No row is ever marked sent that the broker does not hold: DrainOnce     *)
(* marks only after PublishConfirmed returned a positive ack.              *)
THEOREM SentIsHeld == Spec => []SentOnlyAfterAck
<1>1. IInv => SentOnlyAfterAck
  BY DEF IInv, AckInv
<1>. QED
  BY Invariance, <1>1, PTL

(* The relay quarantines exactly the rows the contract refuses, and never  *)
(* publishes one of them.                                                  *)
THEOREM QuarantineIsExact == Spec => []QuarantineExact
<1>1. IInv => QuarantineExact
  BY DEF IInv
<1>. QED
  BY Invariance, <1>1, PTL

(* A row is accepted at most once more than the number of faults.          *)
THEOREM CopiesBounded == Spec => []CopiesNeedFaults
<1>1. IInv => CopiesNeedFaults
  BY ConstantsOK
  DEF IInv, CopyInv, Waiting, Allowed, CopiesNeedFaults, TypeOK
<1>. QED
  BY Invariance, <1>1, PTL

(* The relay publishes in table order, whatever it was interrupted by.     *)
THEOREM PublishesOldestFirst == Spec => []OldestFirst
<1>1. IInv => OldestFirst
  <2>. SUFFICES ASSUME IInv, pc \in {"confirm", "mark"},
                       NEW r \in Pending, r < Cur, r \notin late
                PROVE  FALSE
    BY DEF OldestFirst
  <2>1. Cur \in batch /\ \A s \in batch : Cur <= s
    BY CurLeast DEF IInv, TypeOK, BatchInv
  <2>2. r \in Nat /\ Cur \in Nat
    BY <2>1, ConstantsOK DEF Pending, IInv, TypeOK
  <2>3. r \notin batch
    BY <2>1, <2>2
  <2>. QED
    BY <2>1, <2>2, <2>3 DEF IInv, OrderInv
<1>. QED
  BY Invariance, <1>1, PTL

----------------------------------------------------------------------------
(* Refinement.  A row is produced by its insert, owed while it is pending, *)
(* and published by the broker's acceptance; every other step of the relay *)
(* stutters.                                                               *)
LEMMA RefinesStep ==
  ASSUME IInv, [Next]_vars
  PROVE  [ALOP!Next]_(ALOP!vars)
<1>. USE DEF ALOP!Next, ALOP!vars
<1>a. batch # {} => Cur \in batch
  BY CurLeast DEF IInv, TypeOK
<1>b. status \in [Rows -> Statuses] /\ accepted \in [Rows -> Nat]
  BY DEF IInv, TypeOK
<1>1. ASSUME NEW r \in Rows, Enqueue(r)
      PROVE  ALOP!Produce(r)
  BY <1>1, <1>b DEF Enqueue, ALOP!Produce, Pending, Statuses
<1>2. ASSUME NEW r \in Rows, AcceptOrphan(r)
      PROVE  ALOP!Publish(r)
  <2>1. r \in Valid /\ status[r] # "absent"
    BY <1>2 DEF AcceptOrphan, IInv, TypeOK, QuarantineExact, FreshInv
  <2>. QED
    BY <1>2, <2>1 DEF AcceptOrphan, ALOP!Publish, Pending
<1>3. CASE BrokerAccept
  <2>1. Cur \in Rows /\ Cur \in Valid /\ status[Cur] # "absent"
    BY <1>3, <1>a DEF BrokerAccept, IInv, TypeOK, BatchInv, Pending
  <2>2. ALOP!Publish(Cur)
    BY <1>3, <2>1 DEF BrokerAccept, ALOP!Publish, Pending
  <2>. QED
    BY <2>1, <2>2
<1>4. CASE MarkSent
  <2>1. Cur \in Pending /\ Cur \in Rows /\ accepted[Cur] > 0
    BY <1>4, <1>a DEF MarkSent, IInv, TypeOK, BatchInv, AckInv
  <2>2. ALOP!Retire(Cur)
    BY <1>4, <1>b, <2>1 DEF MarkSent, ALOP!Retire, Pending, Statuses
  <2>. QED
    BY <2>1, <2>2
<1>5. CASE Quarantine
  <2>1. Cur \in Pending /\ Cur \in Rows
    BY <1>5, <1>a DEF Quarantine, IInv, TypeOK, BatchInv
  <2>2. ALOP!Reject(Cur)
    BY <1>5, <1>b, <2>1 DEF Quarantine, ALOP!Reject, Pending, Statuses
  <2>. QED
    BY <2>1, <2>2
<1>6. ASSUME status' = status, accepted' = accepted
      PROVE  UNCHANGED ALOP!vars
  BY <1>6 DEF Pending
<1>7. CASE \/ \E r \in Rows : LoseOrphan(r)
          \/ DrainOnKick \/ DrainOnTimer \/ FetchFails \/ Flush
  BY <1>6, <1>7
  DEF LoseOrphan, DrainOnKick, DrainOnTimer, FetchFails, Flush, StartDrain
<1>8. CASE \/ DrainDone \/ QuarantineFails \/ PublishNoChannel
          \/ PublishSend \/ AckReceived \/ PublishFails \/ MarkSentFails
  BY <1>6, <1>8
  DEF DrainDone, QuarantineFails, PublishNoChannel, PublishSend, AckReceived,
      PublishFails, MarkSentFails
<1>9. CASE \/ BrokerNack \/ ConnLost \/ Reconnect
          \/ Shutdown \/ Crash \/ Start \/ UNCHANGED vars
  BY <1>6, <1>9 DEF BrokerNack, ConnLost, Reconnect, Shutdown, Crash, Start, vars
<1>. QED
  BY <1>1, <1>2, <1>3, <1>4, <1>5, <1>7, <1>8, <1>9 DEF Next

(* The relay implements the at-least-once promise: a committed event is    *)
(* owed until the broker holds it or the contract refuses it, through      *)
(* every crash, shutdown, drop, nack and failed write.                     *)
THEOREM Refinement == Spec => ImplementsAtLeastOnce
<1>1. Init => ALOP!Init
  BY DEF Init, ALOP!Init, Pending
<1>2. IInv /\ [Next]_vars => [ALOP!Next]_(ALOP!vars)
  BY RefinesStep
<1>. QED
  BY <1>1, <1>2, Invariance, PTL DEF Spec, ALOP!Spec, ImplementsAtLeastOnce
=============================================================================
