------------------------ MODULE RegisterFirstProofs -------------------------
(***************************************************************************)
(* Register-first, for every roster, spelling of addresses, number of      *)
(* erasures, failures and crashes.                                         *)
(***************************************************************************)
EXTENDS RegisterFirst, FiniteSetTheorems, SequenceTheorems, TLAPS

Lookup(m) == m.type = "lookup_requested"
Tries == 0..(MaxAttempts - 1)

(* What may travel: no message is ahead of the requests made and the       *)
(* masterIds minted; a lookup of the Resolve under way carries its         *)
(* driver's address, and an answer to it that driver's masterId.           *)
MsgType ==
  [id : Ids, type : {"lookup_requested", "erasure_requested"}, req : 0..MaxReq,
   addr : Addresses, master : Masters, tries : Tries]

Messages ==
  {m \in MsgType :
     /\ m.req <= req /\ m.master <= Len(minted)
     /\ Lookup(m) => m.req >= 1 /\ (Waiting /\ m.req = req => m.addr = Cur)}

AnswerType(tries) == [id : Ids, req : 1..MaxReq, master : Masters, tries : tries]

Answers(tries) ==
  {x \in AnswerType(tries) :
     /\ x.req <= req /\ x.master \in DOMAIN minted
     /\ Waiting /\ x.req = req => minted[x.master] = Normalized[Cur]}

QueueInv == queue \in Seq(Messages) /\ Len(queue) <= MaxQueue

ReplyInv ==
  /\ outbox \in Seq(Answers({0})) /\ Len(outbox) <= MaxReplies
  /\ replies \in Seq(Answers(Tries)) /\ Len(replies) <= MaxReplies

PlainInv ==
  /\ bound \in BOOLEAN /\ marked \in BOOLEAN
  /\ seen \subseteq Ids /\ timingSeen \subseteq Ids
  /\ tombstones \subseteq Masters /\ parked \subseteq Masters
  /\ held \subseteq 1..MaxReq
  /\ asked \in 0..MaxErasures /\ faults \in 0..MaxFaults

(* Rows and the history of minting agree: a mailbox loses its row only by  *)
(* being suppressed.                                                       *)
TableInv ==
  /\ rows \in [Mailboxes -> Nat] /\ minted \in Seq(Mailboxes) /\ suppressed \subseteq Mailboxes
  /\ \A b \in Mailboxes : rows[b] # 0 => rows[b] \in DOMAIN minted /\ minted[rows[b]] = b
  /\ \A i \in DOMAIN minted : rows[minted[i]] = i \/ minted[i] \in suppressed
  /\ OneIdPerMailbox
  /\ erased \subseteq 0..Len(minted)
  /\ ErasedForGood

(* The requests made before the process that runs now.                     *)
Earlier == crashes * Len(roster)

SimInv ==
  /\ roster \in Rosters
  /\ pc \in {"down", "publish", "wait", "backoff", "ready", "failed"}
  /\ crashes \in 0..MaxCrashes
  /\ req \in Nat
  /\ ids \in Seq(Nat) /\ Len(ids) <= Len(roster) /\ RightId
  /\ pc = "down" => ids = <<>> /\ req <= Earlier
  /\ Waiting => Len(ids) < Len(roster) /\ req <= Earlier + Len(ids) + 1
  /\ pc \in {"ready", "failed"} => req <= Earlier + Len(roster)
  /\ Up => req >= 1
  /\ marked => Up /\ replies # <<>>

ChannelInv ==
  /\ ch \in Seq(DOMAIN minted) /\ Len(ch) <= 1
  /\ Waiting /\ ch # <<>> => minted[ch[1]] = Normalized[Cur]

IInv == PlainInv /\ QueueInv /\ ReplyInv /\ TableInv /\ SimInv /\ ChannelInv

-----------------------------------------------------------------------------
(***************************************************************************)
(* Sizes.                                                                  *)
(***************************************************************************)
LEMMA MailboxesFinite ==
  /\ IsFiniteSet(Mailboxes) /\ Cardinality(Mailboxes) \in Nat
  /\ \A a \in Addresses : Normalized[a] \in Mailboxes
<1>. DEFINE f == [a \in Addresses |-> Normalized[a]]
<1>1. f \in Surjection(Addresses, Mailboxes)
  BY DEF Surjection, Mailboxes
<1>2. IsFiniteSet(Mailboxes)
  BY <1>1, FS_Surjection, IdentityConstantsOK
<1>. QED
  BY <1>2, FS_CardinalityType DEF Mailboxes

(* A message id is never missing: of one id more than are in use one is    *)
(* free.                                                                   *)
LEMMA FreshIdFree ==
  ASSUME NEW used, IsFiniteSet(used)
  PROVE  Cardinality(used) \in Nat /\ FreshId(used) \in 1..(Cardinality(used) + 1)
<1>. DEFINE n == Cardinality(used)
            I == 1..(n + 1)
<1>1. n \in Nat
  BY FS_CardinalityType
<1>2. Cardinality(I) = n + 1
  <2>. HIDE DEF n
  <2>1. 1 \in Int /\ n + 1 \in Int /\ ~(1 > n + 1)
    BY <1>1
  <2>2. Cardinality(1..(n + 1)) = (n + 1) - 1 + 1
    BY <2>1, FS_Interval
  <2>. QED
    BY <2>2, <1>1
<1>3. ASSUME I \subseteq used PROVE FALSE
  <2>1. Cardinality(I) <= n
    BY <1>3, FS_Subset
  <2>. HIDE DEF n, I
  <2>. QED
    BY <2>1, <1>1, <1>2
<1>4. \E i \in I : i \notin used
  BY <1>3
<1>. QED
  BY <1>1, <1>4 DEF FreshId

LEMMA CarriedSize ==
  ASSUME NEW S, NEW q \in Seq(S)
  PROVE  /\ IsFiniteSet(Carried(q)) /\ Cardinality(Carried(q)) \in Nat
         /\ Cardinality(Carried(q)) <= Len(q)
<1>. DEFINE f == [i \in 1..Len(q) |-> q[i].id]
<1>1. Len(q) \in Nat /\ DOMAIN q = 1..Len(q)
  BY LenProperties
<1>2. f \in Surjection(1..Len(q), Carried(q))
  BY <1>1 DEF Surjection, Carried
<1>3. IsFiniteSet(1..Len(q)) /\ Cardinality(1..Len(q)) = Len(q)
  <2>. DEFINE n == Len(q)
  <2>1. n \in Nat
    BY <1>1
  <2>. HIDE DEF n
  <2>2. 1 \in Int /\ n \in Int
    BY <2>1
  <2>3. IsFiniteSet(1..n) /\ Cardinality(1..n) = IF 1 > n THEN 0 ELSE n - 1 + 1
    BY <2>2, FS_Interval
  <2>4. IsFiniteSet(1..n) /\ Cardinality(1..n) = n
    BY <2>1, <2>3
  <2>. QED
    BY <2>4 DEF n
<1>4. IsFiniteSet(Carried(q)) /\ Cardinality(Carried(q)) <= Cardinality(1..Len(q))
  BY <1>2, <1>3, FS_Surjection
<1>. QED
  BY <1>3, <1>4, FS_CardinalityType

(* One id per mailbox: there are never more masterIds than mailboxes.      *)
LEMMA MintedBound ==
  ASSUME minted \in Seq(Mailboxes), OneIdPerMailbox
  PROVE  Len(minted) \in Nat /\ Len(minted) <= Cardinality(Mailboxes)
<1>1. Len(minted) \in Nat /\ minted \in [1..Len(minted) -> Mailboxes] /\ DOMAIN minted = 1..Len(minted)
  BY LenProperties
<1>2. minted \in Injection(1..Len(minted), Mailboxes)
  BY <1>1 DEF Injection, OneIdPerMailbox, IsInjective
<1>3. Cardinality(1..Len(minted)) <= Cardinality(Mailboxes)
  BY <1>2, FS_Injection, MailboxesFinite
<1>4. Cardinality(1..Len(minted)) = Len(minted)
  <2>. DEFINE n == Len(minted)
  <2>1. n \in Nat
    BY <1>1
  <2>. HIDE DEF n
  <2>2. 1 \in Int /\ n \in Int
    BY <2>1
  <2>3. Cardinality(1..n) = IF 1 > n THEN 0 ELSE n - 1 + 1
    BY <2>2, FS_Interval
  <2>4. Cardinality(1..n) = n
    BY <2>1, <2>3
  <2>. QED
    BY <2>4 DEF n
<1>. QED
  BY <1>1, <1>3, <1>4

LEMMA RosterFacts ==
  ASSUME roster \in Rosters
  PROVE  /\ roster \in Seq(Addresses) /\ Len(roster) \in Nat /\ Len(roster) >= 1
         /\ Addresses # {}
<1>1. roster \in Seq(Addresses) /\ roster # <<>>
  BY RostersOK
<1>2. Len(roster) \in Nat \ {0}
  BY <1>1, EmptySeq
<1>3. roster[1] \in Addresses
  BY <1>1, <1>2, ElementOfSeq
<1>. QED
  BY <1>1, <1>2, <1>3

LEMMA TimesMonotonic ==
  ASSUME NEW a \in Nat, NEW b \in Nat, NEW n \in Nat, a <= b
  PROVE  a * n + n \in Nat /\ a * n \in Nat /\ a * n + n <= (b + 1) * n /\ (a + 1) * n = a * n + n
BY SMT

(* The bound on the requests.                                              *)
LEMMA ReqBound ==
  ASSUME SimInv
  PROVE  /\ Earlier \in Nat /\ MaxReq \in Nat /\ Len(roster) \in Nat /\ Len(roster) >= 1
         /\ Len(ids) \in Nat
         /\ Earlier + Len(roster) <= MaxReq
         /\ req \in Nat /\ req <= MaxReq /\ req <= Earlier + Len(roster)
<1>1. Len(roster) \in Nat /\ Len(roster) >= 1
  BY RosterFacts DEF SimInv
<1>2. crashes \in Nat /\ MaxCrashes \in Nat /\ crashes <= MaxCrashes
  BY RostersOK DEF SimInv
<1>3. Earlier \in Nat /\ Earlier + Len(roster) <= MaxReq
  BY <1>1, <1>2, TimesMonotonic DEF Earlier, MaxReq
<1>4. MaxReq \in Nat
  BY <1>1, <1>2 DEF MaxReq
<1>5. Len(ids) \in Nat /\ req \in Nat
  BY LenProperties DEF SimInv
<1>6. req <= Earlier + Len(roster)
  <2>1. CASE pc = "down"
    BY <2>1, <1>1, <1>3, <1>5 DEF SimInv
  <2>2. CASE Waiting
    BY <2>2, <1>1, <1>3, <1>5 DEF SimInv
  <2>3. CASE pc \in {"ready", "failed"}
    BY <2>3 DEF SimInv
  <2>. QED
    BY <2>1, <2>2, <2>3 DEF SimInv, Waiting
<1>. QED
  BY <1>1, <1>3, <1>4, <1>5, <1>6

-----------------------------------------------------------------------------
LEMMA IdsFacts ==
  /\ MaxAttempts \in Nat \ {0} /\ MaxQueue \in Nat \ {0} /\ MaxReplies \in Nat \ {0}
  /\ MaxFaults \in Nat /\ MaxErasures \in Nat /\ MaxCrashes \in Nat
  /\ \A i \in 1..(MaxQueue + 1) : i \in Ids
  /\ \A i \in 1..(2 * MaxReplies + 1) : i \in Ids
  /\ 0 \in Tries
BY IdentityConstantsOK, RostersOK DEF Ids, Tries

(* What is in flight stays right when requests and masterIds are added.    *)
LEMMA InFlightKept ==
  ASSUME roster' = roster, MaxReq \in Nat, req \in Nat, req' \in Nat, req <= req',
         minted \in Seq(Mailboxes), minted' \in Seq(Mailboxes), Len(minted) <= Len(minted'),
         \A k \in DOMAIN minted : k \in DOMAIN minted' /\ minted'[k] = minted[k],
         req' = req /\ Waiting' => Waiting /\ ids' = ids
  PROVE  /\ Messages \subseteq Messages'
         /\ Answers({0}) \subseteq Answers({0})' /\ Answers(Tries) \subseteq Answers(Tries)'
<1>1. Len(minted) \in Nat /\ Len(minted') \in Nat /\ Masters \subseteq Int
  BY LenProperties DEF Masters
<1>2. MsgType' = MsgType
  BY DEF MsgType, MaxReq
<1>3. \A m \in MsgType : m.req \in Nat /\ m.master \in Int
  <2>1. \A m \in MsgType : m.req \in 0..MaxReq /\ m.master \in Masters
    BY DEF MsgType
  <2>2. \A n \in 0..MaxReq : n \in Nat
    OBVIOUS
  <2>. QED
    BY <2>1, <2>2, <1>1
<1>4. req' = req /\ Waiting' => Cur' = Cur
  BY DEF Cur
<1>5. ASSUME NEW m \in Messages PROVE m \in Messages'
  <2>1. m \in MsgType /\ m.req <= req /\ m.master <= Len(minted)
    BY <1>5 DEF Messages
  <2>2. m.req \in Nat /\ m.master \in Int /\ m.req <= req' /\ m.master <= Len(minted')
    BY <2>1, <1>1, <1>3
  <2>3. m.req = req' => m.req = req /\ req' = req
    BY <2>1, <2>2
  <2>4. Lookup(m) => m.req >= 1 /\ (Waiting' /\ m.req = req' => m.addr = Cur')
    BY <1>4, <1>5, <2>3 DEF Messages
  <2>. QED
    BY <2>1, <2>2, <2>4, <1>2 DEF Messages, Lookup
<1>6. ASSUME NEW T, NEW x \in AnswerType(T), x.req <= req, x.master \in DOMAIN minted,
             Waiting /\ x.req = req => minted[x.master] = Normalized[Cur]
      PROVE  /\ x.req <= req' /\ x.master \in DOMAIN minted'
             /\ Waiting' /\ x.req = req' => minted'[x.master] = Normalized[Cur']
  <2>1. x.req \in Int
    BY <1>6 DEF AnswerType, MaxReq
  <2>2. x.req <= req' /\ (x.req = req' => req' = req)
    BY <2>1, <1>6
  <2>. QED
    BY <2>2, <1>4, <1>6
<1>7. AnswerType({0})' = AnswerType({0}) /\ AnswerType(Tries)' = AnswerType(Tries)
  BY DEF AnswerType, MaxReq
<1>8. Answers({0}) \subseteq Answers({0})'
  BY <1>6, <1>7 DEF Answers
<1>9. Answers(Tries) \subseteq Answers(Tries)'
  BY <1>6, <1>7 DEF Answers
<1>. QED
  BY <1>5, <1>8, <1>9

LEMMA QueueReplyKept ==
  ASSUME QueueInv, ReplyInv, UNCHANGED <<queue, outbox, replies>>,
         Messages \subseteq Messages',
         Answers({0}) \subseteq Answers({0})', Answers(Tries) \subseteq Answers(Tries)'
  PROVE  QueueInv' /\ ReplyInv'
<1>1. QueueInv'
  BY SeqMonotonic DEF QueueInv
<1>2. outbox \in Seq(Answers({0})') /\ replies \in Seq(Answers(Tries)')
  BY SeqMonotonic DEF ReplyInv
<1>. QED
  BY <1>1, <1>2 DEF ReplyInv

LEMMA InFlightSame ==
  ASSUME UNCHANGED <<roster, req, minted, pc, ids>>
  PROVE  /\ Messages' = Messages
         /\ Answers({0})' = Answers({0}) /\ Answers(Tries)' = Answers(Tries)
<1>1. MsgType' = MsgType /\ Waiting' = Waiting /\ Cur' = Cur
  BY DEF MsgType, MaxReq, Waiting, Cur
<1>2. AnswerType({0})' = AnswerType({0}) /\ AnswerType(Tries)' = AnswerType(Tries)
  BY DEF AnswerType, MaxReq
<1>3. Messages' = Messages
  BY <1>1 DEF Messages
<1>4. Answers({0})' = Answers({0})
  BY <1>1, <1>2 DEF Answers
<1>5. Answers(Tries)' = Answers(Tries)
  BY <1>1, <1>2 DEF Answers
<1>. QED
  BY <1>3, <1>4, <1>5

LEMMA TableKept ==
  ASSUME TableInv, UNCHANGED <<rows, minted, suppressed, tombstones, erased>>
  PROVE  TableInv'
BY DEF TableInv, OneIdPerMailbox, ErasedForGood

LEMMA SimKept ==
  ASSUME SimInv, UNCHANGED <<roster, pc, ids, req, crashes, minted>>,
         marked' => Up /\ replies' # <<>>
  PROVE  SimInv'
BY DEF SimInv, RightId, Waiting, Earlier, Up

LEMMA ChannelKept ==
  ASSUME ChannelInv, UNCHANGED <<ch, minted, roster, ids>>, Waiting' => Waiting
  PROVE  ChannelInv'
BY DEF ChannelInv, Cur

(***************************************************************************)
(* The queue of Identity.                                                  *)
(***************************************************************************)
LEMMA MsgIs ==
  ASSUME QueueInv, queue # <<>>
  PROVE  /\ Msg \in Messages /\ Tail(queue) \in Seq(Messages)
         /\ Len(queue) \in Nat /\ Len(Tail(queue)) = Len(queue) - 1
         /\ Len(Tail(queue)) <= MaxQueue
<1>1. /\ Msg \in Messages /\ Tail(queue) \in Seq(Messages)
      /\ Len(queue) \in Nat /\ Len(Tail(queue)) = Len(queue) - 1
  BY HeadTailProperties, LenProperties DEF QueueInv, Msg
<1>. QED
  BY <1>1, IdsFacts DEF QueueInv

LEMMA MsgFields ==
  ASSUME NEW m \in Messages, SimInv
  PROVE  /\ m.id \in Ids /\ m.req \in Nat /\ m.req <= req /\ m.req <= MaxReq
         /\ m.addr \in Addresses /\ Normalized[m.addr] \in Mailboxes
         /\ m.master \in Nat /\ m.master \in Masters /\ m.master <= Len(minted) /\ m.tries \in Tries
         /\ Lookup(m) => m.req \in 1..MaxReq /\ (Waiting /\ m.req = req => m.addr = Cur)
<1>1. m \in MsgType /\ MaxReq \in Nat /\ Masters \subseteq Nat
  BY ReqBound, MailboxesFinite DEF Messages, Masters
<1>2. /\ m.id \in Ids /\ m.req \in 0..MaxReq /\ m.addr \in Addresses /\ m.master \in Masters
      /\ m.tries \in Tries
  BY <1>1 DEF MsgType
<1>3. /\ m.req <= req /\ m.master <= Len(minted)
      /\ Lookup(m) => m.req >= 1 /\ (Waiting /\ m.req = req => m.addr = Cur)
  BY DEF Messages
<1>4. m.req \in Nat /\ m.req <= MaxReq /\ (m.req >= 1 => m.req \in 1..MaxReq)
  BY <1>1, <1>2
<1>5. Normalized[m.addr] \in Mailboxes /\ m.master \in Nat
  BY <1>1, <1>2, MailboxesFinite
<1>. QED
  BY <1>2, <1>3, <1>4, <1>5

LEMMA FaultStep ==
  ASSUME faults \in 0..MaxFaults, Fault \/ UNCHANGED faults
  PROVE  faults' \in 0..MaxFaults
BY IdsFacts DEF Fault

LEMMA SettleStep ==
  ASSUME QueueInv, PlainInv, queue # <<>>, NEW M \in SUBSET Ids, Settle(M)
  PROVE  /\ queue' \in Seq(Messages) /\ Len(queue') <= MaxQueue
         /\ seen' \subseteq Ids /\ faults' \in 0..MaxFaults
<1>1. queue' = Tail(queue) \/ queue' = queue
  BY DEF Settle
<1>2. seen' \subseteq seen \cup M
  BY DEF Settle
<1>3. faults' \in 0..MaxFaults
  BY FaultStep DEF Settle, PlainInv
<1>. QED
  BY <1>1, <1>2, <1>3, MsgIs DEF QueueInv, PlainInv

LEMMA SubmitStep ==
  ASSUME QueueInv, SimInv, TableInv, NEW t \in {"lookup_requested", "erasure_requested"},
         NEW r \in Nat, r <= req, NEW a \in Addresses, NEW k \in Nat, k <= Len(minted),
         t = "lookup_requested" => r >= 1 /\ (Waiting /\ r = req => a = Cur),
         Submit(t, r, a, k)
  PROVE  queue' \in Seq(Messages) /\ Len(queue') <= MaxQueue
<1>. DEFINE m == [id |-> FreshId(Carried(queue)), type |-> t, req |-> r, addr |-> a,
                  master |-> k, tries |-> 0]
<1>1. Len(queue) \in Nat /\ Len(queue) < MaxQueue
  BY LenProperties DEF Submit, QueueInv
<1>2. FreshId(Carried(queue)) \in Ids
  <2>1. IsFiniteSet(Carried(queue)) /\ Cardinality(Carried(queue)) \in Nat
        /\ Cardinality(Carried(queue)) <= Len(queue)
    BY CarriedSize DEF QueueInv
  <2>2. FreshId(Carried(queue)) \in 1..(Cardinality(Carried(queue)) + 1)
    BY <2>1, FreshIdFree
  <2>3. FreshId(Carried(queue)) \in 1..(MaxQueue + 1)
    BY <2>1, <2>2, <1>1, IdsFacts
  <2>. QED
    BY <2>3, IdsFacts
<1>3. k \in Masters /\ r \in 0..MaxReq
  BY MintedBound, MailboxesFinite, ReqBound DEF TableInv, Masters
<1>4. m \in Messages
  BY <1>2, <1>3, IdsFacts DEF Messages, MsgType, Lookup
<1>5. queue' = Append(queue, m) \/ queue' = queue
  BY DEF Submit
<1>. HIDE DEF m
<1>6. Append(queue, m) \in Seq(Messages) /\ Len(Append(queue, m)) = Len(queue) + 1
  BY <1>4, AppendProperties DEF QueueInv
<1>. QED
  BY <1>1, <1>5, <1>6, IdsFacts DEF QueueInv

-----------------------------------------------------------------------------
(***************************************************************************)
(* The steps of Identity.                                                  *)
(***************************************************************************)
(* A step that changes neither the tables nor Timing.                      *)
LEMMA QueueOnly ==
  ASSUME IInv, UNCHANGED timingVars,
         UNCHANGED <<rows, minted, suppressed, tombstones, erased, outbox>>,
         queue' \in Seq(Messages), Len(queue') <= MaxQueue,
         PlainInv'
  PROVE  IInv'
<1>1. Messages' = Messages /\ Answers({0})' = Answers({0}) /\ Answers(Tries)' = Answers(Tries)
  BY InFlightSame DEF timingVars
<1>2. QueueInv' /\ ReplyInv'
  BY <1>1 DEF QueueInv, ReplyInv, IInv, timingVars
<1>3. TableInv'
  BY TableKept DEF IInv
<1>4. SimInv'
  BY SimKept DEF IInv, timingVars, SimInv
<1>5. ChannelInv'
  BY ChannelKept DEF IInv, timingVars, Waiting
<1>. QED
  BY <1>2, <1>3, <1>4, <1>5 DEF IInv

LEMMA BindStep ==
  ASSUME IInv, Bind, UNCHANGED timingVars
  PROVE  IInv'
<1>1. PlainInv'
  BY DEF IInv, PlainInv, Bind, timingVars, MaxReq
<1>. QED
  BY <1>1, QueueOnly DEF Bind, IInv, QueueInv

LEMMA RequestErasureStep ==
  ASSUME IInv, RequestErasure, UNCHANGED timingVars
  PROVE  IInv'
<1>1. PICK m \in {NoMaster} \cup DOMAIN minted :
        Submit("erasure_requested", 0, CHOOSE a \in Addresses : TRUE, m)
  BY DEF RequestErasure
<1>2. (CHOOSE a \in Addresses : TRUE) \in Addresses
  BY RosterFacts DEF IInv, SimInv
<1>3. m \in Nat /\ m <= Len(minted)
  BY LenProperties DEF IInv, TableInv, NoMaster
<1>4. 0 \in Nat /\ 0 <= req
  BY DEF IInv, SimInv
<1>5. queue' \in Seq(Messages) /\ Len(queue') <= MaxQueue
  BY <1>1, <1>2, <1>3, <1>4, SubmitStep DEF IInv
<1>6. PlainInv'
  <2>1. asked' \in 0..MaxErasures
    BY IdsFacts DEF RequestErasure, IInv, PlainInv
  <2>. QED
    BY <2>1 DEF RequestErasure, IInv, PlainInv, timingVars, MaxReq
<1>. QED
  BY <1>5, <1>6, QueueOnly DEF RequestErasure

LEMMA IgnoreDuplicateStep ==
  ASSUME IInv, IgnoreDuplicate, UNCHANGED timingVars
  PROVE  IInv'
<1>1. /\ queue' \in Seq(Messages) /\ Len(queue') <= MaxQueue
      /\ seen' \subseteq Ids /\ faults' \in 0..MaxFaults
  BY SettleStep DEF IgnoreDuplicate, IInv
<1>2. PlainInv'
  BY <1>1 DEF IgnoreDuplicate, IInv, PlainInv, timingVars, MaxReq
<1>. QED
  BY <1>1, <1>2, QueueOnly DEF IgnoreDuplicate

LEMMA HoldLookupStep ==
  ASSUME IInv, HoldLookup, UNCHANGED timingVars
  PROVE  IInv'
<1>1. queue # <<>> /\ Lookup(Msg)
  BY DEF HoldLookup, Arrived, Lookup
<1>2. Msg.id \in Ids /\ Msg.req \in 1..MaxReq
  BY <1>1, MsgIs, MsgFields DEF IInv
<1>3. /\ queue' \in Seq(Messages) /\ Len(queue') <= MaxQueue
      /\ seen' \subseteq Ids /\ faults' \in 0..MaxFaults
  BY <1>1, <1>2, SettleStep DEF HoldLookup, IInv
<1>4. PlainInv'
  <2>1. held' \subseteq 1..MaxReq /\ MaxReq' = MaxReq
    BY <1>2 DEF HoldLookup, IInv, PlainInv, timingVars, MaxReq
  <2>. QED
    BY <2>1, <1>3 DEF HoldLookup, IInv, PlainInv, timingVars
<1>. QED
  BY <1>3, <1>4, QueueOnly DEF HoldLookup

LEMMA ProcessingFailsStep ==
  ASSUME IInv, ProcessingFails, UNCHANGED timingVars
  PROVE  IInv'
<1>1. queue # <<>> /\ faults' \in 0..MaxFaults
  BY FaultStep DEF ProcessingFails, IInv, PlainInv
<1>2. Msg \in Messages /\ Tail(queue) \in Seq(Messages)
      /\ Len(queue) \in Nat /\ Len(Tail(queue)) = Len(queue) - 1
  BY <1>1, MsgIs DEF IInv
<1>3. Msg.master \in Masters /\ Msg.tries \in Tries
  BY <1>2, MsgFields DEF IInv
<1>4. Msg.tries + 1 < MaxAttempts => Retried(Msg) \in Messages
  <2>. SUFFICES ASSUME Msg.tries + 1 < MaxAttempts PROVE Retried(Msg) \in Messages
    OBVIOUS
  <2>. DEFINE m == Msg
  <2>0. m \in Messages /\ m.tries + 1 < MaxAttempts /\ m.tries \in Tries
    BY <1>2, <1>3
  <2>. HIDE DEF m
  <2>1. m.tries + 1 \in Tries
    BY <2>0, IdsFacts DEF Tries
  <2>2. m \in MsgType
    BY <2>0 DEF Messages
  <2>3. [m EXCEPT !.tries = m.tries + 1] \in MsgType
    BY <2>1, <2>2 DEF MsgType
  <2>4. \A f \in {"type", "req", "addr", "master"} : [m EXCEPT !.tries = m.tries + 1][f] = m[f]
    BY <2>2 DEF MsgType
  <2>5. [m EXCEPT !.tries = m.tries + 1] \in Messages
    BY <2>0, <2>2, <2>3 DEF Messages, Lookup, MsgType
  <2>. QED
    BY <2>5 DEF Retried, m
<1>5. Msg.tries + 1 < MaxAttempts \/ Msg.tries + 1 >= MaxAttempts
  BY <1>3, IdsFacts DEF Tries
<1>6. queue' \in Seq(Messages) /\ Len(queue') <= MaxQueue
  <2>1. CASE queue' = Tail(queue)
    BY <2>1, <1>1, MsgIs DEF IInv
  <2>2. CASE queue' = Append(Tail(queue), Retried(Msg)) /\ Msg.tries + 1 < MaxAttempts
    <3>. DEFINE r == Retried(Msg)
                q == Tail(queue)
    <3>1. r \in Messages /\ q \in Seq(Messages) /\ Len(q) = Len(queue) - 1 /\ queue' = Append(q, r)
      BY <2>2, <1>2, <1>4
    <3>. HIDE DEF r, q
    <3>2. queue' \in Seq(Messages) /\ Len(queue') = Len(q) + 1
      BY <3>1, AppendProperties
    <3>. QED
      BY <3>1, <3>2, <1>2 DEF IInv, QueueInv
  <2>. QED
    BY <2>1, <2>2, <1>5 DEF ProcessingFails
<1>7. parked' \subseteq Masters
  BY <1>3 DEF ProcessingFails, IInv, PlainInv
<1>8. PlainInv'
  <2>1. seen' \subseteq seen
    BY DEF ProcessingFails
  <2>. QED
    BY <2>1, <1>1, <1>7 DEF ProcessingFails, IInv, PlainInv, timingVars, MaxReq
<1>. QED
  BY <1>6, <1>8, QueueOnly DEF ProcessingFails

(* The heart of it: a masterId is minted only for a mailbox that has none  *)
(* and never had one, for a mailbox loses its row only with a suppression. *)
LEMMA MintStep ==
  ASSUME TableInv, NEW b \in Mailboxes, b \notin suppressed,
         IF rows[b] = NoMaster
         THEN minted' = Append(minted, b) /\ rows' = [rows EXCEPT ![b] = Len(minted')]
         ELSE UNCHANGED <<minted, rows>>,
         UNCHANGED <<suppressed, tombstones, erased>>
  PROVE  /\ TableInv'
         /\ minted' \in Seq(Mailboxes) /\ Len(minted) <= Len(minted')
         /\ \A k \in DOMAIN minted : k \in DOMAIN minted' /\ minted'[k] = minted[k]
         /\ rows'[b] \in DOMAIN minted' /\ minted'[rows'[b]] = b
<1>1. /\ rows \in [Mailboxes -> Nat] /\ minted \in Seq(Mailboxes) /\ suppressed \subseteq Mailboxes
      /\ \A c \in Mailboxes : rows[c] # 0 => rows[c] \in DOMAIN minted /\ minted[rows[c]] = c
      /\ \A i \in DOMAIN minted : rows[minted[i]] = i \/ minted[i] \in suppressed
      /\ OneIdPerMailbox /\ erased \subseteq 0..Len(minted) /\ ErasedForGood
  BY DEF TableInv
<1>2. Len(minted) \in Nat /\ DOMAIN minted = 1..Len(minted)
  BY <1>1, LenProperties
<1>3. CASE rows[b] # NoMaster
  <2>1. minted' = minted /\ rows' = rows
    BY <1>3
  <2>2. TableInv'
    BY <2>1, TableKept
  <2>. QED
    BY <2>1, <2>2, <1>1, <1>2, <1>3 DEF NoMaster
<1>4. CASE rows[b] = NoMaster
  <2>. DEFINE n == Len(minted) + 1
  <2>1. /\ minted' = Append(minted, b) /\ minted' \in Seq(Mailboxes) /\ Len(minted') = n
        /\ \A i \in 1..Len(minted) : minted'[i] = minted[i]
        /\ minted'[n] = b
    <3>1. minted' = Append(minted, b)
      BY <1>4
    <3>2. /\ Append(minted, b) \in Seq(Mailboxes) /\ Len(Append(minted, b)) = Len(minted) + 1
          /\ \A i \in 1..Len(minted) : Append(minted, b)[i] = minted[i]
          /\ Append(minted, b)[Len(minted) + 1] = b
      BY <1>1, AppendProperties
    <3>. QED
      BY <3>1, <3>2
  <2>2. DOMAIN minted' = 1..n
    BY <2>1, LenProperties
  <2>3. /\ rows' = [rows EXCEPT ![b] = n] /\ rows'[b] = n
        /\ \A c \in Mailboxes : c # b => rows'[c] = rows[c]
    BY <2>1, <1>1, <1>4
  <2>4. \A k \in DOMAIN minted : k \in DOMAIN minted' /\ k # n /\ minted'[k] = minted[k]
    <3>1. \A k \in 1..Len(minted) : k \in 1..n /\ k # n
      BY <1>2
    <3>. QED
      BY <3>1, <2>1, <2>2, <1>2
  <2>5. \A i \in DOMAIN minted' : i = n \/ i \in DOMAIN minted
    BY <2>2, <1>2
  <2>6. n \in Nat /\ n # 0 /\ n \in DOMAIN minted'
    BY <2>2, <1>2
  <2>7. \A k \in DOMAIN minted : minted[k] \in Mailboxes /\ minted[k] # b
    <3>1. \A k \in DOMAIN minted : minted[k] \in Mailboxes
      BY <1>1, <1>2, ElementOfSeq
    <3>. QED
      BY <3>1, <1>1, <1>2, <1>4 DEF NoMaster
  <2>. HIDE DEF n
  <2>8. rows' \in [Mailboxes -> Nat]
    BY <2>3, <2>6, <1>1
  <2>9. \A c \in Mailboxes : rows'[c] # 0 => rows'[c] \in DOMAIN minted' /\ minted'[rows'[c]] = c
    BY <2>1, <2>3, <2>4, <2>6, <1>1
  <2>10. \A i \in DOMAIN minted' : rows'[minted'[i]] = i \/ minted'[i] \in suppressed
    BY <2>1, <2>3, <2>4, <2>5, <2>7, <1>1
  <2>11. OneIdPerMailbox'
    BY <2>1, <2>4, <2>5, <2>7, <1>1 DEF OneIdPerMailbox
  <2>12. erased' \subseteq 0..Len(minted')
    <3>1. 0..Len(minted) \subseteq 0..n
      BY <1>2 DEF n
    <3>. QED
      BY <3>1, <2>1, <1>1
  <2>13. ErasedForGood'
    <3>. SUFFICES ASSUME NEW m \in erased \ {NoMaster}
                  PROVE  /\ m \in tombstones /\ minted'[m] \in suppressed
                         /\ \A c \in Mailboxes : rows'[c] # m
      BY DEF ErasedForGood
    <3>1. /\ m \in tombstones /\ minted[m] \in suppressed
          /\ \A c \in Mailboxes : rows[c] # m
      BY <1>1 DEF ErasedForGood
    <3>2. m \in DOMAIN minted
      BY <1>1, <1>2 DEF NoMaster
    <3>. QED
      BY <3>1, <3>2, <2>3, <2>4
  <2>14. TableInv'
    BY <2>1, <2>8, <2>9, <2>10, <2>11, <2>12, <2>13, <1>1 DEF TableInv
  <2>15. Len(minted) <= Len(minted')
    <3>1. Len(minted) <= n
      BY <1>2 DEF n
    <3>. QED
      BY <3>1, <2>1
  <2>. QED
    BY <2>1, <2>3, <2>4, <2>6, <2>14, <2>15
<1>. QED
  BY <1>3, <1>4

LEMMA AnswerLookupStep ==
  ASSUME IInv, AnswerLookup(InFlight), UNCHANGED timingVars
  PROVE  IInv'
<1>. DEFINE b == Mailbox
            x == Reply(InFlight)
<1>1. queue # <<>> /\ Lookup(Msg) /\ b \notin suppressed
  BY DEF AnswerLookup, Arrived, Lookup
<1>2. /\ Msg.id \in Ids /\ Msg.req \in 1..MaxReq /\ Msg.req <= req /\ b \in Mailboxes
      /\ Waiting /\ Msg.req = req => Msg.addr = Cur
  BY <1>1, MsgIs, MsgFields DEF IInv, Mailbox
<1>3. UNCHANGED <<suppressed, tombstones, held, erased, parked, asked, bound>>
  BY DEF AnswerLookup
<1>4. /\ TableInv'
      /\ minted' \in Seq(Mailboxes) /\ Len(minted) <= Len(minted')
      /\ \A k \in DOMAIN minted : k \in DOMAIN minted' /\ minted'[k] = minted[k]
      /\ rows'[b] \in DOMAIN minted' /\ minted'[rows'[b]] = b
  <2>. HIDE DEF b
  <2>1. IF rows[b] = NoMaster
        THEN minted' = Append(minted, b) /\ rows' = [rows EXCEPT ![b] = Len(minted')]
        ELSE UNCHANGED <<minted, rows>>
    BY DEF AnswerLookup, ResolveOrMint, b
  <2>. QED
    BY <2>1, <1>1, <1>2, <1>3, MintStep DEF IInv
<1>5. /\ queue' \in Seq(Messages) /\ Len(queue') <= MaxQueue
      /\ seen' \subseteq Ids /\ faults' \in 0..MaxFaults
  BY <1>1, <1>2, SettleStep DEF AnswerLookup, IInv
<1>6. /\ roster' = roster /\ req' = req /\ pc' = pc /\ ids' = ids /\ MaxReq' = MaxReq
      /\ Waiting' = Waiting /\ Cur' = Cur
  BY DEF timingVars, MaxReq, Waiting, Cur
<1>7. MaxReq \in Nat /\ req \in Nat /\ minted \in Seq(Mailboxes)
  BY ReqBound DEF IInv, TableInv
<1>8. /\ Messages \subseteq Messages'
      /\ Answers({0}) \subseteq Answers({0})' /\ Answers(Tries) \subseteq Answers(Tries)'
  BY <1>4, <1>6, <1>7, InFlightKept
<1>9. QueueInv'
  BY <1>5, <1>8, SeqMonotonic DEF QueueInv
<1>10. FreshId(InFlight) \in Ids
  <2>1. /\ IsFiniteSet(Carried(outbox)) /\ Cardinality(Carried(outbox)) \in Nat
        /\ Cardinality(Carried(outbox)) <= Len(outbox)
    BY CarriedSize DEF IInv, ReplyInv
  <2>2. /\ IsFiniteSet(Carried(replies)) /\ Cardinality(Carried(replies)) \in Nat
        /\ Cardinality(Carried(replies)) <= Len(replies)
    BY CarriedSize DEF IInv, ReplyInv
  <2>3. /\ IsFiniteSet(InFlight)
        /\ Cardinality(InFlight) = Cardinality(Carried(outbox)) + Cardinality(Carried(replies))
                                     - Cardinality(Carried(outbox) \cap Carried(replies))
    BY <2>1, <2>2, FS_Union DEF InFlight
  <2>4. Cardinality(Carried(outbox) \cap Carried(replies)) \in Nat
    <3>1. IsFiniteSet(Carried(outbox) \cap Carried(replies))
      BY <2>1, FS_Subset
    <3>. QED
      BY <3>1, FS_CardinalityType
  <2>5. Len(outbox) <= MaxReplies /\ Len(replies) <= MaxReplies
        /\ Len(outbox) \in Nat /\ Len(replies) \in Nat
    BY LenProperties DEF IInv, ReplyInv
  <2>6. Cardinality(InFlight) \in Nat /\ FreshId(InFlight) \in 1..(Cardinality(InFlight) + 1)
    BY <2>3, FreshIdFree
  <2>7. Cardinality(InFlight) <= 2 * MaxReplies
    BY <2>1, <2>2, <2>3, <2>4, <2>5, <2>6, IdsFacts
  <2>8. FreshId(InFlight) \in 1..(2 * MaxReplies + 1)
    BY <2>6, <2>7, IdsFacts
  <2>. QED
    BY <2>8, IdsFacts
<1>11. x \in Answers({0})'
  <2>1. DOMAIN minted' \subseteq Masters
    <3>1. Len(minted') \in Nat /\ DOMAIN minted' = 1..Len(minted')
      BY <1>4, LenProperties
    <3>2. (Len(minted) <= Cardinality(Mailboxes))'
      BY <1>4, MintedBound, PTL DEF TableInv
    <3>. QED
      BY <3>1, <3>2, MailboxesFinite DEF Masters
  <2>2. x \in AnswerType({0})'
    BY <2>1, <1>2, <1>4, <1>6, <1>10 DEF Reply, AnswerType
  <2>3. x.req = Msg.req /\ x.master = rows'[b]
    BY DEF Reply
  <2>4. Waiting' /\ x.req = req' => minted'[x.master] = Normalized[Cur']
    BY <2>3, <1>2, <1>4, <1>6 DEF Mailbox
  <2>. HIDE DEF x, b
  <2>. QED
    BY <2>2, <2>3, <2>4, <1>2, <1>4, <1>6 DEF Answers
<1>12. ReplyInv'
  <2>1. outbox' = Append(outbox, x) /\ replies' = replies /\ Len(outbox) < MaxReplies
    BY DEF AnswerLookup, timingVars
  <2>. HIDE DEF x
  <2>2. outbox \in Seq(Answers({0})') /\ replies \in Seq(Answers(Tries)')
    BY <1>8, SeqMonotonic DEF IInv, ReplyInv
  <2>3. outbox' \in Seq(Answers({0})') /\ Len(outbox') = Len(outbox) + 1 /\ Len(outbox) \in Nat
    BY <2>1, <2>2, <1>11, AppendProperties, LenProperties
  <2>4. Len(outbox') <= MaxReplies
    BY <2>1, <2>3, IdsFacts
  <2>. QED
    BY <2>1, <2>2, <2>3, <2>4 DEF IInv, ReplyInv
<1>13. PlainInv'
  BY <1>3, <1>5, <1>6 DEF IInv, PlainInv, timingVars
<1>14. SimInv'
  <2>1. RightId'
    BY <1>4, <1>6 DEF IInv, SimInv, RightId
  <2>2. Earlier' = Earlier /\ (Up' <=> Up) /\ marked' = marked /\ replies' = replies /\ crashes' = crashes
    BY DEF Earlier, Up, timingVars
  <2>. QED
    BY <2>1, <2>2, <1>6 DEF IInv, SimInv
<1>15. ChannelInv'
  <2>1. ch' = ch
    BY DEF timingVars
  <2>2. DOMAIN minted \subseteq DOMAIN minted'
    BY <1>4
  <2>3. ch \in Seq(DOMAIN minted') /\ Len(ch) <= 1
    BY <2>2, SeqMonotonic DEF IInv, ChannelInv
  <2>4. ch # <<>> => ch[1] \in DOMAIN minted
    <3>1. ch # <<>> => 1 \in 1..Len(ch)
      BY EmptySeq DEF IInv, ChannelInv
    <3>. QED
      BY <3>1, ElementOfSeq DEF IInv, ChannelInv
  <2>. QED
    BY <2>1, <2>3, <2>4, <1>4, <1>6 DEF IInv, ChannelInv
<1>. QED
  BY <1>4, <1>9, <1>12, <1>13, <1>14, <1>15 DEF IInv

(* An erasure deletes the row and suppresses its mailbox in one step.      *)
LEMMA EraseTables ==
  ASSUME TableInv, NEW k \in Nat, k <= Len(minted), DeleteSlice(k),
         tombstones' = tombstones \cup {k}, erased' = erased \cup {k}, minted' = minted
  PROVE  TableInv'
<1>1. /\ rows \in [Mailboxes -> Nat] /\ minted \in Seq(Mailboxes) /\ suppressed \subseteq Mailboxes
      /\ \A c \in Mailboxes : rows[c] # 0 => rows[c] \in DOMAIN minted /\ minted[rows[c]] = c
      /\ \A i \in DOMAIN minted : rows[minted[i]] = i \/ minted[i] \in suppressed
      /\ OneIdPerMailbox /\ erased \subseteq 0..Len(minted) /\ ErasedForGood
  BY DEF TableInv
<1>2. Len(minted) \in Nat /\ DOMAIN minted = 1..Len(minted)
  BY <1>1, LenProperties
<1>3. \A i \in DOMAIN minted : minted[i] \in Mailboxes
  BY <1>1, <1>2, ElementOfSeq
<1>4. rows' = [m \in Mailboxes |-> IF rows[m] = k THEN NoMaster ELSE rows[m]]
  BY DEF DeleteSlice
<1>5. /\ rows' \in [Mailboxes -> Nat]
      /\ \A c \in Mailboxes : rows'[c] = IF rows[c] = k THEN 0 ELSE rows[c]
  BY <1>1, <1>4 DEF NoMaster
<1>6. /\ suppressed' \subseteq Mailboxes /\ suppressed \subseteq suppressed'
      /\ \A c \in Mailboxes : rows[c] = k /\ k # 0 => c \in suppressed'
  BY <1>1 DEF DeleteSlice, NoMaster
<1>7. \A c \in Mailboxes : rows'[c] # 0 => rows'[c] \in DOMAIN minted /\ minted[rows'[c]] = c
  BY <1>1, <1>5
<1>8. \A i \in DOMAIN minted : rows'[minted[i]] = i \/ minted[i] \in suppressed'
  <2>. SUFFICES ASSUME NEW i \in DOMAIN minted, minted[i] \notin suppressed'
                PROVE  rows'[minted[i]] = i
    OBVIOUS
  <2>1. rows[minted[i]] = i /\ i # 0
    BY <1>1, <1>2, <1>6
  <2>2. rows[minted[i]] # k
    BY <2>1, <1>3, <1>6
  <2>. QED
    BY <2>1, <2>2, <1>3, <1>5
<1>9. OneIdPerMailbox'
  BY <1>1 DEF OneIdPerMailbox
<1>10. ErasedForGood'
  <2>. SUFFICES ASSUME NEW m \in (erased \cup {k}) \ {NoMaster}
                PROVE  /\ m \in tombstones' /\ minted[m] \in suppressed'
                       /\ \A c \in Mailboxes : rows'[c] # m
    BY DEF ErasedForGood
  <2>1. CASE m \in erased
    <3>1. m # 0 /\ m \in tombstones /\ minted[m] \in suppressed /\ \A c \in Mailboxes : rows[c] # m
      BY <2>1, <1>1 DEF ErasedForGood, NoMaster
    <3>. QED
      BY <3>1, <1>5, <1>6
  <2>2. CASE m = k
    <3>1. k # 0 /\ k \in DOMAIN minted
      BY <2>2, <1>2 DEF NoMaster
    <3>2. minted[k] \in suppressed'
      BY <3>1, <1>1, <1>3, <1>6
    <3>. QED
      BY <3>1, <3>2, <2>2, <1>5
  <2>. QED
    BY <2>1, <2>2
<1>11. erased' \subseteq 0..Len(minted)
  BY <1>1, <1>2
<1>. QED
  BY <1>1, <1>5, <1>6, <1>7, <1>8, <1>9, <1>10, <1>11 DEF TableInv

LEMMA EraseStep ==
  ASSUME IInv, Erase, UNCHANGED timingVars
  PROVE  IInv'
<1>1. queue # <<>>
  BY DEF Erase, Arrived
<1>2. Msg.id \in Ids /\ Msg.master \in Nat /\ Msg.master \in Masters /\ Msg.master <= Len(minted)
  BY <1>1, MsgIs, MsgFields DEF IInv
<1>3. /\ queue' \in Seq(Messages) /\ Len(queue') <= MaxQueue
      /\ seen' \subseteq Ids /\ faults' \in 0..MaxFaults
  BY <1>1, <1>2, SettleStep DEF Erase, IInv
<1>4. TableInv'
  BY <1>2, EraseTables DEF Erase, IInv
<1>5. Messages' = Messages /\ Answers({0})' = Answers({0}) /\ Answers(Tries)' = Answers(Tries)
  BY InFlightSame DEF timingVars, Erase
<1>6. QueueInv' /\ ReplyInv'
  BY <1>3, <1>5 DEF QueueInv, ReplyInv, IInv, timingVars, Erase
<1>7. PlainInv'
  BY <1>2, <1>3 DEF Erase, IInv, PlainInv, timingVars, MaxReq
<1>8. SimInv'
  BY SimKept DEF IInv, timingVars, SimInv, Erase
<1>9. ChannelInv'
  BY ChannelKept DEF IInv, timingVars, Waiting, Erase
<1>. QED
  BY <1>4, <1>6, <1>7, <1>8, <1>9 DEF IInv

LEMMA IdentityStep ==
  ASSUME IInv, IdentityNext(InFlight), UNCHANGED timingVars
  PROVE  IInv'
BY BindStep, RequestErasureStep, IgnoreDuplicateStep, HoldLookupStep, AnswerLookupStep,
   EraseStep, ProcessingFailsStep DEF IdentityNext

-----------------------------------------------------------------------------
(***************************************************************************)
(* The steps of Timing.                                                    *)
(***************************************************************************)
(* A new request: nothing in flight can answer it yet.                     *)
LEMMA NewRequest ==
  ASSUME IInv, roster' = roster, minted' = minted, UNCHANGED <<queue, outbox, replies>>,
         req' \in Nat, req <= req', req' = req /\ Waiting' => Waiting /\ ids' = ids
  PROVE  QueueInv' /\ ReplyInv'
<1>1. MaxReq \in Nat /\ req \in Nat /\ minted \in Seq(Mailboxes) /\ Len(minted) \in Nat
  BY ReqBound, LenProperties DEF IInv, TableInv
<1>2. /\ Messages \subseteq Messages'
      /\ Answers({0}) \subseteq Answers({0})' /\ Answers(Tries) \subseteq Answers(Tries)'
  BY <1>1, InFlightKept
<1>. QED
  BY <1>2, QueueReplyKept DEF IInv

(* A step of the simulator's goroutine alone.                              *)
LEMMA StartStep ==
  ASSUME IInv, Start
  PROVE  IInv'
<1>1. /\ pc = "down" /\ ids' = <<>> /\ req' = req + 1 /\ ch' = <<>> /\ pc' = "publish"
      /\ UNCHANGED <<roster, replies, timingSeen, marked, crashes>>
      /\ UNCHANGED <<bound, queue, seen, rows, minted, suppressed, tombstones, held, erased,
                     outbox, parked, asked, faults>>
  BY DEF Start, NextResolve, identityVars
<1>2. /\ req \in Nat /\ Earlier \in Nat /\ Len(roster) \in Nat /\ Len(roster) >= 1
      /\ req <= Earlier /\ ~marked
  BY <1>1, ReqBound DEF IInv, SimInv, Up
<1>3. QueueInv' /\ ReplyInv'
  BY <1>1, <1>2, NewRequest
<1>4. TableInv'
  BY <1>1, TableKept DEF IInv
<1>5. PlainInv'
  BY <1>1 DEF IInv, PlainInv, MaxReq
<1>6. ChannelInv'
  BY <1>1, EmptySeq DEF ChannelInv
<1>7. SimInv'
  <2>1. Earlier' = Earlier
    BY <1>1 DEF Earlier
  <2>2. Len(ids') = 0 /\ ids' \in Seq(Nat) /\ RightId'
    BY <1>1, EmptySeq DEF RightId
  <2>3. req' \in Nat /\ req' <= Earlier + 0 + 1 /\ req' >= 1 /\ 0 < Len(roster) /\ 0 <= Len(roster)
    BY <1>1, <1>2
  <2>. QED
    BY <1>1, <1>2, <2>1, <2>2, <2>3 DEF IInv, SimInv, Waiting, Up
<1>. QED
  BY <1>3, <1>4, <1>5, <1>6, <1>7 DEF IInv

LEMMA CurIs ==
  ASSUME SimInv, Waiting
  PROVE  Cur \in Addresses /\ Len(ids) + 1 \in 1..Len(roster)
<1>1. roster \in Seq(Addresses) /\ Len(roster) \in Nat /\ Len(ids) \in Nat /\ Len(ids) < Len(roster)
  BY RosterFacts, LenProperties DEF SimInv
<1>2. Len(ids) + 1 \in 1..Len(roster)
  BY <1>1
<1>. QED
  BY <1>1, <1>2, ElementOfSeq DEF Cur

(* The lookup of the Resolve under way, published or not, and the pc that  *)
(* follows.                                                                *)
LEMMA LookupStep ==
  ASSUME IInv, pc = "publish", pc' \in {"wait", "backoff"},
         Submit("lookup_requested", req, Cur, NoMaster) \/ UNCHANGED queue,
         Fault \/ UNCHANGED faults,
         UNCHANGED <<bound, seen, rows, minted, suppressed, tombstones, held, erased,
                     outbox, parked, asked>>,
         UNCHANGED <<roster, ids, req, ch, replies, timingSeen, marked, crashes>>
  PROVE  IInv'
<1>1. Waiting /\ Waiting' /\ Up /\ Up' /\ Cur' = Cur
  BY DEF Waiting, Up, Cur
<1>2. /\ MaxReq \in Nat /\ req \in Nat /\ req >= 1 /\ minted \in Seq(Mailboxes)
      /\ Len(minted) \in Nat
  BY <1>1, ReqBound, LenProperties DEF IInv, TableInv, SimInv
<1>3. queue' \in Seq(Messages) /\ Len(queue') <= MaxQueue
  <2>1. CASE UNCHANGED queue
    BY <2>1 DEF IInv, QueueInv
  <2>2. CASE Submit("lookup_requested", req, Cur, NoMaster)
    BY <2>2, <1>1, <1>2, CurIs, SubmitStep DEF IInv, NoMaster
  <2>. QED
    BY <2>1, <2>2
<1>4. /\ Messages \subseteq Messages'
      /\ Answers({0}) \subseteq Answers({0})' /\ Answers(Tries) \subseteq Answers(Tries)'
  BY <1>1, <1>2, InFlightKept
<1>5. QueueInv'
  BY <1>3, <1>4, SeqMonotonic DEF QueueInv
<1>6. ReplyInv'
  <2>1. outbox \in Seq(Answers({0})') /\ replies \in Seq(Answers(Tries)')
    BY <1>4, SeqMonotonic DEF IInv, ReplyInv
  <2>. QED
    BY <2>1 DEF IInv, ReplyInv
<1>7. TableInv'
  BY TableKept DEF IInv
<1>8. PlainInv'
  <2>1. faults' \in 0..MaxFaults
    BY FaultStep DEF IInv, PlainInv
  <2>. QED
    BY <2>1 DEF IInv, PlainInv, MaxReq
<1>9. SimInv'
  BY <1>1 DEF IInv, SimInv, RightId, Earlier, Up, Waiting
<1>10. ChannelInv'
  BY <1>1, ChannelKept DEF IInv
<1>. QED
  BY <1>5, <1>6, <1>7, <1>8, <1>9, <1>10 DEF IInv

(* pc moves, nothing else.                                                 *)
LEMMA PcStep ==
  ASSUME IInv, Waiting, pc' \in {"publish", "failed"},
         UNCHANGED <<identityVars, roster, ids, req, ch, replies, timingSeen, marked, crashes>>
  PROVE  IInv'
<1>1. UNCHANGED <<bound, queue, seen, rows, minted, suppressed, tombstones, held, erased,
                  outbox, parked, asked, faults>>
  BY DEF identityVars
<1>2. req \in Nat /\ req <= Earlier + Len(roster) /\ req <= req
  BY ReqBound DEF IInv
<1>3. QueueInv' /\ ReplyInv'
  BY <1>1, <1>2, NewRequest
<1>4. TableInv'
  BY <1>1, TableKept DEF IInv
<1>5. PlainInv'
  BY <1>1 DEF IInv, PlainInv, MaxReq
<1>6. SimInv'
  BY <1>1, <1>2 DEF IInv, SimInv, RightId, Earlier, Up, Waiting
<1>7. ChannelInv'
  BY <1>1, ChannelKept DEF IInv
<1>. QED
  BY <1>3, <1>4, <1>5, <1>6, <1>7 DEF IInv

LEMMA ReceiveStep ==
  ASSUME IInv, Receive
  PROVE  IInv'
<1>. DEFINE n == Len(ids)
            k == ch[1]
<1>1. /\ pc = "wait" /\ ch # <<>> /\ Waiting /\ Up
      /\ UNCHANGED <<roster, replies, timingSeen, marked, crashes>>
      /\ UNCHANGED <<bound, queue, seen, rows, minted, suppressed, tombstones, held, erased,
                     outbox, parked, asked, faults>>
      /\ ch' = <<>>
      /\ IF Len(ids') < Len(roster) THEN req' = req + 1 /\ pc' = "publish"
         ELSE req' = req /\ pc' = "ready"
  BY DEF Receive, NextResolve, identityVars, Waiting, Up
<1>2. /\ req \in Nat /\ req >= 1 /\ Earlier \in Nat /\ Len(roster) \in Nat /\ n \in Nat /\ n < Len(roster)
      /\ req <= Earlier + n + 1 /\ req <= Earlier + Len(roster)
  BY <1>1, ReqBound DEF IInv, SimInv
<1>3. k \in DOMAIN minted /\ minted[k] = Normalized[Cur] /\ Head(ch) = k
  <2>1. ch \in Seq(DOMAIN minted) /\ Len(ch) \in Nat \ {0}
    BY <1>1, EmptySeq DEF IInv, ChannelInv
  <2>2. k \in DOMAIN minted
    BY <2>1, ElementOfSeq
  <2>. QED
    BY <2>1, <2>2, <1>1 DEF IInv, ChannelInv
<1>4. ids \in Seq(Nat) /\ k \in Nat
  BY <1>3, LenProperties DEF IInv, SimInv, TableInv
<1>. HIDE DEF k
<1>5. /\ ids' \in Seq(Nat) /\ Len(ids') = n + 1
      /\ \A i \in 1..n : ids'[i] = ids[i]
      /\ ids'[n + 1] = k
  <2>1. ids' = Append(ids, k)
    BY <1>3 DEF Receive
  <2>. QED
    BY <2>1, <1>4, AppendProperties
<1>6. RightId'
  <2>1. DOMAIN ids = 1..n /\ DOMAIN ids' = 1..(n + 1)
    BY <1>4, <1>5, LenProperties
  <2>2. \A i \in 1..n : ids[i] \in DOMAIN minted /\ minted[ids[i]] = Normalized[roster[i]]
    BY <2>1 DEF IInv, SimInv, RightId
  <2>3. minted[k] = Normalized[roster[n + 1]]
    BY <1>3 DEF Cur
  <2>4. \A i \in 1..(n + 1) : i \in 1..n \/ i = n + 1
    BY <1>2
  <2>. HIDE DEF n
  <2>5. \A i \in 1..(n + 1) : ids'[i] \in DOMAIN minted /\ minted[ids'[i]] = Normalized[roster[i]]
    BY <2>2, <2>3, <2>4, <1>3, <1>5
  <2>. QED
    BY <2>1, <2>5, <1>1 DEF RightId
<1>7. /\ req' \in Nat /\ req <= req' /\ req' >= 1 /\ Len(ids') <= Len(roster)
      /\ req' = req => ~Waiting'
      /\ Waiting' => Len(ids') < Len(roster) /\ req' <= Earlier + Len(ids') + 1
      /\ pc' \in {"ready", "failed"} => req' <= Earlier + Len(roster)
      /\ pc' \in {"publish", "ready"}
  <2>1. CASE Len(ids') < Len(roster)
    BY <2>1, <1>1, <1>2, <1>5 DEF Waiting
  <2>2. CASE ~(Len(ids') < Len(roster))
    BY <2>2, <1>1, <1>2, <1>5 DEF Waiting
  <2>. QED
    BY <2>1, <2>2
<1>8. QueueInv' /\ ReplyInv'
  BY <1>1, <1>7, NewRequest
<1>9. TableInv'
  BY <1>1, TableKept DEF IInv
<1>10. PlainInv'
  BY <1>1 DEF IInv, PlainInv, MaxReq
<1>11. ChannelInv'
  BY <1>1, EmptySeq DEF ChannelInv
<1>12. SimInv'
  <2>1. Earlier' = Earlier
    BY <1>1 DEF Earlier
  <2>. QED
    BY <2>1, <1>1, <1>5, <1>6, <1>7 DEF IInv, SimInv, Up
<1>. QED
  BY <1>8, <1>9, <1>10, <1>11, <1>12 DEF IInv

LEMMA CrashStep ==
  ASSUME IInv, Crash
  PROVE  IInv'
<1>1. /\ crashes < MaxCrashes /\ crashes' = crashes + 1 /\ pc' = "down" /\ ids' = <<>>
      /\ ch' = <<>> /\ marked' = FALSE
      /\ UNCHANGED <<roster, req, replies, timingSeen>>
      /\ UNCHANGED <<bound, queue, seen, rows, minted, suppressed, tombstones, held, erased,
                     outbox, parked, asked, faults>>
  BY DEF Crash, identityVars
<1>2. /\ req \in Nat /\ req <= req /\ req <= Earlier + Len(roster) /\ Len(roster) \in Nat
      /\ crashes \in Nat /\ crashes' \in 0..MaxCrashes
  BY <1>1, ReqBound, IdsFacts DEF IInv, SimInv
<1>3. Earlier' = Earlier + Len(roster)
  BY <1>1, <1>2, TimesMonotonic DEF Earlier
<1>4. QueueInv' /\ ReplyInv'
  BY <1>1, <1>2, NewRequest DEF Waiting
<1>5. TableInv'
  BY <1>1, TableKept DEF IInv
<1>6. PlainInv'
  BY <1>1 DEF IInv, PlainInv, MaxReq
<1>7. ChannelInv'
  BY <1>1, EmptySeq DEF ChannelInv
<1>8. SimInv'
  <2>1. Len(ids') = 0 /\ ids' \in Seq(Nat) /\ RightId' /\ Len(ids') <= Len(roster)
    BY <1>1, <1>2, EmptySeq DEF RightId
  <2>. QED
    BY <2>1, <1>1, <1>2, <1>3 DEF IInv, SimInv, Waiting, Up
<1>. QED
  BY <1>4, <1>5, <1>6, <1>7, <1>8 DEF IInv

(* A step that only moves replies.                                         *)
LEMMA RepliesOnly ==
  ASSUME IInv, UNCHANGED <<roster, pc, ids, req, crashes>>,
         UNCHANGED <<bound, queue, seen, rows, minted, suppressed, tombstones, held,
                     erased, parked, asked>>,
         outbox' \in Seq(Answers({0})), Len(outbox') <= MaxReplies,
         replies' \in Seq(Answers(Tries)), Len(replies') <= MaxReplies,
         timingSeen' \subseteq Ids, faults' \in 0..MaxFaults,
         marked' \in BOOLEAN, marked' => Up /\ replies' # <<>>,
         ch' \in Seq(DOMAIN minted), Len(ch') <= 1,
         Waiting /\ ch' # <<>> => minted[ch'[1]] = Normalized[Cur]
  PROVE  IInv'
<1>1. Messages' = Messages /\ Answers({0})' = Answers({0}) /\ Answers(Tries)' = Answers(Tries)
  BY InFlightSame
<1>2. QueueInv'
  BY <1>1 DEF QueueInv, IInv
<1>3. ReplyInv'
  BY <1>1 DEF ReplyInv
<1>4. TableInv'
  BY TableKept DEF IInv
<1>5. SimInv'
  BY SimKept DEF IInv
<1>6. ChannelInv'
  BY DEF ChannelInv, Waiting, Cur
<1>7. PlainInv'
  BY DEF IInv, PlainInv, MaxReq
<1>. QED
  BY <1>2, <1>3, <1>4, <1>5, <1>6, <1>7 DEF IInv

LEMMA RepIs ==
  ASSUME ReplyInv, replies # <<>>
  PROVE  /\ Rep \in Answers(Tries) /\ Tail(replies) \in Seq(Answers(Tries))
         /\ Len(replies) \in Nat /\ Len(Tail(replies)) = Len(replies) - 1
         /\ Len(Tail(replies)) <= MaxReplies
         /\ Rep.id \in Ids /\ Rep.tries \in Tries /\ Rep.master \in DOMAIN minted
         /\ Waiting /\ Rep.req = req => minted[Rep.master] = Normalized[Cur]
<1>1. /\ Rep \in Answers(Tries) /\ Tail(replies) \in Seq(Answers(Tries))
      /\ Len(replies) \in Nat /\ Len(Tail(replies)) = Len(replies) - 1
  BY HeadTailProperties, LenProperties DEF ReplyInv, Rep
<1>2. Len(Tail(replies)) <= MaxReplies
  BY <1>1, IdsFacts DEF ReplyInv
<1>3. Rep.id \in Ids /\ Rep.tries \in Tries
  BY <1>1 DEF Answers, AnswerType
<1>4. /\ Rep.master \in DOMAIN minted
      /\ Waiting /\ Rep.req = req => minted[Rep.master] = Normalized[Cur]
  BY <1>1 DEF Answers
<1>. QED
  BY <1>1, <1>2, <1>3, <1>4

LEMMA ChannelFacts ==
  ASSUME IInv
  PROVE  /\ ch \in Seq(DOMAIN minted) /\ Len(ch) <= 1
         /\ Waiting /\ ch # <<>> => minted[ch[1]] = Normalized[Cur]
         /\ outbox \in Seq(Answers({0})) /\ Len(outbox) <= MaxReplies
         /\ replies \in Seq(Answers(Tries)) /\ Len(replies) <= MaxReplies
         /\ timingSeen \subseteq Ids /\ faults \in 0..MaxFaults /\ marked \in BOOLEAN
         /\ marked => Up /\ replies # <<>>
BY DEF IInv, ChannelInv, ReplyInv, PlainInv, SimInv

LEMMA SettleReplyStep ==
  ASSUME IInv, replies # <<>>, SettleReply
  PROVE  /\ replies' \in Seq(Answers(Tries)) /\ Len(replies') <= MaxReplies
         /\ timingSeen' \subseteq Ids /\ faults' \in 0..MaxFaults
<1>1. replies' = Tail(replies) \/ replies' = replies
  BY DEF SettleReply
<1>2. timingSeen' \subseteq timingSeen
  BY DEF SettleReply
<1>3. faults' \in 0..MaxFaults
  BY FaultStep, ChannelFacts DEF SettleReply
<1>. QED
  BY <1>1, <1>2, <1>3, RepIs, ChannelFacts DEF IInv

LEMMA PublishReplyStep ==
  ASSUME IInv, PublishReply
  PROVE  IInv'
<1>. DEFINE x == Head(outbox)
<1>1. /\ outbox # <<>> /\ Len(replies) < MaxReplies /\ replies' = Append(replies, x)
      /\ outbox' = Tail(outbox) \/ outbox' = outbox
      /\ UNCHANGED <<roster, pc, ids, req, ch, timingSeen, marked, crashes>>
      /\ UNCHANGED <<bound, queue, seen, rows, minted, suppressed, tombstones, held,
                     erased, parked, asked>>
  BY DEF PublishReply
<1>2. /\ x \in Answers({0}) /\ Tail(outbox) \in Seq(Answers({0}))
      /\ Len(outbox) \in Nat /\ Len(Tail(outbox)) = Len(outbox) - 1
  BY <1>1, ChannelFacts, HeadTailProperties, LenProperties
<1>3. x \in Answers(Tries)
  <2>. HIDE DEF x
  <2>1. AnswerType({0}) \subseteq AnswerType(Tries)
    BY IdsFacts DEF AnswerType
  <2>. QED
    BY <2>1, <1>2 DEF Answers
<1>. HIDE DEF x
<1>4. /\ replies' \in Seq(Answers(Tries)) /\ Len(replies') = Len(replies) + 1 /\ replies' # <<>>
      /\ Len(replies) \in Nat
  BY <1>1, <1>3, ChannelFacts, AppendProperties, LenProperties, SMTT(30)
<1>5. Len(replies') <= MaxReplies
  BY <1>1, <1>4, IdsFacts
<1>6. outbox' \in Seq(Answers({0})) /\ Len(outbox') <= MaxReplies
  <2>1. Len(outbox) <= MaxReplies /\ MaxReplies \in Nat
    BY ChannelFacts, IdsFacts
  <2>2. Len(Tail(outbox)) <= MaxReplies
    BY <2>1, <1>2
  <2>. QED
    BY <2>2, <1>1, <1>2, ChannelFacts
<1>7. faults' \in 0..MaxFaults
  BY FaultStep, ChannelFacts DEF PublishReply
<1>. QED
  BY <1>1, <1>4, <1>5, <1>6, <1>7, RepliesOnly, ChannelFacts

LEMMA MarkSeenStep ==
  ASSUME IInv, MarkSeen
  PROVE  IInv'
<1>1. /\ Up /\ replies # <<>> /\ marked' = TRUE /\ timingSeen' = timingSeen \cup {Rep.id}
      /\ UNCHANGED <<roster, pc, ids, req, ch, replies, crashes>>
      /\ UNCHANGED <<bound, queue, seen, rows, minted, suppressed, tombstones, held, erased,
                     outbox, parked, asked, faults>>
  BY DEF MarkSeen, identityVars
<1>2. timingSeen' \subseteq Ids
  BY <1>1, RepIs, ChannelFacts DEF IInv
<1>3. marked' \in BOOLEAN
  BY <1>1
<1>. QED
  BY <1>1, <1>2, <1>3, RepliesOnly, ChannelFacts

(* The signal: what the waiter finds answers the Resolve under way.        *)
LEMMA DeliverReplyStep ==
  ASSUME IInv, DeliverReply
  PROVE  IInv'
<1>1. /\ marked /\ marked' = FALSE /\ Signal(Rep) /\ SettleReply
      /\ UNCHANGED <<roster, pc, ids, req, crashes>>
      /\ UNCHANGED <<bound, queue, seen, rows, minted, suppressed, tombstones, held,
                     erased, outbox, parked, asked>>
  BY DEF DeliverReply
<1>2. replies # <<>>
  BY <1>1, ChannelFacts
<1>3. /\ replies' \in Seq(Answers(Tries)) /\ Len(replies') <= MaxReplies
      /\ timingSeen' \subseteq Ids /\ faults' \in 0..MaxFaults
  BY <1>1, <1>2, SettleReplyStep
<1>4. /\ Rep.master \in DOMAIN minted
      /\ Waiting /\ Rep.req = req => minted[Rep.master] = Normalized[Cur]
  BY <1>2, RepIs DEF IInv
<1>5. /\ ch' \in Seq(DOMAIN minted) /\ Len(ch') <= 1
      /\ Waiting /\ ch' # <<>> => minted[ch'[1]] = Normalized[Cur]
  <2>1. CASE ch' = ch
    BY <2>1, ChannelFacts
  <2>2. CASE Waiting /\ Rep.req = req /\ ch' = <<Rep.master>>
    <3>. DEFINE k == Rep.master
    <3>1. k \in DOMAIN minted /\ ch' = <<k>> /\ minted[k] = Normalized[Cur]
      BY <2>2, <1>4
    <3>. HIDE DEF k
    <3>. QED
      BY <3>1
  <2>. QED
    BY <2>1, <2>2, <1>1 DEF Signal
<1>6. marked' \in BOOLEAN
  BY <1>1
<1>. QED
  BY <1>1, <1>3, <1>5, <1>6, RepliesOnly, ChannelFacts

LEMMA DeliverDuplicateStep ==
  ASSUME IInv, DeliverDuplicate
  PROVE  IInv'
<1>1. /\ replies # <<>> /\ ~marked /\ SettleReply
      /\ UNCHANGED <<roster, pc, ids, req, ch, marked, crashes>>
      /\ UNCHANGED <<bound, queue, seen, rows, minted, suppressed, tombstones, held,
                     erased, outbox, parked, asked>>
  BY DEF DeliverDuplicate
<1>2. /\ replies' \in Seq(Answers(Tries)) /\ Len(replies') <= MaxReplies
      /\ timingSeen' \subseteq Ids /\ faults' \in 0..MaxFaults
  BY <1>1, SettleReplyStep
<1>. QED
  BY <1>1, <1>2, RepliesOnly, ChannelFacts

LEMMA DeliverFailsStep ==
  ASSUME IInv, DeliverFails
  PROVE  IInv'
<1>1. /\ replies # <<>> /\ ~marked /\ Fault
      /\ replies' = IF Rep.tries + 1 >= MaxAttempts THEN Tail(replies)
                    ELSE Append(Tail(replies), Retried(Rep))
      /\ timingSeen' \subseteq timingSeen
      /\ UNCHANGED <<roster, pc, ids, req, ch, marked, crashes>>
      /\ UNCHANGED <<bound, queue, seen, rows, minted, suppressed, tombstones, held,
                     erased, outbox, parked, asked>>
  BY DEF DeliverFails
<1>2. faults' \in 0..MaxFaults
  BY <1>1, FaultStep, ChannelFacts
<1>. DEFINE x == Rep
            q == Tail(replies)
<1>3. /\ x \in Answers(Tries) /\ x.tries \in Tries /\ q \in Seq(Answers(Tries))
      /\ Len(replies) \in Nat /\ Len(q) = Len(replies) - 1 /\ Len(q) <= MaxReplies
      /\ Len(replies) <= MaxReplies
      /\ replies' = IF x.tries + 1 >= MaxAttempts THEN q ELSE Append(q, Retried(x))
  BY <1>1, RepIs, ChannelFacts DEF IInv
<1>. HIDE DEF x, q
<1>4. ~(x.tries + 1 >= MaxAttempts) => Retried(x) \in Answers(Tries)
  <2>. SUFFICES ASSUME ~(x.tries + 1 >= MaxAttempts) PROVE Retried(x) \in Answers(Tries)
    OBVIOUS
  <2>1. x.tries + 1 \in Tries
    BY <1>3, IdsFacts DEF Tries
  <2>2. x \in AnswerType(Tries)
    BY <1>3 DEF Answers
  <2>3. Retried(x) \in AnswerType(Tries)
    BY <2>1, <2>2 DEF AnswerType, Retried
  <2>4. Retried(x).req = x.req /\ Retried(x).master = x.master
    BY <2>2 DEF AnswerType, Retried
  <2>. QED
    BY <2>3, <2>4, <1>3 DEF Answers
<1>5. replies' \in Seq(Answers(Tries)) /\ Len(replies') <= MaxReplies
  <2>1. CASE x.tries + 1 >= MaxAttempts
    BY <2>1, <1>3
  <2>2. CASE ~(x.tries + 1 >= MaxAttempts)
    <3>1. replies' \in Seq(Answers(Tries)) /\ Len(replies') = Len(q) + 1
      BY <2>2, <1>3, <1>4, AppendProperties
    <3>. QED
      BY <3>1, <1>3
  <2>. QED
    BY <2>1, <2>2
<1>6. timingSeen' \subseteq Ids
  BY <1>1, ChannelFacts
<1>. QED
  BY <1>1, <1>2, <1>5, <1>6, RepliesOnly, ChannelFacts

-----------------------------------------------------------------------------
LEMMA InitIInv == Init => IInv
<1>. SUFFICES ASSUME Init PROVE IInv
  OBVIOUS
<1>. USE DEF Init, IdentityInit
<1>1. /\ roster \in Rosters /\ Len(roster) \in Nat /\ Len(roster) >= 1
  BY RosterFacts
<1>2. PlainInv
  <2>1. bound \in BOOLEAN /\ marked \in BOOLEAN
    OBVIOUS
  <2>. QED
    BY <2>1, IdsFacts DEF PlainInv
<1>3. QueueInv /\ ReplyInv
  BY EmptySeq, IdsFacts DEF QueueInv, ReplyInv
<1>4. TableInv
  <2>1. minted \in Seq(Mailboxes) /\ DOMAIN minted = {}
    BY EmptySeq
  <2>2. rows \in [Mailboxes -> Nat] /\ \A b \in Mailboxes : rows[b] = 0
    BY DEF NoMaster
  <2>. QED
    BY <2>1, <2>2 DEF TableInv, OneIdPerMailbox, ErasedForGood
<1>5. SimInv
  <2>1. Earlier = 0
    BY <1>1 DEF Earlier
  <2>2. ids \in Seq(Nat) /\ Len(ids) = 0 /\ DOMAIN ids = {}
    BY EmptySeq
  <2>. QED
    BY <2>1, <2>2, <1>1, IdsFacts DEF SimInv, RightId, Waiting, Up
<1>6. ChannelInv
  BY EmptySeq DEF ChannelInv
<1>. QED
  BY <1>2, <1>3, <1>4, <1>5, <1>6 DEF IInv

LEMMA StepIInv ==
  ASSUME IInv, [Next]_vars
  PROVE  IInv'
<1>1. CASE IdentityNext(InFlight) /\ UNCHANGED timingVars
  BY <1>1, IdentityStep
<1>2. CASE Start
  BY <1>2, StartStep
<1>3. CASE PublishLookup \/ PublishFails
  BY <1>3, LookupStep DEF PublishLookup, PublishFails
<1>4. CASE PublishPermanentError \/ RetryDue
  BY <1>4, PcStep DEF PublishPermanentError, RetryDue, Waiting
<1>5. CASE Receive \/ Crash
  BY <1>5, ReceiveStep, CrashStep
<1>6. CASE PublishReply \/ MarkSeen
  BY <1>6, PublishReplyStep, MarkSeenStep
<1>7. CASE DeliverReply \/ DeliverDuplicate \/ DeliverFails
  BY <1>7, DeliverReplyStep, DeliverDuplicateStep, DeliverFailsStep
<1>8. CASE UNCHANGED vars
  <2>1. UNCHANGED timingVars /\ UNCHANGED identityVars
    BY <1>8 DEF vars, timingVars
  <2>2. UNCHANGED <<bound, queue, seen, rows, minted, suppressed, tombstones, held, erased,
                    outbox, parked, asked, faults>>
    BY <2>1 DEF identityVars
  <2>3. PlainInv'
    BY <2>1, <2>2 DEF IInv, PlainInv, timingVars, MaxReq
  <2>. QED
    BY <2>1, <2>2, <2>3, QueueOnly DEF IInv, QueueInv
<1>. QED
  BY <1>1, <1>2, <1>3, <1>4, <1>5, <1>6, <1>7, <1>8 DEF Next

(* The inductive invariant.                                                *)
THEOREM Invariant == Spec => []IInv
<1>. QED
  BY InitIInv, StepIInv, PTL DEF Spec

(* One mailbox gets one masterId, ever, and an erased one none again       *)
(* (ResolveOrMint, IsEmailSuppressed).                                     *)
THEOREM MailboxHasOneId == Spec => []OneIdPerMailbox
<1>1. IInv => OneIdPerMailbox
  BY DEF IInv, TableInv
<1>. QED
  BY <1>1, Invariant, PTL

(* A driver goes on track under the masterId of its own mailbox, whichever *)
(* of the replies reached the waiter (Resolve, Deliver).                   *)
THEOREM DriverGetsRightId == Spec => []RightId
<1>1. IInv => RightId
  BY DEF IInv, SimInv
<1>. QED
  BY <1>1, Invariant, PTL

(* Once privacy.erased is enqueued Identity keeps no row for the masterId, *)
(* and blocks its mailbox (DeleteSlice).                                   *)
THEOREM ErasureIsForGood == Spec => []ErasedForGood
<1>1. IInv => ErasedForGood
  BY DEF IInv, TableInv
<1>. QED
  BY <1>1, Invariant, PTL

LEMMA IInvType == IInv => TypeOK
<1>. SUFFICES ASSUME IInv PROVE TypeOK
  OBVIOUS
<1>1. /\ MaxReq \in Nat /\ req \in 0..MaxReq /\ minted \in Seq(Mailboxes)
  BY ReqBound DEF IInv, TableInv
<1>2. /\ Len(minted) \in Nat /\ Len(minted) <= Cardinality(Mailboxes)
      /\ DOMAIN minted = 1..Len(minted)
  BY <1>1, MintedBound, LenProperties DEF IInv, TableInv
<1>3. DOMAIN minted \subseteq Masters /\ 0..Len(minted) \subseteq Masters /\ 0 \in Masters
  BY <1>2, MailboxesFinite DEF Masters
<1>4. rows \in [Mailboxes -> Masters]
  BY <1>3 DEF IInv, TableInv
<1>5. erased \subseteq Masters /\ suppressed \subseteq Mailboxes
  BY <1>3 DEF IInv, TableInv
<1>6. ids \in Seq(Masters)
  <2>1. ids \in Seq(Nat) /\ DOMAIN ids = 1..Len(ids) /\ Len(ids) \in Nat
    BY LenProperties DEF IInv, SimInv
  <2>2. \A i \in 1..Len(ids) : ids[i] \in Masters
    BY <2>1, <1>3 DEF IInv, SimInv, RightId
  <2>. QED
    BY <2>1, <2>2
<1>7. ch \in Seq(Masters) /\ Len(ch) <= 1
  BY <1>3, SeqMonotonic, ChannelFacts
<1>8. queue \in Seq(MsgType) /\ Len(queue) <= MaxQueue
  <2>1. Messages \subseteq MsgType
    BY DEF Messages
  <2>. QED
    BY <2>1, SeqMonotonic DEF IInv, QueueInv
<1>9. outbox \in Seq(AnswerType({0})) /\ replies \in Seq(AnswerType(Tries))
  <2>1. Answers({0}) \subseteq AnswerType({0}) /\ Answers(Tries) \subseteq AnswerType(Tries)
    BY DEF Answers
  <2>. QED
    BY <2>1, SeqMonotonic, ChannelFacts
<1>10. /\ queue \in Seq([id : Ids, type : {"lookup_requested", "erasure_requested"},
                          req : 0..MaxReq, addr : Addresses, master : Masters,
                          tries : 0..(MaxAttempts - 1)])
       /\ outbox \in Seq([id : Ids, req : 1..MaxReq, master : Masters, tries : {0}])
       /\ replies \in Seq([id : Ids, req : 1..MaxReq, master : Masters,
                            tries : 0..(MaxAttempts - 1)])
  BY <1>8, <1>9 DEF MsgType, AnswerType, Tries
<1>. QED
  BY <1>1, <1>4, <1>5, <1>6, <1>7, <1>8, <1>10 DEF IInv, PlainInv, SimInv, TypeOK

(* Types, and the bounds on the requests, on the ids in flight and on the  *)
(* masterIds: there are never more of them than mailboxes.                 *)
THEOREM Typing == Spec => []TypeOK
<1>. QED
  BY Invariant, IInvType, PTL
=============================================================================
