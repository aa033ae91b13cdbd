------------------------ MODULE PersonalRecordProofs ------------------------
(***************************************************************************)
(* The safety of the two copies of a record, for every set of lap times,   *)
(* any number of laps and any number of retried refreshes, as long as      *)
(* Timing is not interrupted between two transactions.                     *)
(***************************************************************************)
EXTENDS PersonalRecord, SequenceTheorems, TLAPS

Events == [kind : {"lap.recorded", "personal_record.broken"}, lap : Nat, ms : Times]

TypeInv ==
  /\ laps \in Seq(Times)
  /\ pc \in {"idle", "observe", "broken"}
  /\ pc # "idle" => laps # <<>>
  /\ local \in Times \cup {NoTime}
  /\ best \in Times \cup {NoTime}
  /\ canon \in Times \cup {NoTime}
  /\ toDriver \subseteq Events
  /\ updates \in Seq(Times)
  /\ retrying \subseteq Times
  /\ retries \in Nat

Confirmed(t) == canon # NoTime /\ canon <= t

(* A break at least as fast as t is about to be enqueued, or on its way.   *)
Announced(t) ==
  \/ pc = "broken" /\ Cur <= t
  \/ \E m \in toDriver : m.kind = "personal_record.broken" /\ m.ms <= t

(* What Timing holds for the record, and every lap it has examined, is     *)
(* confirmed or announced.                                                 *)
LocalInv == local # NoTime => Confirmed(local) \/ Announced(local)

LapsInv ==
  \A i \in DOMAIN laps :
    i < Len(laps) \/ pc # "observe" => Confirmed(laps[i]) \/ Announced(laps[i])

(* No update that still travels is faster than the canonical record.       *)
UpdatesInv ==
  /\ \A i \in DOMAIN updates : Confirmed(updates[i])
  /\ \A ms \in retrying : Confirmed(ms)

(* Without a retry, the last update on its way is the canonical record;    *)
(* with none on its way, Timing is ahead of Driver only by a break that    *)
(* has been announced.                                                     *)
InOrderInv ==
  retries = 0 =>
    /\ retrying = {}
    /\ updates # <<>> => canon = updates[Len(updates)]
    /\ updates = <<>> =>
         \/ local = canon
         \/ local # NoTime /\ Beats(local, canon) /\ Announced(local)

IInv == TypeInv /\ LocalInv /\ LapsInv /\ UpdatesInv /\ InOrderInv

USE DEF NoTime

LEMMA InitIInv == Init => IInv
BY RecordConstantsOK DEF Init, IInv, TypeInv, LocalInv, LapsInv, UpdatesInv, InOrderInv

(* The order of the times: a fact the provers need apart from the records  *)
(* that carry them.                                                        *)
LEMMA TimesOrder ==
  /\ NoTime \notin Times
  /\ \A a, b, c \in Times : a <= b /\ b <= c => a <= c
  /\ \A a, b, c \in Times : a < b /\ b <= c => ~ (c <= a)
  /\ \A a, b \in Times : a < b => a <= b
  /\ \A a, b \in Times : ~ (a < b) => b <= a
  /\ \A a \in Times : a <= a
BY RecordConstantsOK

(* What covers a time covers a slower one.                                 *)
LEMMA AnnouncedSlower ==
  ASSUME TypeInv, NEW s \in Times, NEW t \in Times, s <= t, Announced(s)
  PROVE  Announced(t)
<1>. USE RecordConstantsOK
<1>1. CASE pc = "broken" /\ Cur <= s
  <2>1. Cur \in Times
    BY <1>1 DEF TypeInv, Cur
  <2>2. Cur <= t
    BY <2>1, <1>1
  <2>. QED
    BY <2>2, <1>1 DEF Announced
<1>2. CASE \E m \in toDriver : m.kind = "personal_record.broken" /\ m.ms <= s
  <2>1. PICK m \in toDriver : m.kind = "personal_record.broken" /\ m.ms <= s
    BY <1>2
  <2>2. m.ms \in Times
    BY DEF TypeInv, Events
  <2>3. m.ms <= t
    BY <2>1, <2>2, TimesOrder, Zenon
  <2>. QED
    BY <2>1, <2>3 DEF Announced
<1>. QED
  BY <1>1, <1>2 DEF Announced

(* A lap that is added leaves the earlier ones in their places.            *)
LEMMA EnqueueLapPreserves == IInv /\ EnqueueLap => IInv'
<1>. SUFFICES ASSUME IInv, EnqueueLap PROVE IInv'
  OBVIOUS
<1>. USE RecordConstantsOK
<1>1. PICK ms \in Times :
        /\ laps' = Append(laps, ms)
        /\ toDriver' = toDriver \cup
             {[kind |-> "lap.recorded", lap |-> Len(laps) + 1, ms |-> ms]}
  BY DEF EnqueueLap
<1>2. TypeInv'
  BY <1>1 DEF IInv, TypeInv, EnqueueLap, Events
<1>3. \A t \in Times : Announced(t) => Announced(t)'
  BY <1>1 DEF EnqueueLap, Announced
<1>4. \A t \in Times : Confirmed(t) <=> Confirmed(t)'
  BY DEF EnqueueLap, Confirmed
<1>5. LocalInv'
  BY <1>3, <1>4 DEF IInv, LocalInv, EnqueueLap, TypeInv
<1>6. LapsInv'
  <2>1. \A i \in DOMAIN laps' : i < Len(laps') => i \in DOMAIN laps /\ laps'[i] = laps[i]
    BY <1>1 DEF IInv, TypeInv
  <2>2. \A i \in DOMAIN laps : laps[i] \in Times
    BY DEF IInv, TypeInv
  <2>. QED
    BY <2>1, <2>2, <1>3, <1>4 DEF IInv, LapsInv, EnqueueLap
<1>7. UpdatesInv'
  BY <1>4 DEF IInv, UpdatesInv, EnqueueLap, Confirmed
<1>8. InOrderInv'
  BY <1>3 DEF IInv, InOrderInv, EnqueueLap, TypeInv, Beats
<1>. QED
  BY <1>2, <1>5, <1>6, <1>7, <1>8 DEF IInv

(* The lap at hand beats the record, and is about to be announced, or the  *)
(* record that it did not beat covers it.                                  *)
LEMMA ObserveLapPreserves == IInv /\ ObserveLap => IInv'
<1>. SUFFICES ASSUME IInv, ObserveLap PROVE IInv'
  OBVIOUS
<1>. USE RecordConstantsOK
<1>1. Cur \in Times /\ Cur' = Cur /\ laps' = laps
  BY DEF IInv, TypeInv, ObserveLap, Cur
<1>2. TypeInv'
  BY <1>1 DEF IInv, TypeInv, ObserveLap
<1>3. \A t \in Times : Confirmed(t) <=> Confirmed(t)'
  BY DEF ObserveLap, Confirmed
<1>4. \A t \in Times : Announced(t) => Announced(t)'
  BY DEF ObserveLap, Announced
<1>5. Confirmed(Cur)' \/ Announced(Cur)'
  <2>1. CASE Beats(Cur, local)
    BY <2>1, <1>1 DEF ObserveLap, Announced
  <2>2. CASE ~ Beats(Cur, local)
    <3>1. local \in Times /\ local <= Cur
      BY <2>2, <1>1 DEF IInv, TypeInv, Beats
    <3>2. Confirmed(local) \/ Announced(local)
      BY <3>1 DEF IInv, LocalInv
    <3>3. Confirmed(Cur) \/ Announced(Cur)
      <4>1. Confirmed(local) => Confirmed(Cur)
        BY <3>1, <1>1 DEF Confirmed, IInv, TypeInv
      <4>2. Announced(local) => Announced(Cur)
        BY <3>1, <1>1, AnnouncedSlower DEF IInv
      <4>. QED
        BY <3>2, <4>1, <4>2
    <3>. QED
      BY <3>3, <1>1, <1>3, <1>4
  <2>. QED
    BY <2>1, <2>2
<1>6. LocalInv'
  <2>1. CASE Beats(Cur, local)
    BY <2>1, <1>1, <1>5 DEF ObserveLap, LocalInv, Confirmed, Announced
  <2>2. CASE ~ Beats(Cur, local)
    BY <2>2, <1>3, <1>4 DEF IInv, TypeInv, LocalInv, ObserveLap
  <2>. QED
    BY <2>1, <2>2
<1>7. LapsInv'
  <2>. SUFFICES ASSUME NEW i \in DOMAIN laps
                PROVE  Confirmed(laps[i])' \/ Announced(laps[i])'
    BY <1>1 DEF LapsInv
  <2>1. laps[i] \in Times /\ laps'[i] = laps[i]
    BY <1>1 DEF IInv, TypeInv
  <2>2. CASE i = Len(laps)
    BY <2>2, <1>5, <1>1 DEF Cur, Confirmed, Announced
  <2>3. CASE i # Len(laps)
    <3>1. i < Len(laps)
      BY <2>3 DEF IInv, TypeInv
    <3>2. Confirmed(laps[i]) \/ Announced(laps[i])
      BY <3>1 DEF IInv, LapsInv
    <3>3. Confirmed(laps[i])' <=> Confirmed(laps[i])
      BY <2>1 DEF Confirmed, ObserveLap
    <3>4. Announced(laps[i]) => Announced(laps[i])'
      BY <2>1, <1>1 DEF Announced, ObserveLap
    <3>. QED
      BY <3>2, <3>3, <3>4
  <2>. QED
    BY <2>2, <2>3
<1>8. UpdatesInv'
  BY DEF IInv, UpdatesInv, ObserveLap, Confirmed
<1>9. InOrderInv'
  <2>1. CASE Beats(Cur, local)
    <3>1. local' = Cur /\ pc' = "broken"
      BY <2>1 DEF ObserveLap
    <3>2. Announced(local)'
      BY <3>1, <1>1 DEF Announced
    <3>3. updates = <<>> /\ retries = 0 => Beats(Cur, canon)
      BY <2>1, <1>1 DEF IInv, TypeInv, InOrderInv, Beats
    <3>. QED
      BY <3>1, <3>2, <3>3, <1>1 DEF IInv, InOrderInv, ObserveLap, Beats
  <2>2. CASE ~ Beats(Cur, local)
    BY <2>2, <1>4 DEF IInv, InOrderInv, TypeInv, ObserveLap, Beats
  <2>. QED
    BY <2>1, <2>2
<1>. QED
  BY <1>2, <1>6, <1>7, <1>8, <1>9 DEF IInv

(* The break moves from Timing's hand to the outbox.                       *)
LEMMA EnqueueBrokenPreserves == IInv /\ EnqueueBroken => IInv'
<1>. SUFFICES ASSUME IInv, EnqueueBroken PROVE IInv'
  OBVIOUS
<1>. USE RecordConstantsOK
<1>1. Cur \in Times /\ Len(laps) \in Nat
  BY DEF IInv, TypeInv, EnqueueBroken, Cur
<1>2. Event("personal_record.broken") \in Events
  BY <1>1 DEF Event, Events
<1>3. TypeInv'
  BY <1>2 DEF IInv, TypeInv, EnqueueBroken
<1>4. \A t \in Times : Announced(t) => Announced(t)'
  <2>. SUFFICES ASSUME NEW t \in Times, Announced(t) PROVE Announced(t)'
    OBVIOUS
  <2>. DEFINE b == Event("personal_record.broken")
  <2>1. b \in toDriver' /\ toDriver \subseteq toDriver'
    BY DEF EnqueueBroken
  <2>2. b.kind = "personal_record.broken" /\ b.ms = Cur
    BY DEF Event
  <2>. HIDE DEF b
  <2>3. CASE Cur <= t
    BY <2>1, <2>2, <2>3, Zenon DEF Announced
  <2>4. CASE \E e \in toDriver : e.kind = "personal_record.broken" /\ e.ms <= t
    BY <2>1, <2>4, Zenon DEF Announced
  <2>. QED
    BY <2>3, <2>4 DEF Announced
<1>5. \A t \in Times : Confirmed(t) <=> Confirmed(t)'
  BY DEF EnqueueBroken, Confirmed
<1>6. LocalInv'
  BY <1>4, <1>5 DEF IInv, TypeInv, LocalInv, EnqueueBroken
<1>7. LapsInv'
  <2>1. \A i \in DOMAIN laps : laps[i] \in Times
    BY DEF IInv, TypeInv
  <2>. QED
    BY <2>1, <1>4, <1>5 DEF IInv, LapsInv, EnqueueBroken
<1>8. UpdatesInv'
  BY DEF IInv, UpdatesInv, EnqueueBroken, Confirmed
<1>9. InOrderInv'
  BY <1>4 DEF IInv, InOrderInv, TypeInv, EnqueueBroken, Beats
<1>. QED
  BY <1>3, <1>6, <1>7, <1>8, <1>9 DEF IInv

(* Timing's second consumer: what it copies is confirmed.                  *)
LEMMA RefreshPreserves == IInv /\ Refresh => IInv'
<1>. SUFFICES ASSUME IInv, Refresh PROVE IInv'
  OBVIOUS
<1>. USE RecordConstantsOK
<1>1. /\ Head(updates) \in Times /\ Head(updates) = updates[1] /\ 1 \in DOMAIN updates
      /\ updates' \in Seq(Times) /\ Len(updates') = Len(updates) - 1
      /\ \A i \in DOMAIN updates' : i + 1 \in DOMAIN updates /\ updates'[i] = updates[i + 1]
  BY DEF IInv, TypeInv, Refresh
<1>2. TypeInv'
  BY <1>1 DEF IInv, TypeInv, Refresh, Cur
<1>3. Cur' = Cur
  BY DEF Refresh, Cur
<1>4. LocalInv'
  BY <1>1 DEF IInv, UpdatesInv, LocalInv, Refresh, Confirmed
<1>5. LapsInv'
  BY <1>3 DEF IInv, LapsInv, Refresh, Confirmed, Announced
<1>6. UpdatesInv'
  BY <1>1 DEF IInv, UpdatesInv, Refresh, Confirmed
<1>7. InOrderInv'
  <2>1. CASE updates' = <<>>
    <3>1. Len(updates) = 1
      BY <2>1, <1>1 DEF IInv, TypeInv
    <3>. QED
      BY <3>1, <2>1, <1>1 DEF IInv, InOrderInv, Refresh
  <2>2. CASE updates' # <<>>
    <3>1. Len(updates') \in DOMAIN updates'
      BY <2>2, <1>1
    <3>2. updates'[Len(updates')] = updates[Len(updates)]
      BY <3>1, <1>1 DEF IInv, TypeInv
    <3>. QED
      BY <3>2, <2>2 DEF IInv, InOrderInv, Refresh
  <2>. QED
    BY <2>1, <2>2
<1>. QED
  BY <1>2, <1>4, <1>5, <1>6, <1>7 DEF IInv

(* An update that is put off is still a confirmed one.                     *)
LEMMA RetryPreserves == IInv /\ (RefreshFails \/ RetryDue) => IInv'
<1>. SUFFICES ASSUME IInv, RefreshFails \/ RetryDue PROVE IInv'
  OBVIOUS
<1>. USE RecordConstantsOK
<1>1. CASE RefreshFails
  <2>1. /\ Head(updates) \in Times /\ Head(updates) = updates[1] /\ 1 \in DOMAIN updates
        /\ updates' \in Seq(Times)
        /\ \A i \in DOMAIN updates' : i + 1 \in DOMAIN updates /\ updates'[i] = updates[i + 1]
    BY <1>1 DEF IInv, TypeInv, RefreshFails
  <2>2. TypeInv'
    <3>1. retries \in Nat /\ retries' = retries + 1
      BY <1>1, Zenon DEF IInv, TypeInv, RefreshFails
    <3>2. retries' \in Nat
      BY <3>1
    <3>3. retrying' \subseteq Times
      BY <1>1, <2>1, Zenon DEF IInv, TypeInv, RefreshFails
    <3>. QED
      BY <1>1, <2>1, <3>2, <3>3, Zenon DEF IInv, TypeInv, RefreshFails
  <2>3. Cur' = Cur
    BY <1>1 DEF RefreshFails, Cur
  <2>4. LocalInv' /\ LapsInv'
    BY <1>1, <2>3 DEF IInv, LocalInv, LapsInv, RefreshFails, Confirmed, Announced
  <2>5. UpdatesInv'
    BY <1>1, <2>1 DEF IInv, UpdatesInv, RefreshFails, Confirmed
  <2>6. InOrderInv'
    BY <1>1 DEF IInv, TypeInv, InOrderInv, RefreshFails
  <2>. QED
    BY <2>2, <2>4, <2>5, <2>6 DEF IInv
<1>2. CASE RetryDue
  <2>1. PICK ms \in retrying : /\ retrying' = retrying \ {ms}
                               /\ updates' = Append(updates, ms)
                               /\ UNCHANGED <<laps, pc, local, toDriver, best, canon, retries>>
    BY <1>2 DEF RetryDue
  <2>2. TypeInv'
    BY <2>1 DEF IInv, TypeInv
  <2>3. Cur' = Cur
    BY <2>1 DEF Cur
  <2>4. LocalInv' /\ LapsInv'
    BY <2>1, <2>3 DEF IInv, LocalInv, LapsInv, Confirmed, Announced
  <2>5. UpdatesInv'
    BY <2>1 DEF IInv, TypeInv, UpdatesInv, Confirmed
  <2>6. InOrderInv'
    BY <2>1 DEF IInv, InOrderInv
  <2>. QED
    BY <2>2, <2>4, <2>5, <2>6 DEF IInv
<1>. QED
  BY <1>1, <1>2

(* The lap history only feeds a later confirmation.                        *)
LEMMA ProcessLapPreserves == IInv /\ ProcessLap => IInv'
<1>. SUFFICES ASSUME IInv, ProcessLap PROVE IInv'
  OBVIOUS
<1>. USE RecordConstantsOK
<1>1. PICK m \in toDriver :
        /\ m.kind = "lap.recorded"
        /\ best' = Faster(m.ms, best)
        /\ toDriver' = toDriver \ {m}
        /\ UNCHANGED <<laps, pc, local, canon, updates, retrying, retries>>
  BY DEF ProcessLap
<1>2. TypeInv'
  BY <1>1 DEF IInv, TypeInv, Faster, Events
<1>3. Cur' = Cur
  BY <1>1 DEF Cur
<1>4. \A e \in toDriver : e.kind = "personal_record.broken" => e \in toDriver'
  BY <1>1
<1>5. LocalInv'
  BY <1>1, <1>3, <1>4 DEF IInv, LocalInv, Confirmed, Announced
<1>6. LapsInv'
  BY <1>1, <1>3, <1>4 DEF IInv, LapsInv, Confirmed, Announced
<1>7. UpdatesInv'
  BY <1>1 DEF IInv, UpdatesInv, Confirmed
<1>8. InOrderInv'
  BY <1>1, <1>3, <1>4 DEF IInv, InOrderInv, Announced, Beats
<1>. QED
  BY <1>2, <1>5, <1>6, <1>7, <1>8 DEF IInv

(* A break that is processed leaves a canonical record that covers it, and *)
(* so covers what only this break announced.                               *)
LEMMA ProcessBrokenPreserves == IInv /\ ProcessBroken => IInv'
<1>. SUFFICES ASSUME IInv, ProcessBroken PROVE IInv'
  OBVIOUS
<1>. USE RecordConstantsOK
<1>1. PICK m \in toDriver :
        /\ m.kind = "personal_record.broken"
        /\ Confirm(m.ms)
        /\ toDriver' = toDriver \ {m}
        /\ UNCHANGED <<laps, pc, local, best, retrying, retries>>
  BY DEF ProcessBroken
<1>2. m.ms \in Times
  BY DEF IInv, TypeInv, Events
<1>. DEFINE cand == Faster(m.ms, best)
<1>3. cand \in Times /\ cand <= m.ms
  BY <1>2, TimesOrder DEF IInv, TypeInv, Faster, Beats
<1>4. \/ Beats(cand, canon) /\ canon' = cand /\ updates' = Append(updates, cand)
      \/ ~ Beats(cand, canon) /\ canon' = canon /\ updates' = updates
  BY <1>1 DEF Confirm
<1>. HIDE DEF cand
<1>5. canon' \in Times /\ canon' <= m.ms
  <2>1. CASE Beats(cand, canon)
    BY <2>1, <1>3, <1>4
  <2>2. CASE ~ Beats(cand, canon)
    <3>1. canon' = canon /\ canon \in Times /\ ~ (cand < canon)
      BY <2>2, <1>4, Zenon DEF Beats, IInv, TypeInv
    <3>. QED
      BY <3>1, <1>2, <1>3, TimesOrder, Zenon
  <2>. QED
    BY <2>1, <2>2
<1>6. canon # NoTime => canon' <= canon
  BY <1>3, <1>4 DEF Beats, IInv, TypeInv
<1>7. TypeInv'
  BY <1>1, <1>3, <1>4, SMTT(30) DEF IInv, TypeInv
<1>8. Cur' = Cur
  BY <1>1 DEF Cur
<1>9. \A t \in Times : Confirmed(t) => canon' # NoTime /\ canon' <= t
  BY <1>5, <1>6 DEF Confirmed, IInv, TypeInv
<1>10. \A t \in Times : Announced(t) => Announced(t)' \/ m.ms <= t
  BY <1>1, <1>8 DEF Announced
<1>11. \A t \in Times : m.ms <= t => canon' # NoTime /\ canon' <= t
  BY <1>2, <1>5, TimesOrder, Zenon
<1>12. LocalInv'
  BY <1>1, <1>9, <1>10, <1>11 DEF IInv, TypeInv, LocalInv, Confirmed
<1>13. LapsInv'
  <2>1. \A i \in DOMAIN laps : laps[i] \in Times
    BY DEF IInv, TypeInv
  <2>2. laps' = laps /\ pc' = pc
    BY <1>1
  <2>. SUFFICES ASSUME NEW i \in DOMAIN laps, i < Len(laps) \/ pc # "observe"
                PROVE  Confirmed(laps[i])' \/ Announced(laps[i])'
    BY <2>2 DEF LapsInv
  <2>3. Confirmed(laps[i]) \/ Announced(laps[i])
    BY DEF IInv, LapsInv
  <2>4. (canon' # NoTime /\ canon' <= laps[i]) \/ Announced(laps[i])'
    <3>1. Announced(laps[i])' \/ ~ Announced(laps[i]) \/ m.ms <= laps[i]
      BY <1>1, <1>8, <2>2 DEF Announced
    <3>. QED
      BY <2>1, <2>3, <3>1, <1>9, <1>11
  <2>. QED
    BY <2>4, <2>2 DEF Confirmed
<1>14. UpdatesInv'
  <2>1. \A i \in DOMAIN updates : updates[i] \in Times /\ canon' <= updates[i]
    <3>1. \A i \in DOMAIN updates : updates[i] \in Times
      BY DEF IInv, TypeInv
    <3>. QED
      BY <3>1, <1>9, Zenon DEF IInv, UpdatesInv
  <2>2. \A u \in retrying : canon' <= u
    BY <1>9 DEF IInv, TypeInv, UpdatesInv
  <2>3. \A i \in DOMAIN updates' : canon' <= updates'[i]
    BY <2>1, <1>3, <1>4 DEF IInv, TypeInv
  <2>. QED
    BY <2>2, <2>3, <1>1, <1>5 DEF UpdatesInv, Confirmed
<1>15. InOrderInv'
  <2>1. CASE Beats(cand, canon)
    <3>1. updates' # <<>> /\ updates'[Len(updates')] = cand /\ canon' = cand
      BY <2>1, <1>3, <1>4 DEF IInv, TypeInv
    <3>. QED
      BY <3>1, <1>1 DEF IInv, InOrderInv
  <2>2. CASE ~ Beats(cand, canon)
    <3>1. canon' = canon /\ updates' = updates
      BY <2>2, <1>4
    <3>2. ASSUME local # NoTime, Beats(local, canon), Announced(local)
          PROVE  Announced(local)'
      <4>1. local \in Times /\ canon \in Times /\ local < canon /\ canon <= m.ms
        BY <3>2, <3>1, <1>5 DEF Beats, IInv, TypeInv
      <4>2. ~ (m.ms <= local)
        BY <4>1, <1>2, TimesOrder, Zenon
      <4>. QED
        BY <4>2, <3>2, <1>1, <1>8 DEF Announced
    <3>. QED
      BY <3>1, <3>2, <1>1 DEF IInv, InOrderInv, Beats
  <2>. QED
    BY <2>1, <2>2
<1>. QED
  BY <1>7, <1>12, <1>13, <1>14, <1>15 DEF IInv

(* IInv is inductive.                                                      *)
LEMMA NextIInv == IInv /\ [Next]_vars => IInv'
<1>. SUFFICES ASSUME IInv, [Next]_vars PROVE IInv'
  OBVIOUS
<1>1. CASE UNCHANGED vars
  BY <1>1 DEF vars, IInv, TypeInv, LocalInv, LapsInv, UpdatesInv, InOrderInv,
              Confirmed, Announced, Cur, Beats
<1>. QED
  BY <1>1, EnqueueLapPreserves, ObserveLapPreserves, EnqueueBrokenPreserves,
     RefreshPreserves, RetryPreserves, ProcessLapPreserves, ProcessBrokenPreserves
  DEF Next

(* What Driver stores, or is told of, is the time of a lap.                *)
Driven(t) == \E i \in DOMAIN laps : laps[i] = t

DrivenInv ==
  /\ best # NoTime => Driven(best)
  /\ canon # NoTime => Driven(canon)
  /\ \A m \in toDriver : Driven(m.ms)

LEMMA DrivenStep ==
  ASSUME TypeInv, DrivenInv, [Next]_vars
  PROVE  DrivenInv'
<1>1. CASE EnqueueLap
  <2>0. PICK ms \in Times :
          /\ laps' = Append(laps, ms)
          /\ toDriver' = toDriver \cup
               {[kind |-> "lap.recorded", lap |-> Len(laps) + 1, ms |-> ms]}
    BY <1>1 DEF EnqueueLap
  <2>1. laps' = Append(laps, ms) /\ \A m \in toDriver' : m \in toDriver \/ m.ms = ms
    BY <2>0
  <2>2. \A t : Driven(t) => Driven(t)'
    BY <2>1 DEF TypeInv, Driven
  <2>3. Driven(ms)'
    <3>1. Len(laps) + 1 \in DOMAIN laps' /\ laps'[Len(laps) + 1] = ms
      BY <2>1 DEF TypeInv
    <3>. QED
      BY <3>1 DEF Driven
  <2>4. best' = best /\ canon' = canon
    BY <1>1 DEF EnqueueLap
  <2>. QED
    BY <2>1, <2>2, <2>3, <2>4 DEF DrivenInv
<1>2. CASE EnqueueBroken
  <2>1. Event("personal_record.broken").ms = Cur
    BY DEF Event
  <2>2. Driven(Cur)
    BY <1>2 DEF EnqueueBroken, TypeInv, Driven, Cur
  <2>. QED
    BY <1>2, <2>1, <2>2 DEF EnqueueBroken, DrivenInv, Driven
<1>3. CASE ProcessLap
  <2>1. PICK m \in toDriver :
          /\ best' = Faster(m.ms, best) /\ toDriver' = toDriver \ {m}
          /\ UNCHANGED <<laps, canon>>
    BY <1>3 DEF ProcessLap
  <2>2. best' = m.ms \/ best' = best
    BY <2>1 DEF Faster
  <2>. QED
    BY <2>1, <2>2 DEF DrivenInv, Driven
<1>4. CASE ProcessBroken
  <2>1. PICK m \in toDriver :
          Confirm(m.ms) /\ toDriver' = toDriver \ {m} /\ UNCHANGED <<laps, best>>
    BY <1>4 DEF ProcessBroken
  <2>2. canon' \in {m.ms, best, canon}
    BY <2>1 DEF Confirm, Faster
  <2>. QED
    BY <2>1, <2>2 DEF DrivenInv, Driven
<1>5. CASE ObserveLap \/ Refresh \/ RefreshFails \/ RetryDue \/ UNCHANGED vars
  <2>1. UNCHANGED <<laps, best, canon, toDriver>>
    BY <1>5 DEF ObserveLap, Refresh, RefreshFails, RetryDue, vars
  <2>. QED
    BY <2>1 DEF DrivenInv, Driven
<1>. QED
  BY <1>1, <1>2, <1>3, <1>4, <1>5 DEF Next

LEMMA Safety == Spec => [](IInv /\ DrivenInv)
<1>1. Init => IInv /\ DrivenInv
  BY InitIInv DEF Init, DrivenInv
<1>2. IInv /\ DrivenInv /\ [Next]_vars => IInv' /\ DrivenInv'
  BY NextIInv, DrivenStep DEF IInv
<1>. QED
  BY <1>1, <1>2, PTL DEF Spec

(* "A detected PR is never silently dropped" (observePR), for any number   *)
(* of laps, retries and events under way, while Timing is not interrupted. *)
THEOREM DetectedIsAnnounced == Spec => []BreakReachesDriver
<1>1. IInv => BreakReachesDriver
  BY DEF IInv, LocalInv, Confirmed, Announced, BreakReachesDriver
<1>. QED
  BY <1>1, Safety, PTL

(* Once all is delivered the canonical record is the fastest lap driven,   *)
(* although a late driver.pr_updated may have raised Timing's copy any     *)
(* number of times.                                                        *)
THEOREM CanonicalIsFastest == Spec => []NoRecordMissed
<1>1. IInv /\ DrivenInv => NoRecordMissed
  BY DEF IInv, LapsInv, Confirmed, Announced, DrivenInv, Driven, Quiet, NoRecordMissed
<1>. QED
  BY <1>1, Safety, PTL

(* As long as no refresh was retried, Timing and Driver agree once all is  *)
(* delivered.                                                              *)
THEOREM CopiesConverge == Spec => []ConvergesInOrder
<1>1. IInv => ConvergesInOrder
  BY DEF IInv, InOrderInv, Announced, Quiet, ConvergesInOrder
<1>. QED
  BY <1>1, Safety, PTL
=============================================================================
