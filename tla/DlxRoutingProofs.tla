-------------------------- MODULE DlxRoutingProofs --------------------------
(***************************************************************************)
(* Dead-letter exchanges that no two consumers share keep a consumer's     *)
(* failures to itself and its retry budget exact, for any number of        *)
(* consumers, messages and attempts.  With a shared exchange both fail:    *)
(* the run dlx_shared shows how.                                           *)
(***************************************************************************)
EXTENDS DlxRouting, TLAPS

(* The topology that the theorems are about.                               *)
Private == \A p, q \in Queues : DlxOf[p] = DlxOf[q] => p = q

Copies == Msgs \X Hops

Domains ==
  /\ sent \subseteq Msgs
  /\ work \in [Queues -> [Copies -> Nat]]
  /\ retry \in [Queues -> [Copies -> Nat]]
  /\ parking \in [Queues -> [Msgs -> Nat]]
  /\ attempts \in [Msgs -> Nat]

(* A message is in one copy at most, whose retry count is the number of    *)
(* attempts made; and it is parked when all are spent.                     *)
CopyInv ==
  \A m \in Msgs, h \in Hops :
    /\ work[HomeOf[m]][<<m, h>>] + retry[HomeOf[m]][<<m, h>>] <= 1
    /\ work[HomeOf[m]][<<m, h>>] + retry[HomeOf[m]][<<m, h>>] > 0 => attempts[m] = h /\ m \in sent

BudgetInv ==
  \A m \in Msgs :
    /\ attempts[m] <= MaxAttempts
    /\ parking[HomeOf[m]][m] <= 1
    /\ parking[HomeOf[m]][m] > 0 => attempts[m] = MaxAttempts
    /\ m \notin sent => attempts[m] = 0

Inv == Domains /\ Isolation /\ CopyInv /\ BudgetInv

-----------------------------------------------------------------------------
LEMMA ConstantsFacts ==
  /\ \A m \in Msgs : HomeOf[m] \in Queues
  /\ MaxAttempts \in Nat \ {0} /\ 0 \in Hops /\ Hops \subseteq Nat
  /\ \A h \in Hops : h < MaxAttempts
BY RoutingConstantsOK DEF Hops

LEMMA BoundAlone ==
  ASSUME Private, NEW q \in Queues
  PROVE  BoundWith(q) = {q}
BY DEF Private, BoundWith

LEMMA RoutedOnce ==
  ASSUME Private, NEW D, NEW bags \in [Queues -> [D -> Nat]], NEW q \in Queues, NEW d \in D
  PROVE  /\ Routed(bags, q, d) \in [Queues -> [D -> Nat]]
         /\ \A p \in Queues, c \in D :
              Routed(bags, q, d)[p][c] = IF p = q /\ c = d THEN bags[p][c] + 1 ELSE bags[p][c]
BY BoundAlone DEF Routed

LEMMA RoutedCopies ==
  ASSUME Private, NEW bags \in [Queues -> [Copies -> Nat]], NEW q \in Queues, NEW d \in Copies
  PROVE  /\ Routed(bags, q, d) \in [Queues -> [Copies -> Nat]]
         /\ \A p \in Queues, c \in Copies :
              Routed(bags, q, d)[p][c] = IF p = q /\ c = d THEN bags[p][c] + 1 ELSE bags[p][c]
BY RoutedOnce

LEMMA AddedOnce ==
  ASSUME NEW D, NEW bags \in [Queues -> [D -> Nat]], NEW q \in Queues, NEW d \in D
  PROVE  /\ [bags EXCEPT ![q][d] = @ + 1] \in [Queues -> [D -> Nat]]
         /\ \A p \in Queues, c \in D :
              [bags EXCEPT ![q][d] = @ + 1][p][c] = IF p = q /\ c = d THEN bags[p][c] + 1 ELSE bags[p][c]
OBVIOUS

LEMMA TakenOnce ==
  ASSUME NEW D, NEW bags \in [Queues -> [D -> Nat]], NEW q \in Queues, NEW d \in D, bags[q][d] > 0
  PROVE  /\ [bags EXCEPT ![q][d] = @ - 1] \in [Queues -> [D -> Nat]]
         /\ \A p \in Queues, c \in D :
              [bags EXCEPT ![q][d] = @ - 1][p][c] = IF p = q /\ c = d THEN bags[p][c] - 1 ELSE bags[p][c]
<1>1. bags[q][d] - 1 \in Nat
  OBVIOUS
<1>. QED
  BY <1>1

LEMMA BagTypes ==
  ASSUME Inv
  PROVE  /\ work \in [Queues -> [Copies -> Nat]] /\ retry \in [Queues -> [Copies -> Nat]]
         /\ parking \in [Queues -> [Msgs -> Nat]] /\ attempts \in [Msgs -> Nat]
BY DEF Inv, Domains

LEMMA InitInv == Init => Inv
<1>. SUFFICES ASSUME Init PROVE Inv
  OBVIOUS
<1>1. Domains
  BY DEF Init, Domains, Copies
<1>2. /\ \A q \in Queues, m \in Msgs, h \in Hops : work[q][<<m, h>>] = 0 /\ retry[q][<<m, h>>] = 0
      /\ \A q \in Queues, m \in Msgs : parking[q][m] = 0
      /\ \A m \in Msgs : attempts[m] = 0
  BY DEF Init
<1>3. Isolation /\ CopyInv /\ BudgetInv
  BY <1>2, ConstantsFacts DEF Isolation, CopyInv, BudgetInv
<1>. QED
  BY <1>1, <1>3 DEF Inv

LEMMA SendStep ==
  ASSUME Inv, NEW m \in Msgs, Send(m)
  PROVE  Inv'
<1>. DEFINE q == HomeOf[m]
            d == <<m, 0>>
<1>1. q \in Queues /\ d \in Copies
  BY ConstantsFacts DEF Copies
<1>2. /\ m \notin sent /\ sent' = sent \cup {m} /\ retry' = retry /\ parking' = parking
      /\ attempts' = attempts /\ work' = [work EXCEPT ![q][d] = @ + 1]
  BY DEF Send
<1>3. /\ work' \in [Queues -> [Copies -> Nat]]
      /\ \A p \in Queues, c \in Copies :
           work'[p][c] = IF p = q /\ c = d THEN work[p][c] + 1 ELSE work[p][c]
  <2>1. work \in [Queues -> [Copies -> Nat]]
    BY BagTypes
  <2>. HIDE DEF q, d
  <2>. QED
    BY <2>1, <1>1, <1>2, AddedOnce
<1>4. Domains'
  BY <1>2, <1>3 DEF Inv, Domains
<1>5. \A n \in Msgs, h \in Hops : <<n, h>> \in Copies /\ (<<n, h>> = d <=> n = m /\ h = 0)
  BY DEF Copies
<1>6. Isolation'
  BY <1>1, <1>2, <1>3, <1>5 DEF Inv, Isolation
<1>7. BudgetInv'
  BY <1>2 DEF Inv, BudgetInv
<1>8. CopyInv'
  <2>. SUFFICES ASSUME NEW n \in Msgs, NEW h \in Hops
                PROVE  /\ work'[HomeOf[n]][<<n, h>>] + retry'[HomeOf[n]][<<n, h>>] <= 1
                       /\ work'[HomeOf[n]][<<n, h>>] + retry'[HomeOf[n]][<<n, h>>] > 0
                            => attempts'[n] = h /\ n \in sent'
    BY DEF CopyInv
  <2>1. HomeOf[n] \in Queues /\ <<n, h>> \in Copies
    BY ConstantsFacts DEF Copies
  <2>2. /\ work[HomeOf[n]][<<n, h>>] \in Nat /\ retry[HomeOf[n]][<<n, h>>] \in Nat
    BY <2>1 DEF Inv, Domains
  <2>3. CASE n = m
    <3>1. work[HomeOf[n]][<<n, h>>] = 0 /\ retry[HomeOf[n]][<<n, h>>] = 0
      BY <2>2, <2>3, <1>2 DEF Inv, CopyInv
    <3>2. attempts[n] = 0 /\ n \in sent'
      BY <2>3, <1>2 DEF Inv, BudgetInv
    <3>3. work'[HomeOf[n]][<<n, h>>] = IF h = 0 THEN 1 ELSE 0
      BY <3>1, <2>1, <2>3, <1>3, <1>5
    <3>. QED
      BY <3>1, <3>2, <3>3, <1>2
  <2>4. CASE n # m
    BY <2>1, <2>4, <1>2, <1>3, <1>5 DEF Inv, CopyInv
  <2>. QED
    BY <2>3, <2>4
<1>. QED
  BY <1>4, <1>6, <1>7, <1>8 DEF Inv

(* A copy leaves one place and the message, with its attempts, goes to     *)
(* another: what the steps of the consumer and of the TTL have in common.  *)
LEMMA MoveStep ==
  ASSUME Inv, NEW m \in Msgs, NEW q \in Queues, q = HomeOf[m], m \in sent,
         Domains', sent' = sent,
         \A p \in Queues, n \in Msgs, g \in Hops : p # q \/ n # m =>
           work'[p][<<n, g>>] = work[p][<<n, g>>] /\ retry'[p][<<n, g>>] = retry[p][<<n, g>>],
         \A p \in Queues, n \in Msgs : p # q \/ n # m => parking'[p][n] = parking[p][n],
         \A n \in Msgs : n # m => attempts'[n] = attempts[n],
         \A g \in Hops :
           /\ work'[q][<<m, g>>] + retry'[q][<<m, g>>] <= 1
           /\ work'[q][<<m, g>>] + retry'[q][<<m, g>>] > 0 => attempts'[m] = g,
         /\ attempts'[m] <= MaxAttempts /\ parking'[q][m] <= 1
         /\ parking'[q][m] > 0 => attempts'[m] = MaxAttempts
  PROVE  Inv'
<1>1. \A n \in Msgs : HomeOf[n] \in Queues
  BY ConstantsFacts
<1>2. Isolation'
  <2>. SUFFICES ASSUME NEW p \in Queues, NEW n \in Msgs, HomeOf[n] # p
                PROVE  /\ parking'[p][n] = 0
                       /\ \A g \in Hops : work'[p][<<n, g>>] = 0 /\ retry'[p][<<n, g>>] = 0
    BY DEF Isolation
  <2>1. p # q \/ n # m
    OBVIOUS
  <2>2. parking'[p][n] = parking[p][n]
    BY <2>1
  <2>3. \A g \in Hops : work'[p][<<n, g>>] = work[p][<<n, g>>] /\ retry'[p][<<n, g>>] = retry[p][<<n, g>>]
    BY <2>1
  <2>. QED
    BY <2>2, <2>3 DEF Inv, Isolation
<1>3. CopyInv'
  <2>. SUFFICES ASSUME NEW n \in Msgs, NEW g \in Hops
                PROVE  /\ work'[HomeOf[n]][<<n, g>>] + retry'[HomeOf[n]][<<n, g>>] <= 1
                       /\ work'[HomeOf[n]][<<n, g>>] + retry'[HomeOf[n]][<<n, g>>] > 0
                            => attempts'[n] = g /\ n \in sent'
    BY DEF CopyInv
  <2>1. CASE n = m
    BY <2>1
  <2>2. CASE n # m
    <3>1. /\ work'[HomeOf[n]][<<n, g>>] = work[HomeOf[n]][<<n, g>>]
          /\ retry'[HomeOf[n]][<<n, g>>] = retry[HomeOf[n]][<<n, g>>]
          /\ attempts'[n] = attempts[n]
      BY <2>2, <1>1
    <3>. QED
      BY <3>1 DEF Inv, CopyInv
  <2>. QED
    BY <2>1, <2>2
<1>4. BudgetInv'
  <2>. SUFFICES ASSUME NEW n \in Msgs
                PROVE  /\ attempts'[n] <= MaxAttempts
                       /\ parking'[HomeOf[n]][n] <= 1
                       /\ parking'[HomeOf[n]][n] > 0 => attempts'[n] = MaxAttempts
                       /\ n \notin sent' => attempts'[n] = 0
    BY DEF BudgetInv
  <2>1. CASE n = m
    BY <2>1
  <2>2. CASE n # m
    <3>1. parking'[HomeOf[n]][n] = parking[HomeOf[n]][n] /\ attempts'[n] = attempts[n]
      BY <2>2, <1>1
    <3>. QED
      BY <3>1 DEF Inv, BudgetInv
  <2>. QED
    BY <2>1, <2>2
<1>. QED
  BY <1>2, <1>3, <1>4 DEF Inv

(* What the invariant says of a copy in a queue.                           *)
LEMMA CopyIs ==
  ASSUME Inv, NEW q \in Queues, NEW d \in Copies, work[q][d] > 0 \/ retry[q][d] > 0
  PROVE  \E m \in Msgs, h \in Hops :
           /\ d = <<m, h>> /\ q = HomeOf[m] /\ m \in sent /\ attempts[m] = h /\ h \in Nat /\ h < MaxAttempts
           /\ work[q][d] \in Nat /\ retry[q][d] \in Nat /\ work[q][d] + retry[q][d] = 1
           /\ \A g \in Hops : g # h => work[q][<<m, g>>] = 0 /\ retry[q][<<m, g>>] = 0
           /\ parking[q][m] = 0
<1>1. PICK m \in Msgs, h \in Hops : d = <<m, h>>
  BY DEF Copies
<1>2. work[q][d] \in Nat /\ retry[q][d] \in Nat
  BY DEF Inv, Domains
<1>3. q = HomeOf[m]
  BY <1>1, <1>2 DEF Inv, Isolation
<1>4. work[q][d] + retry[q][d] = 1 /\ attempts[m] = h /\ m \in sent
  BY <1>1, <1>2, <1>3 DEF Inv, CopyInv
<1>5. h \in Nat /\ h < MaxAttempts /\ MaxAttempts \in Nat
  BY ConstantsFacts
<1>6. ASSUME NEW g \in Hops, g # h PROVE work[q][<<m, g>>] = 0 /\ retry[q][<<m, g>>] = 0
  <2>1. <<m, g>> \in Copies
    BY DEF Copies
  <2>2. work[q][<<m, g>>] \in Nat /\ retry[q][<<m, g>>] \in Nat
    BY <2>1 DEF Inv, Domains
  <2>. QED
    BY <2>2, <1>3, <1>4, <1>6 DEF Inv, CopyInv
<1>7. parking[q][m] = 0
  <2>1. parking[q][m] \in Nat
    BY DEF Inv, Domains
  <2>2. parking[q][m] > 0 => attempts[m] = MaxAttempts
    BY <1>3 DEF Inv, BudgetInv
  <2>. QED
    BY <2>1, <2>2, <1>4, <1>5
<1>. QED
  BY <1>1, <1>2, <1>3, <1>4, <1>5, <1>6, <1>7

LEMMA AckStep ==
  ASSUME Inv, NEW q \in Queues, NEW d \in Copies, Ack(q, d)
  PROVE  Inv'
<1>1. /\ work[q][d] > 0 /\ work' = [work EXCEPT ![q][d] = @ - 1]
      /\ sent' = sent /\ retry' = retry /\ parking' = parking /\ attempts' = attempts
  BY DEF Ack, Taken
<1>2. PICK m \in Msgs, h \in Hops :
           /\ d = <<m, h>> /\ q = HomeOf[m] /\ m \in sent /\ attempts[m] = h /\ h \in Nat /\ h < MaxAttempts
           /\ work[q][d] \in Nat /\ retry[q][d] \in Nat /\ work[q][d] + retry[q][d] = 1
           /\ \A g \in Hops : g # h => work[q][<<m, g>>] = 0 /\ retry[q][<<m, g>>] = 0
           /\ parking[q][m] = 0
  BY <1>1, CopyIs
<1>3. /\ work' \in [Queues -> [Copies -> Nat]]
      /\ \A p \in Queues, c \in Copies :
           work'[p][c] = IF p = q /\ c = d THEN work[p][c] - 1 ELSE work[p][c]
  BY <1>1, BagTypes, TakenOnce
<1>4. Domains'
  BY <1>1, <1>3 DEF Inv, Domains
<1>5. \A n \in Msgs, g \in Hops : <<n, g>> \in Copies /\ (<<n, g>> = d <=> n = m /\ g = h)
  BY <1>2 DEF Copies
<1>6. ASSUME NEW g \in Hops
      PROVE  work'[q][<<m, g>>] = 0 /\ retry'[q][<<m, g>>] = 0
  <2>1. work'[q][<<m, g>>] = IF g = h THEN work[q][<<m, g>>] - 1 ELSE work[q][<<m, g>>]
    BY <1>3, <1>5
  <2>2. work[q][d] = 1 /\ retry[q][d] = 0
    BY <1>1, <1>2
  <2>3. CASE g = h
    BY <2>1, <2>2, <2>3, <1>1, <1>2
  <2>4. CASE g # h
    BY <2>1, <2>4, <1>1, <1>2
  <2>. QED
    BY <2>3, <2>4
<1>7. \A p \in Queues, n \in Msgs, g \in Hops : p # q \/ n # m =>
        work'[p][<<n, g>>] = work[p][<<n, g>>] /\ retry'[p][<<n, g>>] = retry[p][<<n, g>>]
  BY <1>1, <1>3, <1>5
<1>8. \A g \in Hops :
        /\ work'[q][<<m, g>>] + retry'[q][<<m, g>>] <= 1
        /\ work'[q][<<m, g>>] + retry'[q][<<m, g>>] > 0 => attempts'[m] = g
  BY <1>6
<1>9. /\ attempts'[m] <= MaxAttempts /\ parking'[q][m] <= 1
      /\ parking'[q][m] > 0 => attempts'[m] = MaxAttempts
  BY <1>1, <1>2, ConstantsFacts
<1>. QED
  BY <1>1, <1>2, <1>4, <1>7, <1>8, <1>9, MoveStep

LEMMA FailRetryStep ==
  ASSUME Private, Inv, NEW q \in Queues, NEW d \in Copies, FailRetry(q, d)
  PROVE  Inv'
<1>. DEFINE e == <<d[1], d[2] + 1>>
<1>1. /\ work[q][d] > 0 /\ work' = [work EXCEPT ![q][d] = @ - 1] /\ d[2] + 1 < MaxAttempts
      /\ sent' = sent /\ retry' = Routed(retry, q, e) /\ parking' = parking
      /\ attempts' = [attempts EXCEPT ![d[1]] = @ + 1]
  BY DEF FailRetry, Taken
<1>2. PICK m \in Msgs, h \in Hops :
           /\ d = <<m, h>> /\ q = HomeOf[m] /\ m \in sent /\ attempts[m] = h /\ h \in Nat /\ h < MaxAttempts
           /\ work[q][d] \in Nat /\ retry[q][d] \in Nat /\ work[q][d] + retry[q][d] = 1
           /\ \A g \in Hops : g # h => work[q][<<m, g>>] = 0 /\ retry[q][<<m, g>>] = 0
           /\ parking[q][m] = 0
  BY <1>1, CopyIs
<1>3. MaxAttempts \in Nat /\ h + 1 \in Hops /\ h + 1 # h /\ e = <<m, h + 1>> /\ e \in Copies
  BY <1>1, <1>2, ConstantsFacts DEF Hops, Copies
<1>. HIDE DEF e
<1>4. /\ work' \in [Queues -> [Copies -> Nat]]
      /\ \A p \in Queues, c \in Copies :
           work'[p][c] = IF p = q /\ c = d THEN work[p][c] - 1 ELSE work[p][c]
  BY <1>1, BagTypes, TakenOnce
<1>5. /\ retry' \in [Queues -> [Copies -> Nat]]
      /\ \A p \in Queues, c \in Copies :
           retry'[p][c] = IF p = q /\ c = e THEN retry[p][c] + 1 ELSE retry[p][c]
  <2>1. retry \in [Queues -> [Copies -> Nat]] /\ e \in Copies
    BY <1>3, BagTypes
  <2>2. /\ Routed(retry, q, e) \in [Queues -> [Copies -> Nat]]
        /\ \A p \in Queues, c \in Copies :
             Routed(retry, q, e)[p][c] = IF p = q /\ c = e THEN retry[p][c] + 1 ELSE retry[p][c]
    BY <2>1, RoutedCopies
  <2>. QED
    BY <2>2, <1>1
<1>6. /\ attempts' \in [Msgs -> Nat] /\ attempts'[m] = h + 1
      /\ \A n \in Msgs : n # m => attempts'[n] = attempts[n]
  BY <1>1, <1>2 DEF Inv, Domains
<1>7. Domains'
  BY <1>1, <1>4, <1>5, <1>6 DEF Inv, Domains
<1>8. \A n \in Msgs, g \in Hops :
        /\ <<n, g>> \in Copies
        /\ <<n, g>> = d <=> n = m /\ g = h
        /\ <<n, g>> = e <=> n = m /\ g = h + 1
  BY <1>2, <1>3 DEF Copies
<1>9. work[q][d] = 1 /\ retry[q][d] = 0
  BY <1>1, <1>2
<1>10. ASSUME NEW g \in Hops
       PROVE  /\ work'[q][<<m, g>>] = 0
              /\ retry'[q][<<m, g>>] = IF g = h + 1 THEN 1 ELSE 0
  <2>1. /\ work'[q][<<m, g>>] = IF g = h THEN work[q][<<m, g>>] - 1 ELSE work[q][<<m, g>>]
        /\ retry'[q][<<m, g>>] = IF g = h + 1 THEN retry[q][<<m, g>>] + 1 ELSE retry[q][<<m, g>>]
    BY <1>4, <1>5, <1>8
  <2>2. CASE g = h
    BY <2>1, <2>2, <1>2, <1>3, <1>9
  <2>3. CASE g # h
    BY <2>1, <2>3, <1>2
  <2>. QED
    BY <2>2, <2>3
<1>11. \A p \in Queues, n \in Msgs, g \in Hops : p # q \/ n # m =>
         work'[p][<<n, g>>] = work[p][<<n, g>>] /\ retry'[p][<<n, g>>] = retry[p][<<n, g>>]
  BY <1>4, <1>5, <1>8
<1>12. \A g \in Hops :
         /\ work'[q][<<m, g>>] + retry'[q][<<m, g>>] <= 1
         /\ work'[q][<<m, g>>] + retry'[q][<<m, g>>] > 0 => attempts'[m] = g
  BY <1>6, <1>10
<1>13. /\ attempts'[m] <= MaxAttempts /\ parking'[q][m] <= 1
       /\ parking'[q][m] > 0 => attempts'[m] = MaxAttempts
  BY <1>1, <1>2, <1>3, <1>6
<1>. QED
  BY <1>1, <1>2, <1>6, <1>7, <1>11, <1>12, <1>13, MoveStep

LEMMA FailParkStep ==
  ASSUME Private, Inv, NEW q \in Queues, NEW d \in Copies, FailPark(q, d)
  PROVE  Inv'
<1>1. /\ work[q][d] > 0 /\ work' = [work EXCEPT ![q][d] = @ - 1] /\ d[2] + 1 >= MaxAttempts
      /\ sent' = sent /\ retry' = retry /\ parking' = Routed(parking, q, d[1])
      /\ attempts' = [attempts EXCEPT ![d[1]] = @ + 1]
  BY DEF FailPark, Taken
<1>2. PICK m \in Msgs, h \in Hops :
           /\ d = <<m, h>> /\ q = HomeOf[m] /\ m \in sent /\ attempts[m] = h /\ h \in Nat /\ h < MaxAttempts
           /\ work[q][d] \in Nat /\ retry[q][d] \in Nat /\ work[q][d] + retry[q][d] = 1
           /\ \A g \in Hops : g # h => work[q][<<m, g>>] = 0 /\ retry[q][<<m, g>>] = 0
           /\ parking[q][m] = 0
  BY <1>1, CopyIs
<1>3. MaxAttempts \in Nat /\ h + 1 = MaxAttempts /\ d[1] = m
  BY <1>1, <1>2, ConstantsFacts
<1>4. /\ work' \in [Queues -> [Copies -> Nat]]
      /\ \A p \in Queues, c \in Copies :
           work'[p][c] = IF p = q /\ c = d THEN work[p][c] - 1 ELSE work[p][c]
  BY <1>1, BagTypes, TakenOnce
<1>5. /\ parking' \in [Queues -> [Msgs -> Nat]]
      /\ \A p \in Queues, n \in Msgs :
           parking'[p][n] = IF p = q /\ n = m THEN parking[p][n] + 1 ELSE parking[p][n]
  <2>1. parking \in [Queues -> [Msgs -> Nat]]
    BY BagTypes
  <2>2. /\ Routed(parking, q, m) \in [Queues -> [Msgs -> Nat]]
        /\ \A p \in Queues, n \in Msgs :
             Routed(parking, q, m)[p][n] = IF p = q /\ n = m THEN parking[p][n] + 1 ELSE parking[p][n]
    BY <2>1, RoutedOnce
  <2>. QED
    BY <2>2, <1>1, <1>3
<1>6. /\ attempts' \in [Msgs -> Nat] /\ attempts'[m] = h + 1
      /\ \A n \in Msgs : n # m => attempts'[n] = attempts[n]
  BY <1>1, <1>2, <1>3 DEF Inv, Domains
<1>7. Domains'
  BY <1>1, <1>4, <1>5, <1>6 DEF Inv, Domains
<1>8. \A n \in Msgs, g \in Hops : <<n, g>> \in Copies /\ (<<n, g>> = d <=> n = m /\ g = h)
  BY <1>2 DEF Copies
<1>9. ASSUME NEW g \in Hops
      PROVE  work'[q][<<m, g>>] = 0 /\ retry'[q][<<m, g>>] = 0
  <2>1. work'[q][<<m, g>>] = IF g = h THEN work[q][<<m, g>>] - 1 ELSE work[q][<<m, g>>]
    BY <1>4, <1>8
  <2>2. work[q][d] = 1 /\ retry[q][d] = 0
    BY <1>1, <1>2
  <2>3. CASE g = h
    BY <2>1, <2>2, <2>3, <1>1, <1>2
  <2>4. CASE g # h
    BY <2>1, <2>4, <1>1, <1>2
  <2>. QED
    BY <2>3, <2>4
<1>10. parking'[q][m] = 1
  BY <1>2, <1>5
<1>11. \A p \in Queues, n \in Msgs, g \in Hops : p # q \/ n # m =>
         work'[p][<<n, g>>] = work[p][<<n, g>>] /\ retry'[p][<<n, g>>] = retry[p][<<n, g>>]
  BY <1>1, <1>4, <1>8
<1>12. \A g \in Hops :
         /\ work'[q][<<m, g>>] + retry'[q][<<m, g>>] <= 1
         /\ work'[q][<<m, g>>] + retry'[q][<<m, g>>] > 0 => attempts'[m] = g
  BY <1>9
<1>13. /\ attempts'[m] <= MaxAttempts /\ parking'[q][m] <= 1
       /\ parking'[q][m] > 0 => attempts'[m] = MaxAttempts
  BY <1>3, <1>6, <1>10
<1>14. \A p \in Queues, n \in Msgs : p # q \/ n # m => parking'[p][n] = parking[p][n]
  BY <1>5
<1>. QED
  BY <1>1, <1>2, <1>6, <1>7, <1>11, <1>12, <1>13, <1>14, MoveStep

LEMMA ExpireStep ==
  ASSUME Private, Inv, NEW q \in Queues, NEW d \in Copies, Expire(q, d)
  PROVE  Inv'
<1>1. /\ retry[q][d] > 0 /\ retry' = [retry EXCEPT ![q][d] = @ - 1]
      /\ sent' = sent /\ work' = Routed(work, q, d) /\ parking' = parking /\ attempts' = attempts
  BY DEF Expire
<1>2. PICK m \in Msgs, h \in Hops :
           /\ d = <<m, h>> /\ q = HomeOf[m] /\ m \in sent /\ attempts[m] = h /\ h \in Nat /\ h < MaxAttempts
           /\ work[q][d] \in Nat /\ retry[q][d] \in Nat /\ work[q][d] + retry[q][d] = 1
           /\ \A g \in Hops : g # h => work[q][<<m, g>>] = 0 /\ retry[q][<<m, g>>] = 0
           /\ parking[q][m] = 0
  BY <1>1, CopyIs
<1>3. MaxAttempts \in Nat
  BY ConstantsFacts
<1>4. /\ retry' \in [Queues -> [Copies -> Nat]]
      /\ \A p \in Queues, c \in Copies :
           retry'[p][c] = IF p = q /\ c = d THEN retry[p][c] - 1 ELSE retry[p][c]
  BY <1>1, BagTypes, TakenOnce
<1>5. /\ work' \in [Queues -> [Copies -> Nat]]
      /\ \A p \in Queues, c \in Copies :
           work'[p][c] = IF p = q /\ c = d THEN work[p][c] + 1 ELSE work[p][c]
  <2>1. work \in [Queues -> [Copies -> Nat]]
    BY BagTypes
  <2>2. /\ Routed(work, q, d) \in [Queues -> [Copies -> Nat]]
        /\ \A p \in Queues, c \in Copies :
             Routed(work, q, d)[p][c] = IF p = q /\ c = d THEN work[p][c] + 1 ELSE work[p][c]
    BY <2>1, RoutedCopies
  <2>. QED
    BY <2>2, <1>1
<1>6. Domains'
  BY <1>1, <1>4, <1>5 DEF Inv, Domains
<1>7. \A n \in Msgs, g \in Hops : <<n, g>> \in Copies /\ (<<n, g>> = d <=> n = m /\ g = h)
  BY <1>2 DEF Copies
<1>8. ASSUME NEW g \in Hops
      PROVE  /\ retry'[q][<<m, g>>] = 0
             /\ work'[q][<<m, g>>] = IF g = h THEN 1 ELSE 0
  <2>1. /\ retry'[q][<<m, g>>] = IF g = h THEN retry[q][<<m, g>>] - 1 ELSE retry[q][<<m, g>>]
        /\ work'[q][<<m, g>>] = IF g = h THEN work[q][<<m, g>>] + 1 ELSE work[q][<<m, g>>]
    BY <1>4, <1>5, <1>7
  <2>2. work[q][d] = 0 /\ retry[q][d] = 1
    BY <1>1, <1>2
  <2>3. CASE g = h
    BY <2>1, <2>2, <2>3, <1>2
  <2>4. CASE g # h
    BY <2>1, <2>4, <1>2
  <2>. QED
    BY <2>3, <2>4
<1>9. \A p \in Queues, n \in Msgs, g \in Hops : p # q \/ n # m =>
        work'[p][<<n, g>>] = work[p][<<n, g>>] /\ retry'[p][<<n, g>>] = retry[p][<<n, g>>]
  BY <1>4, <1>5, <1>7
<1>10. ASSUME NEW g \in Hops
       PROVE  /\ work'[q][<<m, g>>] + retry'[q][<<m, g>>] <= 1
              /\ work'[q][<<m, g>>] + retry'[q][<<m, g>>] > 0 => attempts'[m] = g
  <2>1. CASE g = h
    BY <2>1, <1>1, <1>2, <1>8
  <2>2. CASE g # h
    BY <2>2, <1>8
  <2>. QED
    BY <2>1, <2>2
<1>11. /\ attempts'[m] <= MaxAttempts /\ parking'[q][m] <= 1
       /\ parking'[q][m] > 0 => attempts'[m] = MaxAttempts
  BY <1>1, <1>2, <1>3
<1>. QED
  BY <1>1, <1>2, <1>6, <1>9, <1>10, <1>11, MoveStep

LEMMA StepInv ==
  ASSUME Private, Inv, [Next]_vars
  PROVE  Inv'
<1>1. ASSUME NEW m \in Msgs, Send(m) PROVE Inv'
  BY <1>1, SendStep
<1>2. ASSUME NEW q \in Queues, NEW d \in Msgs \X Hops,
             Ack(q, d) \/ FailRetry(q, d) \/ FailPark(q, d) \/ Expire(q, d)
      PROVE  Inv'
  BY <1>2, AckStep, FailRetryStep, FailParkStep, ExpireStep DEF Copies
<1>3. CASE UNCHANGED vars
  BY <1>3 DEF vars, Inv, Domains, Isolation, CopyInv, BudgetInv
<1>. QED
  BY <1>1, <1>2, <1>3 DEF Next

THEOREM PrivateInvariant ==
  ASSUME Private
  PROVE  Spec => []Inv
<1>1. Inv /\ [Next]_vars => Inv'
  BY StepInv
<1>. QED
  BY <1>1, InitInv, PTL DEF Spec

(* A consumer's failures stay its own when it names a dead-letter exchange *)
(* nobody else names: no copy of a message reaches the retry, work or      *)
(* parking queue of a consumer it was not routed to (DeclareDLQTopology).  *)
THEOREM PrivateDlxIsolates ==
  ASSUME Private
  PROVE  Spec => []Isolation
<1>1. Inv => Isolation
  BY DEF Inv
<1>. QED
  BY <1>1, PrivateInvariant, PTL

(* Then a message is tried MaxAttempts times and parked once (NextRetry).  *)
THEOREM PrivateDlxKeepsBudget ==
  ASSUME Private
  PROVE  Spec => []AttemptBudget
<1>1. Inv => AttemptBudget
  BY DEF Inv, BudgetInv, AttemptBudget
<1>. QED
  BY <1>1, PrivateInvariant, PTL
=============================================================================
