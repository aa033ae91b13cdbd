-------------------------- MODULE SimSessionProofs --------------------------
(***************************************************************************)
(* What the simulator's pure part computes, for every session: the         *)
(* crossings are in time order, every lap.recorded is an honest lap, every *)
(* lap that counts is there, the summary agrees with the laps and the      *)
(* outage is announced once.  Module TimingRunProofs puts this to use.     *)
(*                                                                         *)
(* The generators are recursive functions.  Induction over them rests on   *)
(* the well-foundedness of < on Nat, in the form that a non-empty set of   *)
(* naturals has a least element.                                           *)
(***************************************************************************)
EXTENDS SimSession, FiniteSetTheorems, SequenceTheorems, TLAPS

LEMMA LeastElement ==
  ASSUME NEW T \in SUBSET Nat, T # {}
  PROVE  \E x \in T : \A y \in T : x <= y
<1>. DEFINE R == {ss \in Nat \X Nat : ss[1] < ss[2]}
<1>1. IsWellFoundedOn(R, Nat)
  BY NatLessThanWellFounded DEF OpToRel
<1>. HIDE DEF R
<1>2. PICK x \in T : \A y \in T : ~(<<y, x>> \in R)
  BY <1>1, WFMin
<1>3. \A y \in T : y < x => <<y, x>> \in R
  BY DEF R
<1>4. ASSUME NEW y \in T PROVE x <= y
  <2>1. ~ (y < x) /\ x \in Nat /\ y \in Nat
    BY <1>2, <1>3
  <2>. QED
    BY <2>1
<1>. QED
  BY <1>4

(* Induction up to a bound, over a set instead of a predicate.             *)
LEMMA UpTo ==
  ASSUME NEW n \in Nat, NEW S, 0 \in S, \A i \in 1..n : i - 1 \in S => i \in S
  PROVE  0..n \subseteq S
<1>. DEFINE T == {i \in 0..n : i \notin S}
<1>. SUFFICES ASSUME T # {} PROVE FALSE
  OBVIOUS
<1>0. T \in SUBSET Nat
  OBVIOUS
<1>. HIDE DEF T
<1>1. PICK x \in T : \A y \in T : x <= y
  BY <1>0, LeastElement
<1>. USE DEF T
<1>2. x \in 1..n /\ x - 1 \in 0..n /\ ~ (x <= x - 1)
  OBVIOUS
<1>3. x - 1 \in S
  BY <1>1, <1>2
<1>. QED
  BY <1>2, <1>3

-----------------------------------------------------------------------------
(* A function defined by recursion up to a bound exists.                   *)
Recursion(f, n, A, a0, step) ==
  /\ f \in [0..n -> A]
  /\ \A i \in 0..n : f[i] = IF i = 0 THEN a0 ELSE step[<<f[i - 1], i>>]

LEMMA RecExists ==
  ASSUME NEW n \in Nat, NEW A, NEW a0 \in A, NEW step \in [A \X (1..n) -> A]
  PROVE  \E f : Recursion(f, n, A, a0, step)
<1>. DEFINE F(m) == {f \in [0..m -> A] :
                       \A i \in 0..m : f[i] = IF i = 0 THEN a0 ELSE step[<<f[i - 1], i>>]}
            S == {m \in 0..n : F(m) # {}}
<1>1. 0 \in S
  <2>1. [j \in 0..0 |-> a0] \in F(0)
    OBVIOUS
  <2>. QED
    BY <2>1
<1>2. ASSUME NEW m \in 1..n, m - 1 \in S PROVE m \in S
  <2>1. PICK f : f \in F(m - 1)
    BY <1>2
  <2>. DEFINE g == [j \in 0..m |-> IF j = m THEN step[<<f[m - 1], m>>] ELSE f[j]]
  <2>2. f \in [0..(m - 1) -> A] /\ m \in Nat /\ m - 1 \in 0..(m - 1)
    BY <2>1
  <2>3. step[<<f[m - 1], m>>] \in A
    BY <2>2
  <2>4. g \in [0..m -> A]
    BY <2>2, <2>3
  <2>5. ASSUME NEW j \in 0..m PROVE g[j] = IF j = 0 THEN a0 ELSE step[<<g[j - 1], j>>]
    <3>1. CASE j = m
      <4>1. g[m] = step[<<f[m - 1], m>>]
        BY <2>2
      <4>2. g[m - 1] = f[m - 1] /\ m # 0
        BY <2>2
      <4>. QED
        BY <3>1, <4>1, <4>2
    <3>2. CASE j # m
      <4>1. j \in 0..(m - 1) /\ g[j] = f[j] /\ (j # 0 => g[j - 1] = f[j - 1])
        BY <3>2, <2>2
      <4>2. f[j] = IF j = 0 THEN a0 ELSE step[<<f[j - 1], j>>]
        BY <2>1, <4>1
      <4>. QED
        BY <4>1, <4>2
    <3>. QED
      BY <3>1, <3>2
  <2>. HIDE DEF g
  <2>6. g \in F(m)
    BY <2>4, <2>5
  <2>. QED
    BY <2>6
<1>. HIDE DEF S
<1>3. n \in S
  BY <1>1, <1>2, UpTo
<1>. QED
  BY <1>3 DEF S, Recursion

LEMMA KnobsAre ==
  /\ NDrivers \in Nat \ {0} /\ SessionLaps \in Nat \ {0} /\ MinLapTimeMs \in Nat \ {0}
  /\ UnknownTokenScans \in Nat /\ ScannerOutageLaps \in Nat /\ OutOfSessionLaps \in Nat
  /\ LapDraws \subseteq Nat \ {0} /\ Offsets \subseteq Nat
  /\ 1 \in Drivers /\ Drivers \subseteq Nat /\ Strays \subseteq Nat
  /\ \A d \in Strays : d \notin Drivers
BY KnobsOK, DrawsOK DEF loadSimulator, Drivers, Strays

-----------------------------------------------------------------------------
(* The crossings of a session.                                             *)
LEMMA CrossingTimesType ==
  ASSUME NEW o \in Nat, NEW draw \in [1..SessionLaps -> LapDraws]
  PROVE  CrossingTimes(o, draw) \in [0..SessionLaps -> Nat]
<1>. DEFINE P(at) == at = [j \in 0..SessionLaps |-> IF j = 0 THEN o ELSE at[j - 1] + draw[j]]
            A == CHOOSE at : P(at)
            step == [p \in Nat \X (1..SessionLaps) |-> p[1] + draw[p[2]]]
<1>0. SessionLaps \in Nat /\ \A j \in 1..SessionLaps : draw[j] \in Nat
  BY KnobsAre
<1>1. step \in [Nat \X (1..SessionLaps) -> Nat]
  BY <1>0
<1>2. PICK f : Recursion(f, SessionLaps, Nat, o, step)
  BY <1>0, <1>1, RecExists
<1>2a. /\ f \in [0..SessionLaps -> Nat]
       /\ \A i \in 0..SessionLaps : f[i] = IF i = 0 THEN o ELSE step[<<f[i - 1], i>>]
  BY <1>2 DEF Recursion
<1>3. ASSUME NEW j \in 0..SessionLaps PROVE f[j] = IF j = 0 THEN o ELSE f[j - 1] + draw[j]
  <2>1. CASE j = 0
    BY <2>1, <1>2a
  <2>2. CASE j # 0
    <3>1. j \in 1..SessionLaps /\ j - 1 \in 0..SessionLaps /\ f[j - 1] \in Nat
      BY <2>2, <1>0, <1>2a
    <3>2. f[j] = step[<<f[j - 1], j>>]
      BY <2>2, <1>2a
    <3>. QED
      BY <2>2, <3>1, <3>2
  <2>. QED
    BY <2>1, <2>2
<1>4. P(f)
  BY <1>2a, <1>3
<1>. HIDE DEF P
<1>5. P(A)
  BY <1>4
<1>6. A = CrossingTimes(o, draw)
  BY DEF P, CrossingTimes
<1>. HIDE DEF A
<1>7. /\ A = [j \in 0..SessionLaps |-> A[j]]
      /\ \A j \in 0..SessionLaps : A[j] = IF j = 0 THEN o ELSE A[j - 1] + draw[j]
  BY <1>5 DEF P
<1>. DEFINE N == {j \in 0..SessionLaps : A[j] \in Nat}
<1>8. 0..SessionLaps \subseteq N
  <2>1. 0 \in N
    <3>1. 0 \in 0..SessionLaps
      BY <1>0
    <3>2. A[0] = o
      BY <3>1, <1>7
    <3>. QED
      BY <3>1, <3>2
  <2>2. ASSUME NEW i \in 1..SessionLaps, i - 1 \in N PROVE i \in N
    <3>1. i \in 0..SessionLaps /\ i # 0
      BY <1>0
    <3>2. A[i] = A[i - 1] + draw[i]
      BY <1>7, <3>1
    <3>. QED
      BY <2>2, <1>0, <3>1, <3>2
  <2>. HIDE DEF N
  <2>. QED
    BY <1>0, <2>1, <2>2, UpTo
<1>. QED
  BY <1>6, <1>7, <1>8

Scan == [who : Nat, lap : Nat, at : Nat]

LEMMA EarliestIs ==
  ASSUME NEW S \in SUBSET Scan, S # {}
  PROVE  /\ Earliest(S) \in S
         /\ \A b \in S : Earliest(S).at <= b.at
<1>1. PICK t \in {c.at : c \in S} : \A y \in {c.at : c \in S} : t <= y
  <2>1. {c.at : c \in S} \in SUBSET Nat /\ {c.at : c \in S} # {}
    BY DEF Scan
  <2>. QED
    BY <2>1, LeastElement
<1>. DEFINE S1 == {c \in S : c.at = t}
<1>2. S1 \in SUBSET Scan /\ S1 # {}
  BY <1>1
<1>3. PICK w \in {c.who : c \in S1} : \A y \in {c.who : c \in S1} : w <= y
  <2>. HIDE DEF S1
  <2>1. {c.who : c \in S1} \in SUBSET Nat /\ {c.who : c \in S1} # {}
    BY <1>2 DEF Scan
  <2>. QED
    BY <2>1, LeastElement
<1>. DEFINE S2 == {c \in S1 : c.who = w}
<1>4. S2 \in SUBSET Scan /\ S2 # {}
  BY <1>2, <1>3
<1>5. PICK l \in {c.lap : c \in S2} : \A y \in {c.lap : c \in S2} : l <= y
  <2>. HIDE DEF S2
  <2>1. {c.lap : c \in S2} \in SUBSET Nat /\ {c.lap : c \in S2} # {}
    BY <1>4 DEF Scan
  <2>. QED
    BY <2>1, LeastElement
<1>6. PICK c \in S2 : c.lap = l
  BY <1>5
<1>7. ASSUME NEW b \in S PROVE ~ Before(b, c)
  <2>1. /\ b.at \in Nat /\ b.who \in Nat /\ b.lap \in Nat
        /\ c.at = t /\ c.who = w /\ c.lap = l
        /\ c.at \in Nat /\ c.who \in Nat /\ c.lap \in Nat
    BY <1>6 DEF Scan
  <2>2. t <= b.at
    BY <1>1
  <2>3. b.at = t => b \in S1 /\ w <= b.who
    BY <1>3
  <2>4. b.at = t /\ b.who = w => l <= b.lap
    BY <1>5
  <2>. QED
    BY <2>1, <2>2, <2>3, <2>4 DEF Before
<1>8. Earliest(S) \in S /\ \A b \in S : ~ Before(b, Earliest(S))
  BY <1>6, <1>7 DEF Earliest
<1>9. ASSUME NEW b \in S PROVE Earliest(S).at <= b.at
  <2>1. b.at \in Nat /\ Earliest(S).at \in Nat
    BY <1>8 DEF Scan
  <2>. QED
    BY <1>8, <2>1 DEF Before
<1>. QED
  BY <1>8, <1>9

(* The crossings left once q has been taken.                               *)
Rest(all, q) == all \ {q[j] : j \in DOMAIN q}

Sorted(q) == \A i, j \in DOMAIN q : i <= j => q[i].at <= q[j].at

(* One more crossing in its place.                                         *)
LEMMA Extended ==
  ASSUME NEW all \in SUBSET Scan, IsFiniteSet(all), NEW q \in Seq(all), Sorted(q),
         Rest(all, q) # {},
         \A j \in DOMAIN q : \A b \in Rest(all, q) : q[j].at <= b.at,
         NEW r, r = Append(q, Earliest(Rest(all, q)))
  PROVE  /\ r \in Seq(all) /\ Len(r) = Len(q) + 1 /\ Sorted(r)
         /\ IsFiniteSet(Rest(all, r))
         /\ Cardinality(Rest(all, r)) = Cardinality(Rest(all, q)) - 1
         /\ \A j \in DOMAIN r : \A b \in Rest(all, r) : r[j].at <= b.at
<1>. DEFINE R == Rest(all, q)
            e == Earliest(R)
<1>1. R \in SUBSET Scan /\ R \subseteq all /\ IsFiniteSet(R)
  <2>1. R \subseteq all
    BY DEF Rest
  <2>. QED
    BY <2>1, FS_Subset
<1>2. e \in R /\ \A b \in R : e.at <= b.at
  <2>. HIDE DEF R
  <2>. QED
    BY <1>1, EarliestIs DEF R
<1>. HIDE DEF e
<1>3. /\ r \in Seq(all) /\ Len(r) = Len(q) + 1 /\ Len(q) \in Nat
      /\ DOMAIN q = 1..Len(q) /\ DOMAIN r = 1..(Len(q) + 1)
      /\ r[Len(q) + 1] = e /\ \A j \in DOMAIN q : r[j] = q[j]
  BY <1>1, <1>2 DEF e
<1>4. Rest(all, r) = R \ {e}
  <2>1. {r[j] : j \in DOMAIN r} = {q[j] : j \in DOMAIN q} \cup {e}
    <3>1. ASSUME NEW x \in {r[j] : j \in DOMAIN r} PROVE x \in {q[j] : j \in DOMAIN q} \cup {e}
      <4>1. PICK j \in DOMAIN r : x = r[j]
        OBVIOUS
      <4>2. j = Len(q) + 1 \/ j \in DOMAIN q
        BY <1>3
      <4>. QED
        BY <1>3, <4>1, <4>2
    <3>2. ASSUME NEW x \in {q[j] : j \in DOMAIN q} \cup {e} PROVE x \in {r[j] : j \in DOMAIN r}
      <4>1. CASE x = e
        BY <1>3, <4>1
      <4>2. CASE x \in {q[j] : j \in DOMAIN q}
        <5>1. PICK j \in DOMAIN q : x = q[j]
          BY <4>2
        <5>. QED
          BY <1>3, <5>1
      <4>. QED
        BY <4>1, <4>2
    <3>. QED
      BY <3>1, <3>2
  <2>. QED
    BY <2>1 DEF Rest
<1>5. IsFiniteSet(Rest(all, r)) /\ Cardinality(Rest(all, r)) = Cardinality(R) - 1
  <2>. HIDE DEF R
  <2>. QED
    BY <1>1, <1>2, <1>4, FS_RemoveElement
<1>6. ASSUME NEW i \in DOMAIN r, NEW j \in DOMAIN r, i <= j PROVE r[i].at <= r[j].at
  <2>0. e.at \in Nat
    BY <1>1, <1>2 DEF Scan
  <2>1. CASE j \in DOMAIN q
    <3>1. i \in DOMAIN q
      BY <2>1, <1>3, <1>6
    <3>. QED
      BY <2>1, <3>1, <1>3, <1>6 DEF Sorted
  <2>2. CASE j = Len(q) + 1
    <3>1. CASE i = j
      BY <2>0, <2>2, <3>1, <1>3
    <3>2. CASE i \in DOMAIN q
      BY <2>2, <3>2, <1>2, <1>3
    <3>. QED
      BY <2>2, <3>1, <3>2, <1>3
  <2>. QED
    BY <2>1, <2>2, <1>3
<1>7. ASSUME NEW j \in DOMAIN r, NEW b \in Rest(all, r) PROVE r[j].at <= b.at
  <2>1. b \in R
    BY <1>4
  <2>2. CASE j = Len(q) + 1
    BY <2>1, <2>2, <1>2, <1>3
  <2>3. CASE j \in DOMAIN q
    BY <2>1, <2>3, <1>3
  <2>. QED
    BY <2>2, <2>3, <1>3
<1>. QED
  BY <1>3, <1>5, <1>6, <1>7 DEF Sorted

(* q holds the first i crossings in order.                                 *)
Taken(all, q, i) ==
  /\ q \in Seq(all) /\ Len(q) = i /\ Sorted(q)
  /\ IsFiniteSet(Rest(all, q)) /\ Cardinality(Rest(all, q)) = Cardinality(all) - i
  /\ \A j \in DOMAIN q : \A b \in Rest(all, q) : q[j].at <= b.at

LEMMA TakenAll ==
  ASSUME NEW all \in SUBSET Scan, IsFiniteSet(all), NEW g, g[0] = <<>>,
         \A i \in 1..Cardinality(all) :
           g[i - 1] \in Seq(all) /\ Rest(all, g[i - 1]) # {}
             => g[i] = Append(g[i - 1], Earliest(Rest(all, g[i - 1])))
  PROVE  \A i \in 0..Cardinality(all) : Taken(all, g[i], i)
<1>. DEFINE n == Cardinality(all)
            N == {i \in 0..n : Taken(all, g[i], i)}
<1>0. n \in Nat
  BY FS_CardinalityType
<1>1. 0 \in N
  <2>1. /\ <<>> \in Seq(all) /\ Len(<<>>) = 0 /\ DOMAIN <<>> = {}
        /\ Rest(all, <<>>) = all
    BY DEF Rest
  <2>2. Sorted(<<>>)
    BY <2>1 DEF Sorted
  <2>3. \A j \in DOMAIN <<>> : \A b \in Rest(all, <<>>) : <<>>[j].at <= b.at
    BY <2>1
  <2>4. Cardinality(all) = Cardinality(all) - 0
    BY <1>0
  <2>5. Taken(all, <<>>, 0)
    BY <2>1, <2>2, <2>3, <2>4 DEF Taken
  <2>. QED
    BY <1>0, <2>5
<1>2. ASSUME NEW i \in 1..n, i - 1 \in N PROVE i \in N
  <2>. DEFINE q == g[i - 1]
  <2>1. Taken(all, q, i - 1)
    BY <1>2
  <2>2. Rest(all, q) # {}
    <3>1. Cardinality(Rest(all, q)) = n - (i - 1) /\ n - (i - 1) # 0
      BY <1>0, <2>1 DEF Taken
    <3>. QED
      BY <3>1, FS_EmptySet
  <2>3. g[i] = Append(q, Earliest(Rest(all, q)))
    BY <2>1, <2>2 DEF Taken
  <2>. HIDE DEF q
  <2>4. /\ g[i] \in Seq(all) /\ Len(g[i]) = Len(q) + 1 /\ Sorted(g[i])
        /\ IsFiniteSet(Rest(all, g[i]))
        /\ Cardinality(Rest(all, g[i])) = Cardinality(Rest(all, q)) - 1
        /\ \A j \in DOMAIN g[i] : \A b \in Rest(all, g[i]) : g[i][j].at <= b.at
    BY <2>1, <2>2, <2>3, Extended DEF Taken
  <2>. QED
    BY <1>0, <2>1, <2>4 DEF Taken
<1>. HIDE DEF N
<1>3. 0..n \subseteq N
  BY <1>0, <1>1, <1>2, UpTo
<1>. QED
  BY <1>3 DEF N

LEMMA InOrderIs ==
  ASSUME NEW all \in SUBSET Scan, IsFiniteSet(all)
  PROVE  InOrder(all) \in Seq(all) /\ Sorted(InOrder(all))
<1>. DEFINE n == Cardinality(all)
            Put(q) == Append(q, Earliest(Rest(all, q)))
            P(sq) == sq = [i \in 0..n |-> IF i = 0 THEN <<>> ELSE Put(sq[i - 1])]
            A == CHOOSE sq : P(sq)
            step == [p \in Seq(all) \X (1..n) |->
                       IF Rest(all, p[1]) # {} THEN Put(p[1]) ELSE p[1]]
<1>0. n \in Nat /\ <<>> \in Seq(all)
  BY FS_CardinalityType
<1>1. step \in [Seq(all) \X (1..n) -> Seq(all)]
  <2>1. ASSUME NEW q \in Seq(all), Rest(all, q) # {} PROVE Put(q) \in Seq(all)
    <3>1. Rest(all, q) \in SUBSET Scan /\ Rest(all, q) \subseteq all
      BY DEF Rest
    <3>2. Earliest(Rest(all, q)) \in all
      BY <2>1, <3>1, EarliestIs
    <3>. QED
      BY <3>2
  <2>. HIDE DEF Put
  <2>. QED
    BY <2>1
<1>. HIDE DEF Put
<1>2. PICK f : Recursion(f, n, Seq(all), <<>>, step)
  BY <1>0, <1>1, RecExists
<1>3. /\ f \in [0..n -> Seq(all)]
      /\ \A i \in 0..n : f[i] = IF i = 0 THEN <<>> ELSE step[<<f[i - 1], i>>]
  BY <1>2 DEF Recursion
<1>4. f[0] = <<>>
  <2>. HIDE DEF n, step
  <2>1. 0 \in 0..n
    BY <1>0
  <2>. QED
    BY <1>3, <2>1
<1>5. ASSUME NEW i \in 1..n, Rest(all, f[i - 1]) # {} PROVE f[i] = Put(f[i - 1])
  <2>1. i \in 0..n /\ i - 1 \in 0..n /\ i # 0
    BY <1>0
  <2>2. f[i] = step[<<f[i - 1], i>>] /\ f[i - 1] \in Seq(all)
    BY <1>3, <2>1
  <2>. QED
    BY <2>2, <1>5
<1>6. \A i \in 0..n : Taken(all, f[i], i)
  <2>. HIDE DEF step
  <2>. QED
    BY <1>4, <1>5, TakenAll DEF Put
<1>7. P(f)
  <2>1. ASSUME NEW i \in 1..n PROVE Rest(all, f[i - 1]) # {}
    <3>1. Taken(all, f[i - 1], i - 1)
      BY <1>0, <1>6
    <3>2. Cardinality(Rest(all, f[i - 1])) # 0
      BY <1>0, <3>1 DEF Taken
    <3>. QED
      BY <3>2, FS_EmptySet
  <2>2. ASSUME NEW i \in 0..n PROVE f[i] = IF i = 0 THEN <<>> ELSE Put(f[i - 1])
    <3>1. CASE i = 0
      BY <1>4, <3>1
    <3>2. CASE i # 0
      <4>1. i \in 1..n
        BY <1>0, <3>2
      <4>. QED
        BY <1>5, <2>1, <3>2, <4>1
    <3>. QED
      BY <3>1, <3>2
  <2>. QED
    BY <1>3, <2>2
<1>. HIDE DEF P
<1>8. P(A)
  BY <1>7
<1>9. A[n] = InOrder(all)
  BY DEF P, Put, InOrder, Rest
<1>. HIDE DEF A
<1>10. \A i \in 0..n : A[i] = IF i = 0 THEN <<>> ELSE Put(A[i - 1])
  BY <1>8 DEF P
<1>11. \A i \in 0..n : Taken(all, A[i], i)
  <2>1. A[0] = <<>>
    BY <1>0, <1>10
  <2>2. ASSUME NEW i \in 1..n PROVE A[i] = Put(A[i - 1])
    <3>1. i \in 0..n /\ i # 0
      BY <1>0
    <3>. QED
      BY <1>10, <3>1
  <2>. QED
    BY <2>1, <2>2, TakenAll DEF Put
<1>. QED
  BY <1>0, <1>9, <1>11 DEF Taken

LEMMA FiniteImage ==
  ASSUME NEW S, IsFiniteSet(S), NEW f
  PROVE  IsFiniteSet({f[x] : x \in S})
<1>. DEFINE T == {f[x] : x \in S}
            g == [x \in S |-> f[x]]
<1>1. g \in Surjection(S, T)
  BY DEF Surjection
<1>. HIDE DEF T, g
<1>2. IsFiniteSet(T)
  BY <1>1, FS_Surjection
<1>. QED
  BY <1>2 DEF T

(* Only the largest offset can be chosen.                                  *)
LEMMA LastOffsetIs ==
  ASSUME NEW times \in [Drivers -> [0..SessionLaps -> Nat]]
  PROVE  LastOffset(times) \in Nat
<1>. DEFINE T(d) == times[d][SessionLaps]
            N == {m \in 0..NDrivers :
                    m = 0 \/ \E d \in 1..m : \A b \in 1..m : T(b) <= T(d)}
<1>0. /\ NDrivers \in Nat /\ NDrivers # 0 /\ SessionLaps \in 0..SessionLaps
      /\ \A d \in 1..NDrivers : T(d) \in Nat
  BY KnobsAre DEF Drivers
<1>. HIDE DEF T
<1>1. 0 \in N
  BY <1>0
<1>2. ASSUME NEW m \in 1..NDrivers, m - 1 \in N PROVE m \in N
  <2>0. m \in Nat /\ m \in 1..m /\ m \in 0..NDrivers /\ 1..m = 1..(m - 1) \cup {m}
    BY <1>0
  <2>1. CASE m - 1 = 0
    <3>1. \A b \in 1..m : T(b) <= T(m)
      BY <1>0, <2>0, <2>1
    <3>. QED
      BY <2>0, <3>1
  <2>2. CASE \E d \in 1..(m - 1) : \A b \in 1..(m - 1) : T(b) <= T(d)
    <3>1. PICK d \in 1..(m - 1) : \A b \in 1..(m - 1) : T(b) <= T(d)
      BY <2>2
    <3>2. T(d) \in Nat /\ T(m) \in Nat /\ \A b \in 1..(m - 1) : T(b) \in Nat
      BY <1>0
    <3>3. CASE T(m) <= T(d)
      <4>1. \A b \in 1..m : T(b) <= T(d)
        BY <2>0, <3>1, <3>3
      <4>. QED
        BY <2>0, <4>1
    <3>4. CASE T(d) < T(m)
      <4>1. \A b \in 1..m : T(b) <= T(m)
        BY <2>0, <3>1, <3>2, <3>4
      <4>. QED
        BY <2>0, <4>1
    <3>. QED
      BY <3>2, <3>3, <3>4
  <2>. QED
    BY <1>2, <2>1, <2>2
<1>. HIDE DEF N
<1>3. NDrivers \in N
  <2>1. 0..NDrivers \subseteq N
    BY <1>0, <1>1, <1>2, UpTo
  <2>. QED
    BY <1>0, <2>1
<1>4. \E d \in Drivers : \A b \in Drivers : T(b) <= T(d)
  BY <1>0, <1>3 DEF N, Drivers
<1>5. \E m \in {T(d) : d \in Drivers} : \A t \in {T(d) : d \in Drivers} : t <= m
  BY <1>4
<1>6. LastOffset(times) \in {T(d) : d \in Drivers}
  BY <1>5 DEF LastOffset, T
<1>. QED
  BY <1>0, <1>6 DEF Drivers

LEMMA CrossingsAre ==
  ASSUME NEW base \in Nat, NEW times \in [Drivers -> Runs],
         NEW stray \in [Strays -> StrayOffsets(times)],
         NEW cs, cs = Crossings(base, times, stray)
  PROVE  cs \in Seq(Scan) /\ Sorted(cs) /\ \A i \in DOMAIN cs : base <= cs[i].at
<1>. DEFINE all == Scans(base, times, stray)
            lapOf == [p \in Drivers \X (0..SessionLaps) |->
                        [who |-> p[1], lap |-> p[2], at |-> base + times[p[1]][p[2]]]]
            scanOf == [d \in Strays |-> [who |-> d, lap |-> 0, at |-> base + stray[d]]]
<1>0. /\ NDrivers \in Nat /\ SessionLaps \in Nat /\ UnknownTokenScans \in Nat
      /\ Drivers \subseteq Nat /\ Strays \subseteq Nat /\ 0..SessionLaps \subseteq Nat
  BY KnobsAre
<1>1. times \in [Drivers -> [0..SessionLaps -> Nat]]
  <2>1. Runs \subseteq [0..SessionLaps -> Nat]
    BY CrossingTimesType, KnobsAre DEF Runs
  <2>. QED
    BY <2>1
<1>2. StrayOffsets(times) \subseteq Nat
  BY <1>1, LastOffsetIs DEF StrayOffsets
<1>3. all = {lapOf[p] : p \in Drivers \X (0..SessionLaps)} \cup {scanOf[d] : d \in Strays}
  <2>1. {lapOf[p] : p \in Drivers \X (0..SessionLaps)}
          = {[who |-> d, lap |-> j, at |-> base + times[d][j]] : d \in Drivers, j \in 0..SessionLaps}
    <3>1. \A d \in Drivers, j \in 0..SessionLaps :
            lapOf[<<d, j>>] = [who |-> d, lap |-> j, at |-> base + times[d][j]]
      OBVIOUS
    <3>. HIDE DEF lapOf
    <3>. DEFINE L == {lapOf[p] : p \in Drivers \X (0..SessionLaps)}
                R == {[who |-> d, lap |-> j, at |-> base + times[d][j]] :
                        d \in Drivers, j \in 0..SessionLaps}
    <3>2. ASSUME NEW x \in L PROVE x \in R
      <4>1. PICK p \in Drivers \X (0..SessionLaps) : x = lapOf[p]
        OBVIOUS
      <4>2. PICK d \in Drivers, j \in 0..SessionLaps : p = <<d, j>>
        OBVIOUS
      <4>3. x = [who |-> d, lap |-> j, at |-> base + times[d][j]]
        BY <3>1, <4>1, <4>2
      <4>. QED
        BY <4>3
    <3>3. ASSUME NEW x \in R PROVE x \in L
      <4>1. PICK d \in Drivers, j \in 0..SessionLaps :
              x = [who |-> d, lap |-> j, at |-> base + times[d][j]]
        OBVIOUS
      <4>2. x = lapOf[<<d, j>>] /\ <<d, j>> \in Drivers \X (0..SessionLaps)
        BY <3>1, <4>1
      <4>. QED
        BY <4>2
    <3>. QED
      BY <3>2, <3>3
  <2>2. {scanOf[d] : d \in Strays}
          = {[who |-> d, lap |-> 0, at |-> base + stray[d]] : d \in Strays}
    OBVIOUS
  <2>. QED
    BY <2>1, <2>2 DEF Scans
<1>4. IsFiniteSet(all)
  <2>1. IsFiniteSet(Drivers) /\ IsFiniteSet(0..SessionLaps) /\ IsFiniteSet(Strays)
    BY <1>0, FS_Interval DEF Drivers, Strays
  <2>2. IsFiniteSet(Drivers \X (0..SessionLaps))
    BY <2>1, FS_Product
  <2>. HIDE DEF lapOf, scanOf
  <2>3. IsFiniteSet({lapOf[p] : p \in Drivers \X (0..SessionLaps)})
    BY <2>2, FiniteImage
  <2>4. IsFiniteSet({scanOf[d] : d \in Strays})
    BY <2>1, FiniteImage
  <2>. HIDE DEF all
  <2>. QED
    BY <1>3, <2>3, <2>4, FS_Union
<1>5. ASSUME NEW c \in all PROVE c \in Scan /\ base <= c.at
  <2>1. CASE c \in {lapOf[p] : p \in Drivers \X (0..SessionLaps)}
    <3>1. PICK d \in Drivers, j \in 0..SessionLaps :
            c = [who |-> d, lap |-> j, at |-> base + times[d][j]]
      BY <2>1
    <3>2. times[d][j] \in Nat /\ d \in Nat /\ j \in Nat
      BY <1>0, <1>1
    <3>. QED
      BY <3>1, <3>2 DEF Scan
  <2>2. CASE c \in {scanOf[d] : d \in Strays}
    <3>1. PICK d \in Strays : c = [who |-> d, lap |-> 0, at |-> base + stray[d]]
      BY <2>2
    <3>2. stray[d] \in Nat /\ d \in Nat
      BY <1>0, <1>2
    <3>. QED
      BY <3>1, <3>2 DEF Scan
  <2>. QED
    BY <1>3, <2>1, <2>2
<1>6. all \in SUBSET Scan
  BY <1>5
<1>. HIDE DEF all
<1>7. InOrder(all) \in Seq(all) /\ Sorted(InOrder(all))
  BY <1>4, <1>6, InOrderIs
<1>8. cs = InOrder(all)
  BY DEF Crossings, all
<1>. QED
  BY <1>5, <1>6, <1>7, <1>8

-----------------------------------------------------------------------------
(* The accumulator of GenerateSession, field by field.                     *)
Row == [best : Int, count : Nat]
Tracker == [prev : Int, laps : Nat]
HeldScan == [token : Nat, sid : Nat]

Event ==
  {Started(s, t) : s \in Nat, t \in Nat}
    \cup {CheckedIn(s, d, t) : s \in Nat, d \in Drivers, t \in Nat}
    \cup {LapRecorded(s, d, n, ms, t) :
            s \in Nat, d \in Drivers, n \in Nat, ms \in Int, t \in Nat}
    \cup {Offline(s, g, t) : s \in Nat, g \in Nat, t \in Nat}
    \cup {Online(s, t) : s \in Nat, t \in Nat}
    \cup {Ended(s, t, sum) :
            s \in Nat, t \in Nat, sum \in UNION {[D -> Row] : D \in SUBSET Drivers}}

LEMMA EventForms ==
  ASSUME NEW s \in Nat, NEW t \in Nat
  PROVE  /\ Started(s, t) \in Event
         /\ \A d \in Drivers : CheckedIn(s, d, t) \in Event
         /\ \A d \in Drivers, n \in Nat, ms \in Int : LapRecorded(s, d, n, ms, t) \in Event
         /\ \A g \in Nat : Offline(s, g, t) \in Event
         /\ Online(s, t) \in Event
         /\ \A D \in SUBSET Drivers : \A sum \in [D -> Row] : Ended(s, t, sum) \in Event
<1>1. Started(s, t) \in Event
  BY DEF Event
<1>2. ASSUME NEW d \in Drivers PROVE CheckedIn(s, d, t) \in Event
  BY DEF Event
<1>3. ASSUME NEW d \in Drivers, NEW n \in Nat, NEW ms \in Int
      PROVE  LapRecorded(s, d, n, ms, t) \in Event
  BY DEF Event
<1>4. ASSUME NEW g \in Nat PROVE Offline(s, g, t) \in Event
  BY DEF Event
<1>5. Online(s, t) \in Event
  BY DEF Event
<1>6. ASSUME NEW D \in SUBSET Drivers, NEW sum \in [D -> Row] PROVE Ended(s, t, sum) \in Event
  <2>1. sum \in UNION {[C -> Row] : C \in SUBSET Drivers}
    OBVIOUS
  <2>. QED
    BY <2>1 DEF Event
<1>. QED
  BY <1>1, <1>2, <1>3, <1>4, <1>5, <1>6

Acc ==
  [out : Seq(Event), held : Seq(HeldScan), track : [Drivers -> Tracker],
   reset : SUBSET Nat, sum : [Drivers -> Row], last : Nat]

BeginResult(a, s, base) ==
  /\ Len(a.out) = NDrivers + 1 /\ a.out[1] = Started(s, base)
  /\ \A j \in 2..Len(a.out) : a.out[j] = CheckedIn(s, j - 1, base)
  /\ a.held = <<>> /\ a.reset = {} /\ a.last = base
  /\ \A d \in Drivers : a.track[d] = NewTracker /\ a.sum[d] = NoRow

LEMMA BeginIs ==
  ASSUME NEW s \in Nat, NEW base \in Nat, NEW a, a = Begin(s, base)
  PROVE  a \in Acc /\ BeginResult(a, s, base)
<1>. USE DEF BeginResult
<1>. DEFINE ci == [d \in Drivers |-> CheckedIn(s, d, base)]
            one == <<Started(s, base)>>
<1>0. NDrivers \in Nat /\ Drivers = 1..NDrivers
  BY KnobsAre DEF Drivers
<1>1. ci \in Seq(Event) /\ Len(ci) = NDrivers /\ \A d \in 1..NDrivers : ci[d] = CheckedIn(s, d, base)
  <2>1. ci \in [1..NDrivers -> Event]
    BY <1>0, EventForms
  <2>. QED
    BY <1>0, <2>1
<1>2. one \in Seq(Event) /\ Len(one) = 1 /\ one[1] = Started(s, base)
  BY EventForms
<1>. HIDE DEF ci, one
<1>. DEFINE o == one \o ci
<1>3. /\ o \in Seq(Event) /\ Len(o) = NDrivers + 1 /\ o[1] = Started(s, base)
      /\ \A j \in 2..Len(o) : o[j] = ci[j - 1]
  <2>1. /\ o \in Seq(Event) /\ Len(o) = Len(one) + Len(ci)
        /\ \A j \in 1..(Len(one) + Len(ci)) :
             o[j] = IF j <= Len(one) THEN one[j] ELSE ci[j - Len(one)]
    BY <1>1, <1>2, ConcatProperties
  <2>. HIDE DEF o
  <2>2. \A j \in 2..(NDrivers + 1) : j \in 1..(Len(one) + Len(ci)) /\ ~ (j <= Len(one))
    BY <1>0, <1>1, <1>2
  <2>3. 1 \in 1..(Len(one) + Len(ci)) /\ 1 <= Len(one)
    BY <1>0, <1>1, <1>2
  <2>. QED
    BY <1>0, <1>1, <1>2, <2>1, <2>2, <2>3
<1>4. \A j \in 2..Len(o) : o[j] = CheckedIn(s, j - 1, base)
  BY <1>0, <1>1, <1>3
<1>5. a = [out |-> o, held |-> <<>>, track |-> [d \in Drivers |-> NewTracker], reset |-> {},
           sum |-> [d \in Drivers |-> NoRow], last |-> base]
  BY DEF Begin, one, ci
<1>6. NewTracker \in Tracker /\ NoRow \in Row
  BY DEF NewTracker, NoPrev, Tracker, NoRow, NoLap, Row
<1>. HIDE DEF o
<1>. QED
  BY <1>3, <1>4, <1>5, <1>6 DEF Acc

LEMMA OutageIs ==
  ASSUME NEW n \in Nat
  PROVE  /\ OutageStart(n) \in Nat /\ OutageStart(n) >= 2
         /\ OutageEnd(n) \in Nat
         /\ OutageActive(n) => OutageStart(n) < OutageEnd(n) /\ OutageEnd(n) <= n
<1>1. n \div 3 \in Int
  OBVIOUS
<1>2. ScannerOutageLaps \in Nat
  BY KnobsAre
<1>. QED
  BY <1>1, <1>2 DEF OutageStart, OutageEnd, OutageActive

MissResult(a, b, s, cs, i) ==
  /\ b.reset = a.reset \cup {cs[i].who}
  /\ b.held = a.held /\ b.track = a.track /\ b.sum = a.sum /\ b.last = a.last
  /\ IF i = OutageStart(Len(cs))
     THEN \E g \in Nat : b.out = Append(a.out, Offline(s, g, cs[i].at))
     ELSE b.out = a.out

LEMMA MissIs ==
  ASSUME NEW a \in Acc, NEW s \in Nat, NEW cs \in Seq(Scan), NEW i \in DOMAIN cs,
         Missed(Len(cs), i), NEW b, b = Miss(a, s, cs, i)
  PROVE  b \in Acc /\ MissResult(a, b, s, cs, i)
<1>. USE DEF MissResult
<1>. DEFINE e == Offline(s, cs[i - 1].at, cs[i].at)
            o == IF i = OutageStart(Len(cs)) THEN Append(a.out, e) ELSE a.out
<1>1. Len(cs) \in Nat /\ DOMAIN cs = 1..Len(cs) /\ cs[i] \in Scan
  OBVIOUS
<1>2. i - 1 \in DOMAIN cs
  <2>1. OutageStart(Len(cs)) \in Nat /\ OutageStart(Len(cs)) >= 2
    BY <1>1, OutageIs
  <2>2. OutageStart(Len(cs)) <= i
    BY DEF Missed
  <2>. QED
    BY <1>1, <2>1, <2>2
<1>3. cs[i - 1].at \in Nat /\ cs[i].at \in Nat /\ cs[i].who \in Nat
  <2>1. cs[i - 1] \in Scan
    BY <1>2
  <2>. QED
    BY <1>1, <2>1 DEF Scan
<1>4. e \in Event
  BY <1>3, EventForms
<1>5. a.out \in Seq(Event)
  BY DEF Acc
<1>6. o \in Seq(Event)
  BY <1>4, <1>5
<1>7. b = [a EXCEPT !.out = o, !.reset = a.reset \cup {cs[i].who}]
  BY DEF Miss, Acc
<1>8. IF i = OutageStart(Len(cs))
            THEN \E g \in Nat : o = Append(a.out, Offline(s, g, cs[i].at))
            ELSE o = a.out
  BY <1>3
<1>. HIDE DEF o
<1>. QED
  BY <1>3, <1>6, <1>7, <1>8, ZenonT(30) DEF Acc

RecoverResult(a, b, s, cs, i) ==
  /\ b.held = a.held /\ b.track = a.track /\ b.reset = a.reset
  /\ b.sum = a.sum /\ b.last = a.last
  /\ IF OutageActive(Len(cs)) /\ i = OutageEnd(Len(cs))
     THEN b.out = Append(a.out, Online(s, cs[i].at)) ELSE b.out = a.out

LEMMA RecoverIs ==
  ASSUME NEW a \in Acc, NEW s \in Nat, NEW cs \in Seq(Scan), NEW i \in DOMAIN cs,
         NEW b, b = Recover(a, s, cs, i)
  PROVE  b \in Acc /\ RecoverResult(a, b, s, cs, i)
<1>. USE DEF RecoverResult
<1>1. cs[i] \in Scan /\ a.out \in Seq(Event)
  BY DEF Acc
<1>2. Online(s, cs[i].at) \in Event
  BY <1>1, EventForms DEF Scan
<1>3. Append(a.out, Online(s, cs[i].at)) \in Seq(Event)
  BY <1>1, <1>2
<1>. QED
  BY <1>3 DEF Recover, Acc

HoldResult(a, b, s, c) ==
  /\ b.held = Append(a.held, [token |-> c.who, sid |-> s])
  /\ b.out = a.out /\ b.track = a.track /\ b.reset = a.reset
  /\ b.sum = a.sum /\ b.last = a.last

LEMMA HoldIs ==
  ASSUME NEW a \in Acc, NEW s \in Nat, NEW c \in Scan, NEW b, b = Hold(a, s, c)
  PROVE  b \in Acc /\ HoldResult(a, b, s, c)
<1>. USE DEF HoldResult
<1>1. [token |-> c.who, sid |-> s] \in HeldScan /\ a.held \in Seq(HeldScan)
  BY DEF Scan, HeldScan, Acc
<1>2. Append(a.held, [token |-> c.who, sid |-> s]) \in Seq(HeldScan)
  BY <1>1
<1>. QED
  BY <1>2 DEF Hold, Acc

RebaseResult(a, b, d) ==
  /\ b.out = a.out /\ b.held = a.held /\ b.sum = a.sum /\ b.last = a.last
  /\ b.reset = a.reset \ {d}
  /\ \A x \in Drivers : x # d => b.track[x] = a.track[x]
  /\ b.track[d].laps = a.track[d].laps
  /\ b.track[d].prev = IF d \in a.reset THEN NoPrev ELSE a.track[d].prev

LEMMA RebaseIs ==
  ASSUME NEW a \in Acc, NEW d \in Drivers, NEW b, b = Rebase(a, d)
  PROVE  b \in Acc /\ RebaseResult(a, b, d)
<1>. USE DEF RebaseResult
<1>1. a.track \in [Drivers -> Tracker] /\ a.reset \in SUBSET Nat
  BY DEF Acc
<1>2. CASE d \in a.reset
  <2>. DEFINE tr == [a.track EXCEPT ![d] = Reset(a.track[d])]
  <2>1. b = [a EXCEPT !.track = tr, !.reset = a.reset \ {d}]
    BY <1>2 DEF Rebase, Acc
  <2>2. /\ tr \in [Drivers -> Tracker] /\ \A x \in Drivers : x # d => tr[x] = a.track[x]
        /\ tr[d].laps = a.track[d].laps /\ tr[d].prev = NoPrev
    BY <1>1 DEF Reset, Tracker, NoPrev
  <2>. HIDE DEF tr
  <2>. QED
    BY <1>1, <1>2, <2>1, <2>2 DEF Acc
<1>3. CASE d \notin a.reset
  BY <1>1, <1>3 DEF Rebase
<1>. QED
  BY <1>2, <1>3

TakeResult(a, b, s, c) ==
  /\ b.held = a.held /\ b.reset = a.reset
  /\ \A x \in Drivers : x # c.who => b.track[x] = a.track[x] /\ b.sum[x] = a.sum[x]
  /\ CASE Outcome(a.track[c.who], c.at) = "StartMarker" ->
            /\ a.track[c.who].prev = NoPrev
            /\ b.out = a.out /\ b.sum = a.sum /\ b.last = a.last
            /\ b.track[c.who].prev = c.at /\ b.track[c.who].laps = a.track[c.who].laps
       [] Outcome(a.track[c.who], c.at) = "Rejected" ->
            /\ a.track[c.who].prev # NoPrev /\ c.at - a.track[c.who].prev < MinLapTimeMs
            /\ b.out = a.out /\ b.sum = a.sum /\ b.last = a.last
            /\ b.track[c.who] = a.track[c.who]
       [] Outcome(a.track[c.who], c.at) = "Counted" ->
            /\ a.track[c.who].prev # NoPrev /\ c.at - a.track[c.who].prev >= MinLapTimeMs
            /\ b.out = Append(a.out, LapRecorded(s, c.who, a.track[c.who].laps + 1,
                                                 c.at - a.track[c.who].prev, c.at))
            /\ b.track[c.who].prev = c.at /\ b.track[c.who].laps = a.track[c.who].laps + 1
            /\ b.sum[c.who] = AddLap(a.sum[c.who], c.at - a.track[c.who].prev)
            /\ b.last = c.at

LEMMA TakeCrossingIs ==
  ASSUME NEW a \in Acc, NEW s \in Nat, NEW c \in Scan, c.who \in Drivers,
         NEW b, b = TakeCrossing(a, s, c)
  PROVE  b \in Acc /\ TakeResult(a, b, s, c)
<1>. USE DEF TakeResult
<1>. DEFINE d == c.who
            tr == a.track[d]
            ms == c.at - tr.prev
            lap == LapRecorded(s, d, tr.laps + 1, ms, c.at)
            m == [a EXCEPT !.track = [a.track EXCEPT ![d] = Cross(tr, c.at)]]
<1>1. /\ a.track \in [Drivers -> Tracker] /\ a.sum \in [Drivers -> Row] /\ a.out \in Seq(Event)
      /\ tr \in Tracker /\ tr.prev \in Int /\ tr.laps \in Nat /\ c.at \in Nat /\ ms \in Int
      /\ MinLapTimeMs \in Nat
  BY KnobsAre, SMTT(30) DEF Acc, Tracker, Scan
<1>2. Outcome(tr, c.at) \in {"StartMarker", "Rejected", "Counted"}
  BY DEF Outcome
<1>3. Cross(tr, c.at) \in Tracker
  <2>1. CASE Outcome(tr, c.at) = "StartMarker"
    BY <1>1, <2>1, SMTT(30) DEF Cross, Tracker
  <2>2. CASE Outcome(tr, c.at) = "Rejected"
    BY <1>1, <2>2, SMTT(30) DEF Cross, Tracker
  <2>3. CASE Outcome(tr, c.at) = "Counted"
    BY <1>1, <2>3, SMTT(30) DEF Cross, Tracker
  <2>. QED
    BY <1>2, <2>1, <2>2, <2>3
<1>4. /\ m \in Acc /\ m.out = a.out /\ m.held = a.held /\ m.reset = a.reset
      /\ m.sum = a.sum /\ m.last = a.last
      /\ m.track[d] = Cross(tr, c.at) /\ \A x \in Drivers : x # d => m.track[x] = a.track[x]
  <2>. HIDE DEF tr
  <2>. QED
    BY <1>1, <1>3 DEF Acc
<1>5. b = IF Outcome(tr, c.at) # "Counted" THEN m
          ELSE [m EXCEPT !.out = Append(@, lap), !.sum[d] = AddLap(@, ms), !.last = c.at]
  BY DEF TakeCrossing, Acc
<1>. HIDE DEF m
<1>6. CASE Outcome(tr, c.at) = "StartMarker"
  <2>1. b = m /\ tr.prev = NoPrev
    BY <1>1, <1>5, <1>6 DEF Outcome
  <2>2. Cross(tr, c.at).prev = c.at /\ Cross(tr, c.at).laps = tr.laps
    BY <1>1, <1>6 DEF Cross, Tracker
  <2>. QED
    BY <1>4, <1>6, <2>1, <2>2
<1>7. CASE Outcome(tr, c.at) = "Rejected"
  <2>1. b = m /\ tr.prev # NoPrev /\ ms < MinLapTimeMs
    BY <1>1, <1>5, <1>7 DEF Outcome
  <2>2. Cross(tr, c.at) = tr
    BY <1>1, <1>7 DEF Cross, Tracker
  <2>. QED
    BY <1>4, <1>7, <2>1, <2>2
<1>8. CASE Outcome(tr, c.at) = "Counted"
  <2>1. tr.prev # NoPrev /\ ms >= MinLapTimeMs
    BY <1>1, <1>8 DEF Outcome
  <2>2. Cross(tr, c.at).prev = c.at /\ Cross(tr, c.at).laps = tr.laps + 1
    BY <1>1, <1>8 DEF Cross, Tracker
  <2>3. lap \in Event
    BY <1>1, EventForms
  <2>4. AddLap(a.sum[d], ms) \in Row
    <3>1. a.sum[d] \in Row
      BY <1>1
    <3>. QED
      BY <1>1, <3>1 DEF AddLap, Row
  <2>. HIDE DEF lap, ms
  <2>5. Append(a.out, lap) \in Seq(Event)
    BY <1>1, <2>3
  <2>. DEFINE nout == Append(a.out, lap)
              nsum == [a.sum EXCEPT ![d] = AddLap(a.sum[d], ms)]
  <2>6. b = [m EXCEPT !.out = nout, !.sum = nsum, !.last = c.at]
    BY <1>4, <1>5, <1>8 DEF Acc
  <2>7. nsum \in [Drivers -> Row] /\ nout \in Seq(Event) /\ c.at \in Nat
    BY <1>1, <2>4, <2>5
  <2>8. nsum[d] = AddLap(a.sum[d], ms) /\ \A x \in Drivers : x # d => nsum[x] = a.sum[x]
    BY <1>1
  <2>. HIDE DEF nout, nsum
  <2>9. /\ b \in Acc /\ b.held = m.held /\ b.reset = m.reset /\ b.track = m.track
        /\ b.out = nout /\ b.last = c.at /\ b.sum = nsum
    BY <1>4, <2>6, <2>7 DEF Acc
  <2>. QED
    BY <1>4, <1>8, <2>1, <2>2, <2>8, <2>9 DEF lap, ms, nout
<1>. QED
  BY <1>2, <1>6, <1>7, <1>8

LEMMA TurnType ==
  ASSUME NEW a \in Acc, NEW s \in Nat, NEW cs \in Seq(Scan), NEW i \in DOMAIN cs
  PROVE  Turn(a, s, cs, i) \in Acc
<1>0. cs[i] \in Scan
  OBVIOUS
<1>. DEFINE b == Recover(a, s, cs, i)
<1>1. CASE Missed(Len(cs), i)
  BY <1>1, MissIs DEF Turn
<1>2. b \in Acc
  BY RecoverIs
<1>. HIDE DEF b
<1>3. Hold(b, s, cs[i]) \in Acc
  BY <1>0, <1>2, HoldIs
<1>4. ASSUME cs[i].who \in Drivers PROVE TakeCrossing(Rebase(b, cs[i].who), s, cs[i]) \in Acc
  <2>1. Rebase(b, cs[i].who) \in Acc
    BY <1>2, <1>4, RebaseIs
  <2>. QED
    BY <1>0, <1>4, <2>1, TakeCrossingIs
<1>. QED
  BY <1>1, <1>3, <1>4 DEF Turn, b

(* The fold takes the crossings one turn each.                             *)
LEMMA SessionFoldIs ==
  ASSUME NEW s \in Nat, NEW base \in Nat, NEW cs \in Seq(Scan),
         NEW acc, acc = SessionFold(s, base, cs)
  PROVE  /\ acc \in [0..Len(cs) -> Acc]
         /\ acc[0] = Begin(s, base)
         /\ \A i \in 1..Len(cs) : acc[i] = Turn(acc[i - 1], s, cs, i)
<1>. DEFINE n == Len(cs)
            P(f) == f = [i \in 0..n |-> IF i = 0 THEN Begin(s, base) ELSE Turn(f[i - 1], s, cs, i)]
            A == CHOOSE f : P(f)
            step == [p \in Acc \X (1..n) |-> Turn(p[1], s, cs, p[2])]
<1>0. n \in Nat /\ DOMAIN cs = 1..n /\ Begin(s, base) \in Acc
  <2>1. Begin(s, base) \in Acc
    BY BeginIs
  <2>. QED
    BY <2>1
<1>1. step \in [Acc \X (1..n) -> Acc]
  BY <1>0, TurnType
<1>2. PICK f : Recursion(f, n, Acc, Begin(s, base), step)
  BY <1>0, <1>1, RecExists
<1>3. /\ f \in [0..n -> Acc]
      /\ \A i \in 0..n : f[i] = IF i = 0 THEN Begin(s, base) ELSE step[<<f[i - 1], i>>]
  BY <1>2 DEF Recursion
<1>4. ASSUME NEW i \in 0..n PROVE f[i] = IF i = 0 THEN Begin(s, base) ELSE Turn(f[i - 1], s, cs, i)
  <2>1. CASE i = 0
    BY <1>3, <2>1
  <2>2. CASE i # 0
    <3>1. i \in 1..n /\ i - 1 \in 0..n /\ f[i - 1] \in Acc
      BY <1>0, <1>3, <2>2
    <3>2. f[i] = step[<<f[i - 1], i>>]
      BY <1>3, <2>2
    <3>. QED
      BY <2>2, <3>1, <3>2
  <2>. QED
    BY <2>1, <2>2
<1>5. P(f)
  BY <1>3, <1>4
<1>. HIDE DEF P
<1>6. P(A)
  BY <1>5
<1>7. A = acc
  BY DEF P, SessionFold
<1>. HIDE DEF A
<1>8. /\ acc = [j \in 0..n |-> acc[j]]
      /\ \A i \in 0..n : acc[i] = IF i = 0 THEN Begin(s, base) ELSE Turn(acc[i - 1], s, cs, i)
  BY <1>6, <1>7 DEF P
<1>9. acc[0] = Begin(s, base) /\ \A i \in 1..n : acc[i] = Turn(acc[i - 1], s, cs, i)
  <2>1. 0 \in 0..n /\ \A i \in 1..n : i \in 0..n /\ i # 0
    BY <1>0
  <2>. QED
    BY <1>8, <2>1
<1>. DEFINE N == {j \in 0..n : acc[j] \in Acc}
<1>10. 0 \in N
  BY <1>0, <1>9
<1>11. ASSUME NEW i \in 1..n, i - 1 \in N PROVE i \in N
  <2>1. i \in 0..n /\ i \in DOMAIN cs /\ acc[i] = Turn(acc[i - 1], s, cs, i) /\ acc[i - 1] \in Acc
    BY <1>0, <1>9, <1>11
  <2>2. acc[i] \in Acc
    BY <2>1, TurnType
  <2>. QED
    BY <2>1, <2>2
<1>12. 0..n \subseteq N
  <2>. HIDE DEF N
  <2>. QED
    BY <1>0, <1>10, <1>11, UpTo
<1>. QED
  BY <1>8, <1>9, <1>12

-----------------------------------------------------------------------------
(* What the events say of one driver, against its crossings.               *)
LapIdx(E, d) == {j \in DOMAIN E : E[j].kind = "lap.recorded" /\ E[j].who = d}
Mine(cs, d) == {i \in DOMAIN cs : cs[i].who = d}
Gone(cs, i) == Missed(Len(cs), i)

FreshStart(cs, d, a) ==
  \A m \in Mine(cs, d) : m < a => \E q \in Mine(cs, d) : m <= q /\ q < a /\ Gone(cs, q)

(* The lap at j runs between crossings a and b of its driver, both seen    *)
(* and none missed in between, from the end of its previous lap or from    *)
(* where its clock started.                                                *)
HonestLap(E, j, cs, d) ==
  \E a, b \in Mine(cs, d) :
    /\ a < b /\ \A m \in Mine(cs, d) : a <= m /\ m <= b => ~ Gone(cs, m)
    /\ cs[b].at = E[j].at /\ cs[a].at = E[j].at - E[j].ms
    /\ E[j].ms >= MinLapTimeMs
    /\ \/ FreshStart(cs, d, a)
       \/ \E q \in LapIdx(E, d) : q < j /\ E[q].at = cs[a].at /\ E[q].n = E[j].n - 1

(* The summary row says what the laps say.                                 *)
Tally(E, d, row) ==
  /\ {E[j].n : j \in LapIdx(E, d)} = 1..row.count
  /\ \A j \in LapIdx(E, d) : row.best <= E[j].ms
  /\ row.count > 0 => \E j \in LapIdx(E, d) : row.best = E[j].ms

(* The clock runs from a crossing that was seen, with none missed since;   *)
(* a driver whose clock is off, or to be reset, is before an out-lap.      *)
Clock(E, d, tr, off, cs, i) ==
  IF off \/ tr.prev = NoPrev THEN FreshStart(cs, d, i + 1)
  ELSE \E a \in Mine(cs, d) :
         /\ a <= i /\ cs[a].at = tr.prev
         /\ \A m \in Mine(cs, d) : a <= m /\ m <= i => ~ Gone(cs, m)
         /\ \/ FreshStart(cs, d, a)
            \/ \E q \in LapIdx(E, d) : E[q].at = tr.prev /\ E[q].n = tr.laps

(* A lap that the rule counts, up to crossing i, is there.                 *)
CountedAll(E, d, cs, i) ==
  \A a, b \in Mine(cs, d) :
    (/\ b <= i /\ a < b /\ ~ Gone(cs, a) /\ ~ Gone(cs, b)
     /\ \A m \in Mine(cs, d) : ~ (a < m /\ m < b)
     /\ cs[b].at - cs[a].at >= MinLapTimeMs)
    => \E j \in LapIdx(E, d) : E[j].at = cs[b].at

DriverInv(E, d, tr, row, off, cs, i) ==
  /\ \A j \in LapIdx(E, d) : HonestLap(E, j, cs, d)
  /\ Tally(E, d, row) /\ row.count = tr.laps
  /\ Clock(E, d, tr, off, cs, i)
  /\ CountedAll(E, d, cs, i)

SameLaps(E, F, d) == LapIdx(F, d) = LapIdx(E, d) /\ \A j \in LapIdx(E, d) : F[j] = E[j]

(* F has one lap of d more, its last event.                                *)
OneMore(E, F, d) ==
  /\ Len(F) \notin LapIdx(E, d) /\ LapIdx(F, d) = LapIdx(E, d) \cup {Len(F)}
  /\ \A j \in LapIdx(E, d) : F[j] = E[j] /\ j < Len(F)

LEMMA Grown ==
  ASSUME NEW E \in Seq(Event), NEW e \in Event, NEW F, F = Append(E, e)
  PROVE  /\ F \in Seq(Event) /\ Len(F) = Len(E) + 1 /\ DOMAIN F = DOMAIN E \cup {Len(F)}
         /\ \A j \in DOMAIN E : F[j] = E[j] /\ j \in Nat /\ j < Len(F)
         /\ Len(F) \notin DOMAIN E /\ F[Len(F)] = e
         /\ \A d \in Drivers : IF e.kind = "lap.recorded" /\ e.who = d
                               THEN OneMore(E, F, d) ELSE SameLaps(E, F, d)
<1>1. /\ F \in Seq(Event) /\ Len(F) = Len(E) + 1 /\ Len(E) \in Nat
      /\ DOMAIN E = 1..Len(E) /\ DOMAIN F = 1..(Len(E) + 1)
      /\ F[Len(F)] = e /\ \A j \in DOMAIN E : F[j] = E[j]
  OBVIOUS
<1>2. /\ DOMAIN F = DOMAIN E \cup {Len(F)} /\ Len(F) \notin DOMAIN E
      /\ \A j \in DOMAIN E : F[j] = E[j] /\ j \in Nat /\ j < Len(F)
  BY <1>1
<1>3. ASSUME NEW d \in Drivers
      PROVE  IF e.kind = "lap.recorded" /\ e.who = d THEN OneMore(E, F, d) ELSE SameLaps(E, F, d)
  BY <1>1, <1>2 DEF OneMore, SameLaps, LapIdx
<1>. QED
  BY <1>1, <1>2, <1>3

(* The laps of a driver are all that the invariant looks at.               *)
LEMMA HonestCarried ==
  ASSUME NEW E, NEW F, NEW d, NEW cs, NEW j \in LapIdx(E, d), HonestLap(E, j, cs, d),
         LapIdx(E, d) \subseteq LapIdx(F, d), \A q \in LapIdx(E, d) : F[q] = E[q]
  PROVE  HonestLap(F, j, cs, d)
BY DEF HonestLap

LEMMA TallyCarried ==
  ASSUME NEW E, NEW F, NEW d, NEW row, SameLaps(E, F, d), Tally(E, d, row)
  PROVE  Tally(F, d, row)
<1>1. {F[j].n : j \in LapIdx(F, d)} = {E[j].n : j \in LapIdx(E, d)}
  BY DEF SameLaps
<1>. QED
  BY <1>1 DEF SameLaps, Tally

(* A turn that leaves the driver alone: the crossing is not its own.       *)
LEMMA OthersTurn ==
  ASSUME NEW cs \in Seq(Scan), NEW i \in DOMAIN cs, NEW d \in Drivers, cs[i].who # d,
         NEW E, NEW F, SameLaps(E, F, d), NEW tr, NEW row, NEW off,
         DriverInv(E, d, tr, row, off, cs, i - 1)
  PROVE  DriverInv(F, d, tr, row, off, cs, i)
<1>1. i \in Nat /\ \A m \in Mine(cs, d) : m \in Nat /\ (m <= i <=> m <= i - 1) /\ (m < i + 1 <=> m < i - 1 + 1)
  <2>1. \A m \in Mine(cs, d) : m \in Nat /\ m # i
    BY DEF Mine
  <2>. QED
    BY <2>1
<1>2. FreshStart(cs, d, i - 1 + 1) => FreshStart(cs, d, i + 1)
  BY <1>1 DEF FreshStart
<1>3. Clock(F, d, tr, off, cs, i)
  BY <1>1, <1>2 DEF DriverInv, Clock, SameLaps
<1>4. CountedAll(F, d, cs, i)
  BY <1>1 DEF DriverInv, CountedAll, SameLaps
<1>5. \A j \in LapIdx(F, d) : HonestLap(F, j, cs, d)
  BY HonestCarried DEF DriverInv, SameLaps
<1>6. Tally(F, d, row)
  BY TallyCarried DEF DriverInv
<1>. QED
  BY <1>3, <1>4, <1>5, <1>6 DEF DriverInv

(* The driver's crossing is missed: it is before an out-lap.               *)
LEMMA MissedTurn ==
  ASSUME NEW cs \in Seq(Scan), NEW i \in DOMAIN cs, NEW d \in Drivers, cs[i].who = d,
         Gone(cs, i),
         NEW E, NEW F, SameLaps(E, F, d), NEW tr, NEW row, NEW off,
         DriverInv(E, d, tr, row, off, cs, i - 1)
  PROVE  DriverInv(F, d, tr, row, TRUE, cs, i)
<1>1. i \in Nat /\ i \in Mine(cs, d) /\ \A m \in Mine(cs, d) : m \in Nat
  BY DEF Mine
<1>2. FreshStart(cs, d, i + 1)
  <2>1. \A m \in Mine(cs, d) : m < i + 1 => m <= i /\ i < i + 1
    BY <1>1
  <2>. QED
    BY <1>1, <2>1 DEF FreshStart
<1>3. Clock(F, d, tr, TRUE, cs, i)
  BY <1>2 DEF Clock
<1>4. CountedAll(F, d, cs, i)
  <2>1. \A b \in Mine(cs, d) : b <= i /\ ~ Gone(cs, b) => b <= i - 1
    BY <1>1
  <2>. QED
    BY <2>1 DEF DriverInv, CountedAll, SameLaps
<1>5. \A j \in LapIdx(F, d) : HonestLap(F, j, cs, d)
  BY HonestCarried DEF DriverInv, SameLaps
<1>6. Tally(F, d, row)
  BY TallyCarried DEF DriverInv
<1>. QED
  BY <1>3, <1>4, <1>5, <1>6 DEF DriverInv

(* When the rule counts the lap that ends at i, the clock is running and   *)
(* started no later than the lap.                                          *)
LEMMA ClockRuns ==
  ASSUME NEW cs \in Seq(Scan), Sorted(cs), NEW i \in DOMAIN cs, NEW d \in Drivers,
         NEW E, NEW tr \in Tracker, NEW off, Clock(E, d, tr, off, cs, i - 1),
         NEW a \in Mine(cs, d), a < i, ~ Gone(cs, a),
         \A m \in Mine(cs, d) : ~ (a < m /\ m < i),
         cs[i].at - cs[a].at >= MinLapTimeMs
  PROVE  ~ off /\ tr.prev # NoPrev /\ cs[i].at - tr.prev >= MinLapTimeMs
<1>1. i \in Nat /\ \A m \in Mine(cs, d) : m \in Nat /\ m \in DOMAIN cs
  BY DEF Mine
<1>2. ~ FreshStart(cs, d, i - 1 + 1)
  <2>1. ASSUME FreshStart(cs, d, i - 1 + 1) PROVE FALSE
    <3>1. PICK q \in Mine(cs, d) : a <= q /\ q < i - 1 + 1 /\ Gone(cs, q)
      <4>1. a < i - 1 + 1
        BY <1>1
      <4>. QED
        BY <2>1, <4>1 DEF FreshStart
    <3>2. q = a
      BY <1>1, <3>1
    <3>. QED
      BY <3>1, <3>2
  <2>. QED
    BY <2>1
<1>3. ~ off /\ tr.prev # NoPrev
  BY <1>2 DEF Clock
<1>4. PICK c \in Mine(cs, d) : c <= i - 1 /\ cs[c].at = tr.prev
  BY <1>3 DEF Clock
<1>5. c <= a
  BY <1>1, <1>4
<1>6. cs[c].at <= cs[a].at
  BY <1>1, <1>5 DEF Sorted
<1>7. cs[c].at \in Nat /\ cs[a].at \in Nat /\ cs[i].at \in Nat /\ MinLapTimeMs \in Nat
  <2>1. cs[c] \in Scan /\ cs[a] \in Scan /\ cs[i] \in Scan
    BY <1>1
  <2>. QED
    BY <2>1, KnobsAre DEF Scan
<1>. QED
  BY <1>3, <1>4, <1>6, <1>7

(* The driver's clock starts: an out-lap.                                  *)
LEMMA StartTurn ==
  ASSUME NEW cs \in Seq(Scan), Sorted(cs), NEW i \in DOMAIN cs, NEW d \in Drivers,
         cs[i].who = d, ~ Gone(cs, i),
         NEW E, NEW F, SameLaps(E, F, d), NEW tr \in Tracker, NEW row, NEW off,
         DriverInv(E, d, tr, row, off, cs, i - 1),
         off \/ tr.prev = NoPrev,
         NEW tn, tn.prev = cs[i].at, tn.laps = tr.laps
  PROVE  DriverInv(F, d, tn, row, FALSE, cs, i)
<1>1. /\ i \in Nat /\ i \in Mine(cs, d) /\ i - 1 + 1 = i
      /\ \A m \in Mine(cs, d) : m \in Nat
  BY DEF Mine
<1>2. FreshStart(cs, d, i)
  BY <1>1 DEF DriverInv, Clock
<1>3. Clock(F, d, tn, FALSE, cs, i)
  <2>1. cs[i].at \in Nat
    <3>1. cs[i] \in Scan
      OBVIOUS
    <3>. QED
      BY <3>1 DEF Scan
  <2>2. tn.prev # NoPrev
    BY <2>1 DEF NoPrev
  <2>3. \A m \in Mine(cs, d) : i <= m /\ m <= i => ~ Gone(cs, m)
    BY <1>1
  <2>4. i <= i
    BY <1>1
  <2>. QED
    BY <1>1, <1>2, <2>2, <2>3, <2>4 DEF Clock
<1>4. CountedAll(F, d, cs, i)
  <2>. SUFFICES ASSUME NEW a \in Mine(cs, d), NEW b \in Mine(cs, d),
                       b <= i, a < b, ~ Gone(cs, a), ~ Gone(cs, b),
                       \A m \in Mine(cs, d) : ~ (a < m /\ m < b),
                       cs[b].at - cs[a].at >= MinLapTimeMs
                PROVE  \E j \in LapIdx(F, d) : F[j].at = cs[b].at
    BY DEF CountedAll
  <2>1. CASE b = i
    <3>1. Clock(E, d, tr, off, cs, i - 1)
      BY DEF DriverInv
    <3>2. ~ off /\ tr.prev # NoPrev
      BY <2>1, <3>1, ClockRuns
    <3>. QED
      BY <3>2
  <2>2. CASE b # i
    <3>1. b <= i - 1
      BY <1>1, <2>2
    <3>. QED
      BY <3>1 DEF DriverInv, CountedAll, SameLaps
  <2>. QED
    BY <2>1, <2>2
<1>5. \A j \in LapIdx(F, d) : HonestLap(F, j, cs, d)
  BY HonestCarried DEF DriverInv, SameLaps
<1>6. Tally(F, d, row)
  BY TallyCarried DEF DriverInv
<1>. QED
  BY <1>3, <1>4, <1>5, <1>6 DEF DriverInv

(* A crossing within the minimum: the clock runs on.                       *)
LEMMA RejectedTurn ==
  ASSUME NEW cs \in Seq(Scan), Sorted(cs), NEW i \in DOMAIN cs, NEW d \in Drivers,
         cs[i].who = d, ~ Gone(cs, i),
         NEW E, NEW F, SameLaps(E, F, d), NEW tr \in Tracker, NEW row,
         DriverInv(E, d, tr, row, FALSE, cs, i - 1),
         tr.prev # NoPrev, cs[i].at - tr.prev < MinLapTimeMs
  PROVE  DriverInv(F, d, tr, row, FALSE, cs, i)
<1>1. /\ i \in Nat /\ i \in Mine(cs, d)
      /\ \A m \in Mine(cs, d) : m \in Nat /\ (m <= i => m <= i - 1 \/ m = i)
  BY DEF Mine
<1>3. Clock(F, d, tr, FALSE, cs, i)
  <2>1. PICK a \in Mine(cs, d) :
         /\ a <= i - 1 /\ cs[a].at = tr.prev
         /\ \A m \in Mine(cs, d) : a <= m /\ m <= i - 1 => ~ Gone(cs, m)
         /\ \/ FreshStart(cs, d, a)
            \/ \E q \in LapIdx(E, d) : E[q].at = tr.prev /\ E[q].n = tr.laps
    BY DEF DriverInv, Clock
  <2>2. a <= i /\ \A m \in Mine(cs, d) : a <= m /\ m <= i => ~ Gone(cs, m)
    BY <1>1, <2>1
  <2>. QED
    BY <2>1, <2>2 DEF Clock, SameLaps
<1>4. CountedAll(F, d, cs, i)
  <2>. SUFFICES ASSUME NEW a \in Mine(cs, d), NEW b \in Mine(cs, d),
                       b <= i, a < b, ~ Gone(cs, a), ~ Gone(cs, b),
                       \A m \in Mine(cs, d) : ~ (a < m /\ m < b),
                       cs[b].at - cs[a].at >= MinLapTimeMs
                PROVE  \E j \in LapIdx(F, d) : F[j].at = cs[b].at
    BY DEF CountedAll
  <2>1. CASE b = i
    <3>1. Clock(E, d, tr, FALSE, cs, i - 1)
      BY DEF DriverInv
    <3>2. cs[i].at - tr.prev >= MinLapTimeMs
      BY <2>1, <3>1, ClockRuns
    <3>3. cs[i].at - tr.prev \in Int /\ MinLapTimeMs \in Nat
      <4>1. cs[i] \in Scan
        OBVIOUS
      <4>. QED
        BY <4>1, KnobsAre DEF Scan, Tracker
    <3>. QED
      BY <3>2, <3>3
  <2>2. CASE b # i
    <3>1. b <= i - 1
      BY <1>1, <2>2
    <3>. QED
      BY <3>1 DEF DriverInv, CountedAll, SameLaps
  <2>. QED
    BY <2>1, <2>2
<1>5. \A j \in LapIdx(F, d) : HonestLap(F, j, cs, d)
  BY HonestCarried DEF DriverInv, SameLaps
<1>6. Tally(F, d, row)
  BY TallyCarried DEF DriverInv
<1>. QED
  BY <1>3, <1>4, <1>5, <1>6 DEF DriverInv

(* One lap more in the summary row.                                        *)
LEMMA TallyAdds ==
  ASSUME NEW E, NEW F, NEW d, OneMore(E, F, d), NEW row \in Row, Tally(E, d, row),
         NEW ms \in Int, F[Len(F)].ms = ms, F[Len(F)].n = row.count + 1,
         \A j \in LapIdx(E, d) : E[j].ms \in Int,
         NEW rn, rn = AddLap(row, ms)
  PROVE  Tally(F, d, rn) /\ rn.count = row.count + 1
<1>. DEFINE l == Len(F)
<1>1. row.best \in Int /\ row.count \in Nat
  BY DEF Row
<1>2. rn.count = row.count + 1 /\ rn.best = IF row.count = 0 \/ ms < row.best THEN ms ELSE row.best
  BY DEF AddLap
<1>3. /\ LapIdx(F, d) = LapIdx(E, d) \cup {l} /\ l \notin LapIdx(E, d)
      /\ \A j \in LapIdx(E, d) : F[j] = E[j]
  BY DEF OneMore
<1>4. {F[j].n : j \in LapIdx(F, d)} = {E[j].n : j \in LapIdx(E, d)} \cup {row.count + 1}
  BY <1>3
<1>5. {F[j].n : j \in LapIdx(F, d)} = 1..rn.count
  <2>1. {E[j].n : j \in LapIdx(E, d)} = 1..row.count
    BY DEF Tally
  <2>2. 1..row.count \cup {row.count + 1} = 1..(row.count + 1)
    BY <1>1
  <2>. QED
    BY <1>2, <1>4, <2>1, <2>2
<1>6. row.count = 0 => LapIdx(E, d) = {}
  <2>1. \A j \in LapIdx(E, d) : E[j].n \in 1..row.count
    BY DEF Tally
  <2>. QED
    BY <2>1
<1>7. \A j \in LapIdx(F, d) : rn.best <= F[j].ms
  <2>1. rn.best <= ms
    BY <1>1, <1>2
  <2>2. ASSUME NEW j \in LapIdx(E, d) PROVE rn.best <= E[j].ms
    <3>1. row.count # 0 /\ row.best <= E[j].ms /\ E[j].ms \in Int
      BY <1>6 DEF Tally
    <3>. QED
      BY <1>1, <1>2, <3>1
  <2>. QED
    BY <1>3, <2>1, <2>2
<1>8. \E j \in LapIdx(F, d) : rn.best = F[j].ms
  <2>1. CASE row.count = 0 \/ ms < row.best
    BY <1>2, <1>3, <2>1
  <2>2. CASE ~ (row.count = 0 \/ ms < row.best)
    <3>1. PICK j \in LapIdx(E, d) : row.best = E[j].ms
      BY <1>1, <2>2 DEF Tally
    <3>. QED
      BY <1>2, <1>3, <2>2, <3>1
  <2>. QED
    BY <2>1, <2>2
<1>. QED
  BY <1>2, <1>5, <1>7, <1>8 DEF Tally

(* A lap is counted.                                                       *)
LEMMA CountedTurn ==
  ASSUME NEW cs \in Seq(Scan), Sorted(cs), NEW i \in DOMAIN cs, NEW d \in Drivers,
         cs[i].who = d, ~ Gone(cs, i),
         NEW E, NEW F, OneMore(E, F, d), NEW tr \in Tracker, NEW row \in Row,
         \A j \in LapIdx(E, d) : E[j].ms \in Int,
         DriverInv(E, d, tr, row, FALSE, cs, i - 1),
         tr.prev # NoPrev, cs[i].at - tr.prev >= MinLapTimeMs,
         NEW s, F[Len(F)] = LapRecorded(s, d, tr.laps + 1, cs[i].at - tr.prev, cs[i].at),
         NEW tn, tn.prev = cs[i].at, tn.laps = tr.laps + 1,
         NEW rn, rn = AddLap(row, cs[i].at - tr.prev)
  PROVE  DriverInv(F, d, tn, rn, FALSE, cs, i)
<1>. DEFINE l == Len(F)
<1>1. /\ i \in Nat /\ i \in Mine(cs, d)
      /\ \A m \in Mine(cs, d) : m \in Nat /\ (m <= i => m <= i - 1 \/ m = i)
  BY DEF Mine
<1>2. cs[i].at \in Nat /\ tr.prev \in Int /\ tr.laps \in Nat /\ cs[i].at - tr.prev \in Int
  <2>1. cs[i] \in Scan
    OBVIOUS
  <2>. QED
    BY <2>1 DEF Scan, Tracker
<1>3. F[l].n = tr.laps + 1 /\ F[l].ms = cs[i].at - tr.prev /\ F[l].at = cs[i].at
  BY DEF LapRecorded
<1>4. /\ LapIdx(F, d) = LapIdx(E, d) \cup {l}
      /\ \A j \in LapIdx(E, d) : F[j] = E[j] /\ j < l
  BY DEF OneMore
<1>5. PICK a \in Mine(cs, d) :
         /\ a <= i - 1 /\ cs[a].at = tr.prev
         /\ \A m \in Mine(cs, d) : a <= m /\ m <= i - 1 => ~ Gone(cs, m)
         /\ \/ FreshStart(cs, d, a)
            \/ \E q \in LapIdx(E, d) : E[q].at = tr.prev /\ E[q].n = tr.laps
  BY DEF DriverInv, Clock
<1>6. HonestLap(F, l, cs, d)
  <2>1. a < i /\ \A m \in Mine(cs, d) : a <= m /\ m <= i => ~ Gone(cs, m)
    BY <1>1, <1>5
  <2>2. cs[a].at = F[l].at - F[l].ms /\ F[l].ms >= MinLapTimeMs /\ F[l].n - 1 = tr.laps
    <3>. DEFINE t == cs[i].at
                p == tr.prev
                w == tr.laps
    <3>1. t \in Nat /\ p \in Int /\ w \in Nat /\ t - (t - p) = p /\ (w + 1) - 1 = w
      BY <1>2, SMTT(30)
    <3>2. F[l].at - F[l].ms = t - (t - p) /\ F[l].n - 1 = (w + 1) - 1
      BY <1>3
    <3>3. F[l].ms >= MinLapTimeMs
      BY <1>3
    <3>. QED
      BY <1>5, <3>1, <3>2, <3>3
  <2>3. \/ FreshStart(cs, d, a)
        \/ \E q \in LapIdx(F, d) : q < l /\ F[q].at = cs[a].at /\ F[q].n = F[l].n - 1
    BY <1>4, <1>5, <2>2
  <2>. QED
    BY <1>1, <1>3, <2>1, <2>2, <2>3 DEF HonestLap
<1>7. \A j \in LapIdx(F, d) : HonestLap(F, j, cs, d)
  <2>1. \A j \in LapIdx(E, d) : HonestLap(F, j, cs, d)
    BY <1>4, HonestCarried DEF DriverInv
  <2>. QED
    BY <1>4, <1>6, <2>1
<1>8. Tally(F, d, rn) /\ rn.count = tn.laps
  <2>1. row.count = tr.laps /\ Tally(E, d, row)
    BY DEF DriverInv
  <2>2. Tally(F, d, rn) /\ rn.count = row.count + 1
    BY <1>2, <1>3, <2>1, TallyAdds
  <2>. QED
    BY <2>1, <2>2
<1>9. Clock(F, d, tn, FALSE, cs, i)
  <2>1. tn.prev # NoPrev
    BY <1>2 DEF NoPrev
  <2>2. i <= i /\ \A m \in Mine(cs, d) : i <= m /\ m <= i => ~ Gone(cs, m)
    BY <1>1
  <2>3. \E q \in LapIdx(F, d) : F[q].at = tn.prev /\ F[q].n = tn.laps
    BY <1>3, <1>4
  <2>. QED
    BY <1>1, <2>1, <2>2, <2>3 DEF Clock
<1>10. CountedAll(F, d, cs, i)
  <2>1. \A b \in Mine(cs, d) : b <= i => b = i \/ b <= i - 1
    BY <1>1
  <2>2. \E j \in LapIdx(F, d) : F[j].at = cs[i].at
    BY <1>3, <1>4
  <2>. QED
    BY <1>4, <2>1, <2>2 DEF DriverInv, CountedAll
<1>. QED
  BY <1>7, <1>8, <1>9, <1>10 DEF DriverInv

-----------------------------------------------------------------------------
(* What the events say of the session as a whole.                          *)
Inner(e, s, base) ==
  /\ e.sid = s /\ e.at \in Nat /\ base <= e.at
  /\ e.kind \in {"driver.checked_in", "lap.recorded", "scanner.offline", "scanner.online"}
  /\ e.kind = "lap.recorded" => e.who \in Drivers /\ e.ms \in Nat \ {0}

Body(E, s, base) ==
  /\ Len(E) >= 1 /\ E[1] = Started(s, base)
  /\ \A j \in DOMAIN E : j # 1 => Inner(E[j], s, base)

LapsBy(E, t) == \A j \in DOMAIN E : E[j].kind = "lap.recorded" => E[j].at <= t

Off(E) == {j \in DOMAIN E : E[j].kind = "scanner.offline"}
On(E) == {j \in DOMAIN E : E[j].kind = "scanner.online"}

(* The scanner goes off at most once, and comes on only afterwards.        *)
OneOutage(E) ==
  /\ \A j, l \in Off(E) : j = l
  /\ \A l \in On(E) : Off(E) # {} /\ \A j \in Off(E) : j < l

OutageInv(E, n, i) ==
  /\ OneOutage(E)
  /\ Off(E) # {} => OutageActive(n) /\ OutageStart(n) <= i
  /\ On(E) # {} => OutageActive(n) /\ OutageEnd(n) <= i
  /\ OutageActive(n) /\ OutageStart(n) <= i => Off(E) # {}

HeldInv(held, s, cs, i) ==
  \A m \in DOMAIN cs : m <= i /\ cs[m].who \notin Drivers /\ ~ Gone(cs, m) =>
    \E x \in DOMAIN held : held[x] = [token |-> cs[m].who, sid |-> s]

FoldInv(a, s, base, cs, i) ==
  /\ Body(a.out, s, base)
  /\ LapsBy(a.out, a.last) /\ base <= a.last
  /\ \A j \in DOMAIN cs : i <= j => a.last <= cs[j].at
  /\ OutageInv(a.out, Len(cs), i)
  /\ HeldInv(a.held, s, cs, i)
  /\ \A d \in Drivers : DriverInv(a.out, d, a.track[d], a.sum[d], d \in a.reset, cs, i)

LEMMA BodyGrows ==
  ASSUME NEW E \in Seq(Event), NEW s, NEW base, Body(E, s, base),
         NEW e \in Event, Inner(e, s, base), NEW F, F = Append(E, e)
  PROVE  Body(F, s, base)
<1>1. /\ Len(F) = Len(E) + 1 /\ DOMAIN F = DOMAIN E \cup {Len(F)} /\ F[Len(F)] = e
      /\ \A j \in DOMAIN E : F[j] = E[j]
  BY Grown
<1>2. 1 \in DOMAIN E /\ Len(E) \in Nat /\ Len(E) >= 1
  BY DEF Body
<1>. QED
  BY <1>1, <1>2 DEF Body

LEMMA OutageGrows ==
  ASSUME NEW E \in Seq(Event), NEW e \in Event, NEW F, F = Append(E, e)
  PROVE  /\ Off(F) = IF e.kind = "scanner.offline" THEN Off(E) \cup {Len(F)} ELSE Off(E)
         /\ On(F) = IF e.kind = "scanner.online" THEN On(E) \cup {Len(F)} ELSE On(E)
         /\ \A j \in Off(E) \cup On(E) : j < Len(F)
<1>1. /\ DOMAIN F = DOMAIN E \cup {Len(F)} /\ F[Len(F)] = e
      /\ \A j \in DOMAIN E : F[j] = E[j] /\ j < Len(F)
  BY Grown
<1>. QED
  BY <1>1 DEF Off, On

LEMMA LapsByGrows ==
  ASSUME NEW E \in Seq(Event), NEW e \in Event, NEW F, F = Append(E, e), NEW t, LapsBy(E, t),
         e.kind = "lap.recorded" => e.at <= t
  PROVE  LapsBy(F, t)
<1>1. /\ DOMAIN F = DOMAIN E \cup {Len(F)} /\ F[Len(F)] = e
      /\ \A j \in DOMAIN E : F[j] = E[j]
  BY Grown
<1>. QED
  BY <1>1 DEF LapsBy

(* The outage events of a turn, and no lap: F is E, or E and the one       *)
(* scanner event that this crossing brings.                                *)
ScannerStep(E, F, s, cs, i) ==
  LET n == Len(cs)
  IN  \/ /\ F = E
         /\ ~ (OutageActive(n) /\ i = OutageStart(n)) /\ ~ (OutageActive(n) /\ i = OutageEnd(n))
      \/ /\ OutageActive(n) /\ i = OutageStart(n)
         /\ \E g \in Nat : F = Append(E, Offline(s, g, cs[i].at))
      \/ /\ OutageActive(n) /\ i = OutageEnd(n)
         /\ F = Append(E, Online(s, cs[i].at))

LEMMA ScannerTurn ==
  ASSUME NEW E \in Seq(Event), NEW s \in Nat, NEW base \in Nat, NEW cs \in Seq(Scan),
         NEW i \in DOMAIN cs, base <= cs[i].at, NEW F, ScannerStep(E, F, s, cs, i),
         Body(E, s, base), NEW t, LapsBy(E, t), OutageInv(E, Len(cs), i - 1)
  PROVE  /\ F \in Seq(Event) /\ Body(F, s, base) /\ LapsBy(F, t) /\ OutageInv(F, Len(cs), i)
         /\ \A d \in Drivers : SameLaps(E, F, d)
<1>. DEFINE n == Len(cs)
            S == OutageStart(n)
            R == OutageEnd(n)
<1>1. /\ n \in Nat /\ i \in 1..n /\ S \in Nat /\ R \in Nat
      /\ OutageActive(n) => S < R
  <2>1. n \in Nat /\ i \in 1..n
    OBVIOUS
  <2>. QED
    BY <2>1, OutageIs
<1>2. cs[i].at \in Nat
  <2>1. cs[i] \in Scan
    OBVIOUS
  <2>. QED
    BY <2>1 DEF Scan
<1>. HIDE DEF n, S, R
<1>3. CASE F = E /\ ~ (OutageActive(n) /\ i = S) /\ ~ (OutageActive(n) /\ i = R)
  <2>1. (S <= i - 1 => S <= i) /\ (R <= i - 1 => R <= i) /\ (OutageActive(n) /\ S <= i => S <= i - 1)
    BY <1>1, <1>3
  <2>2. OutageInv(F, n, i)
    BY <1>3, <2>1 DEF OutageInv, n, S, R
  <2>. QED
    BY <1>3, <2>2 DEF SameLaps, n
<1>4. CASE OutageActive(n) /\ i = S /\ \E g \in Nat : F = Append(E, Offline(s, g, cs[i].at))
  <2>1. PICK g \in Nat : F = Append(E, Offline(s, g, cs[i].at))
    BY <1>4
  <2>. DEFINE e == Offline(s, g, cs[i].at)
  <2>2. e \in Event
    BY <1>2, EventForms
  <2>3. e.kind = "scanner.offline" /\ Inner(e, s, base)
    BY <1>2 DEF Inner, Offline
  <2>. HIDE DEF e
  <2>4. F = Append(E, e)
    BY <2>1 DEF e
  <2>5. F \in Seq(Event) /\ \A d \in Drivers : SameLaps(E, F, d)
    BY <2>2, <2>3, <2>4, Grown
  <2>6. Body(F, s, base)
    BY <2>2, <2>3, <2>4, BodyGrows
  <2>7. LapsBy(F, t)
    BY <2>2, <2>3, <2>4, LapsByGrows
  <2>8. Off(F) = Off(E) \cup {Len(F)} /\ On(F) = On(E)
    BY <2>2, <2>3, <2>4, OutageGrows, ZenonT(30)
  <2>9. Off(E) = {} /\ On(E) = {}
    BY <1>1, <1>4 DEF OutageInv, n, S, R
  <2>10. S <= i /\ ~ (R <= i)
    BY <1>1, <1>4
  <2>11. OneOutage(F)
    BY <2>8, <2>9 DEF OneOutage
  <2>12. OutageInv(F, n, i)
    BY <1>4, <2>8, <2>9, <2>10, <2>11 DEF OutageInv, S, R
  <2>. QED
    BY <2>5, <2>6, <2>7, <2>12 DEF n
<1>5. CASE OutageActive(n) /\ i = R /\ F = Append(E, Online(s, cs[i].at))
  <2>. DEFINE e == Online(s, cs[i].at)
  <2>2. e \in Event
    BY <1>2, EventForms
  <2>3. e.kind = "scanner.online" /\ Inner(e, s, base)
    BY <1>2 DEF Inner, Online
  <2>4. F = Append(E, e)
    BY <1>5
  <2>. HIDE DEF e
  <2>5. F \in Seq(Event) /\ \A d \in Drivers : SameLaps(E, F, d)
    BY <2>2, <2>3, <2>4, Grown
  <2>6. Body(F, s, base)
    BY <2>2, <2>3, <2>4, BodyGrows
  <2>7. LapsBy(F, t)
    BY <2>2, <2>3, <2>4, LapsByGrows
  <2>8. Off(F) = Off(E) /\ On(F) = On(E) \cup {Len(F)} /\ \A j \in Off(E) : j < Len(F)
    BY <2>2, <2>3, <2>4, OutageGrows, ZenonT(30)
  <2>9. S <= i - 1 /\ S <= i /\ R <= i
    BY <1>1, <1>5
  <2>10. Off(E) # {}
    BY <1>5, <2>9 DEF OutageInv, n, S
  <2>11. OneOutage(F)
    BY <2>8, <2>10 DEF OneOutage, OutageInv
  <2>12. OutageInv(F, n, i)
    BY <1>5, <2>8, <2>9, <2>10, <2>11 DEF OutageInv, S, R
  <2>. QED
    BY <2>5, <2>6, <2>7, <2>12 DEF n
<1>. QED
  BY <1>3, <1>4, <1>5 DEF ScannerStep, n, S, R

NotBefore(cs, base) == \A j \in DOMAIN cs : base <= cs[j].at

LEMMA MissKeeps ==
  ASSUME NEW s \in Nat, NEW base \in Nat, NEW cs \in Seq(Scan), Sorted(cs),
         NotBefore(cs, base), NEW i \in DOMAIN cs,
         NEW a \in Acc, FoldInv(a, s, base, cs, i - 1), Gone(cs, i),
         NEW b, b = Miss(a, s, cs, i)
  PROVE  FoldInv(b, s, base, cs, i)
<1>0. i \in Nat /\ DOMAIN cs = 1..Len(cs) /\ Len(cs) \in Nat /\ a.out \in Seq(Event)
  BY DEF Acc
<1>a. Missed(Len(cs), i)
  BY DEF Gone
<1>b. b \in Acc /\ MissResult(a, b, s, cs, i)
  BY <1>a, MissIs
<1>1. /\ b.reset = a.reset \cup {cs[i].who}
      /\ b.held = a.held /\ b.track = a.track /\ b.sum = a.sum /\ b.last = a.last
      /\ IF i = OutageStart(Len(cs))
         THEN \E g \in Nat : b.out = Append(a.out, Offline(s, g, cs[i].at))
         ELSE b.out = a.out
  BY <1>b DEF MissResult
<1>2. ScannerStep(a.out, b.out, s, cs, i)
  <2>1. OutageActive(Len(cs)) /\ i # OutageEnd(Len(cs))
    BY <1>0, OutageIs DEF Gone, Missed
  <2>. QED
    BY <1>1, <2>1 DEF ScannerStep
<1>3. /\ Body(b.out, s, base) /\ LapsBy(b.out, a.last) /\ OutageInv(b.out, Len(cs), i)
      /\ \A d \in Drivers : SameLaps(a.out, b.out, d)
  BY <1>0, <1>2, ScannerTurn, SMTT(30) DEF FoldInv, NotBefore
<1>4. \A j \in DOMAIN cs : i <= j => a.last <= cs[j].at
  BY <1>0 DEF FoldInv
<1>5. HeldInv(b.held, s, cs, i)
  <2>1. \A m \in DOMAIN cs : m <= i /\ ~ Gone(cs, m) => m <= i - 1
    BY <1>0
  <2>. QED
    BY <1>1, <2>1 DEF FoldInv, HeldInv
<1>6. ASSUME NEW d \in Drivers
      PROVE  DriverInv(b.out, d, b.track[d], b.sum[d], d \in b.reset, cs, i)
  <2>. DEFINE tr == a.track[d]
              row == a.sum[d]
              off == d \in a.reset
  <2>1. DriverInv(a.out, d, tr, row, off, cs, i - 1) /\ SameLaps(a.out, b.out, d)
    BY <1>3 DEF FoldInv
  <2>. HIDE DEF tr, row, off
  <2>2. CASE cs[i].who = d
    <3>1. DriverInv(b.out, d, tr, row, TRUE, cs, i)
      BY <2>1, <2>2, MissedTurn
    <3>. QED
      BY <1>1, <2>2, <3>1 DEF tr, row
  <2>3. CASE cs[i].who # d
    <3>1. DriverInv(b.out, d, tr, row, off, cs, i)
      BY <2>1, <2>3, OthersTurn
    <3>2. (d \in b.reset) = off
      BY <1>1, <2>3 DEF off
    <3>. QED
      BY <1>1, <3>1, <3>2 DEF tr, row
  <2>. QED
    BY <2>2, <2>3
<1>. QED
  BY <1>1, <1>3, <1>4, <1>5, <1>6 DEF FoldInv

LEMMA HoldKeeps ==
  ASSUME NEW s \in Nat, NEW base \in Nat, NEW cs \in Seq(Scan), Sorted(cs),
         NotBefore(cs, base), NEW i \in DOMAIN cs,
         NEW a \in Acc, FoldInv(a, s, base, cs, i - 1), ~ Gone(cs, i), cs[i].who \notin Drivers,
         NEW b, b = Hold(Recover(a, s, cs, i), s, cs[i])
  PROVE  FoldInv(b, s, base, cs, i)
<1>a. PICK r : r = Recover(a, s, cs, i)
  OBVIOUS
<1>0. i \in Nat /\ DOMAIN cs = 1..Len(cs) /\ Len(cs) \in Nat /\ a.out \in Seq(Event) /\ cs[i] \in Scan
  BY DEF Acc
<1>c. r \in Acc /\ RecoverResult(a, r, s, cs, i)
  BY <1>a, RecoverIs
<1>1. /\ r.held = a.held /\ r.track = a.track /\ r.reset = a.reset
      /\ r.sum = a.sum /\ r.last = a.last
      /\ IF OutageActive(Len(cs)) /\ i = OutageEnd(Len(cs))
         THEN r.out = Append(a.out, Online(s, cs[i].at)) ELSE r.out = a.out
  BY <1>c DEF RecoverResult
<1>b. PICK c \in Scan : c = cs[i]
  BY <1>0
<1>2. /\ b.held = Append(a.held, [token |-> cs[i].who, sid |-> s])
      /\ b.out = r.out /\ b.track = a.track /\ b.reset = a.reset
      /\ b.sum = a.sum /\ b.last = a.last
  <2>1. b = Hold(r, s, c)
    BY <1>a, <1>b
  <2>2. HoldResult(r, b, s, c)
    BY <1>c, <2>1, HoldIs
  <2>. QED
    BY <1>1, <1>b, <2>2 DEF HoldResult
<1>3. ScannerStep(a.out, b.out, s, cs, i)
  <2>1. ~ (OutageActive(Len(cs)) /\ i = OutageStart(Len(cs)))
    BY <1>0, OutageIs DEF Gone, Missed
  <2>. QED
    BY <1>1, <1>2, <2>1 DEF ScannerStep
<1>4. /\ Body(b.out, s, base) /\ LapsBy(b.out, a.last) /\ OutageInv(b.out, Len(cs), i)
      /\ \A d \in Drivers : SameLaps(a.out, b.out, d)
  BY <1>0, <1>3, ScannerTurn DEF FoldInv, NotBefore
<1>5. \A j \in DOMAIN cs : i <= j => a.last <= cs[j].at
  BY <1>0 DEF FoldInv
<1>6. HeldInv(b.held, s, cs, i)
  <2>1. \A m \in DOMAIN cs : m <= i => m <= i - 1 \/ m = i
    BY <1>0
  <2>2. a.held \in Seq(HeldScan) /\ [token |-> cs[i].who, sid |-> s] \in HeldScan
    BY <1>0 DEF Acc, Scan, HeldScan
  <2>3. /\ Len(a.held) \in Nat /\ Len(b.held) = Len(a.held) + 1
        /\ DOMAIN a.held = 1..Len(a.held) /\ DOMAIN b.held = 1..(Len(a.held) + 1)
        /\ b.held[Len(a.held) + 1] = [token |-> cs[i].who, sid |-> s]
        /\ \A x \in DOMAIN a.held : b.held[x] = a.held[x]
    BY <1>2, <2>2
  <2>4. \A x \in DOMAIN a.held : x \in DOMAIN b.held
    BY <2>3
  <2>5. Len(a.held) + 1 \in DOMAIN b.held
    BY <2>3
  <2>. QED
    BY <2>1, <2>3, <2>4, <2>5 DEF FoldInv, HeldInv
<1>7. ASSUME NEW d \in Drivers
      PROVE  DriverInv(b.out, d, b.track[d], b.sum[d], d \in b.reset, cs, i)
  <2>. DEFINE tr == a.track[d]
              row == a.sum[d]
              off == d \in a.reset
  <2>1. DriverInv(a.out, d, tr, row, off, cs, i - 1) /\ SameLaps(a.out, b.out, d) /\ cs[i].who # d
    BY <1>4 DEF FoldInv
  <2>. HIDE DEF tr, row, off
  <2>2. DriverInv(b.out, d, tr, row, off, cs, i)
    BY <2>1, OthersTurn
  <2>. QED
    BY <1>2, <2>2 DEF tr, row, off
<1>. QED
  BY <1>2, <1>4, <1>5, <1>6, <1>7 DEF FoldInv

LEMMA LapsByLater ==
  ASSUME NEW E \in Seq(Event), NEW s, NEW base, Body(E, s, base), NEW t \in Nat, LapsBy(E, t),
         NEW u \in Nat, t <= u
  PROVE  LapsBy(E, u)
<1>1. ASSUME NEW j \in DOMAIN E, E[j].kind = "lap.recorded" PROVE E[j].at <= u
  <2>1. j # 1
    BY <1>1 DEF Body, Started
  <2>2. E[j].at \in Nat /\ E[j].at <= t
    BY <1>1, <2>1 DEF Body, Inner, LapsBy
  <2>. QED
    BY <2>2
<1>. QED
  BY <1>1 DEF LapsBy

LapAdded(E, F, e, d) ==
  /\ F \in Seq(Event) /\ F[Len(F)] = e /\ OneMore(E, F, d)
  /\ \A x \in Drivers : x # d => SameLaps(E, F, x)

LEMMA GrownByLap ==
  ASSUME NEW E \in Seq(Event), NEW e \in Event, NEW d \in Drivers,
         e.kind = "lap.recorded", e.who = d, NEW F, F = Append(E, e)
  PROVE  LapAdded(E, F, e, d)
<1>1. F \in Seq(Event) /\ F[Len(F)] = e
  OBVIOUS
<1>2. /\ DOMAIN F = DOMAIN E \cup {Len(F)} /\ Len(F) \notin DOMAIN E
      /\ \A j \in DOMAIN E : F[j] = E[j] /\ j < Len(F)
  BY Grown
<1>3. OneMore(E, F, d)
  BY <1>1, <1>2 DEF OneMore, LapIdx
<1>4. ASSUME NEW x \in Drivers, x # d PROVE SameLaps(E, F, x)
  BY <1>1, <1>2, <1>4 DEF SameLaps, LapIdx
<1>. QED
  BY <1>1, <1>3, <1>4 DEF LapAdded

LEMMA TakeKeeps ==
  ASSUME NEW s \in Nat, NEW base \in Nat, NEW cs \in Seq(Scan), Sorted(cs),
         NotBefore(cs, base), NEW i \in DOMAIN cs,
         NEW a \in Acc, FoldInv(a, s, base, cs, i - 1), ~ Gone(cs, i), cs[i].who \in Drivers,
         NEW b, b = TakeCrossing(Rebase(Recover(a, s, cs, i), cs[i].who), s, cs[i])
  PROVE  FoldInv(b, s, base, cs, i)
<1>a. PICK r : r = Recover(a, s, cs, i)
  OBVIOUS
<1>b. PICK d \in Drivers : d = cs[i].who
  OBVIOUS
<1>c. PICK c \in Scan : c = cs[i]
  OBVIOUS
<1>d. PICK q : q = Rebase(r, d)
  OBVIOUS
<1>0. i \in Nat /\ DOMAIN cs = 1..Len(cs) /\ Len(cs) \in Nat /\ a.out \in Seq(Event) /\ c.at \in Nat
  <2>1. c.at \in Nat
    BY DEF Scan
  <2>2. a.out \in Seq(Event)
    BY DEF Acc
  <2>. QED
    BY <2>1, <2>2
<1>1. r \in Acc /\ RecoverResult(a, r, s, cs, i)
  BY <1>a, RecoverIs
<1>2. q \in Acc /\ RebaseResult(r, q, d)
  BY <1>d, <1>1, RebaseIs
<1>3. b \in Acc /\ TakeResult(q, b, s, c)
  <2>1. b = TakeCrossing(q, s, c) /\ c.who \in Drivers
    BY <1>a, <1>b, <1>c, <1>d
  <2>. QED
    BY <1>2, <2>1, TakeCrossingIs
<1>4. ScannerStep(a.out, r.out, s, cs, i)
  <2>1. ~ (OutageActive(Len(cs)) /\ i = OutageStart(Len(cs)))
    BY <1>0, OutageIs DEF Gone, Missed
  <2>. QED
    BY <1>1, <2>1 DEF ScannerStep, RecoverResult
<1>5. /\ r.out \in Seq(Event)
      /\ Body(r.out, s, base) /\ LapsBy(r.out, a.last) /\ OutageInv(r.out, Len(cs), i)
      /\ \A x \in Drivers : SameLaps(a.out, r.out, x)
  BY <1>0, <1>4, ScannerTurn DEF FoldInv, NotBefore
<1>6. \A j \in DOMAIN cs : i <= j => a.last <= cs[j].at
  BY <1>0 DEF FoldInv
<1>7. /\ b.held = a.held /\ b.reset = a.reset \ {d} /\ q.out = r.out /\ q.sum = a.sum
      /\ q.last = a.last /\ c.who = d /\ a.last \in Nat
  BY <1>1, <1>2, <1>3, <1>b, <1>c DEF RecoverResult, RebaseResult, TakeResult, Acc
<1>8. HeldInv(b.held, s, cs, i)
  <2>1. \A m \in DOMAIN cs : m <= i /\ cs[m].who \notin Drivers => m <= i - 1
    BY <1>0
  <2>. QED
    BY <1>7, <2>1 DEF FoldInv, HeldInv
<1>. DEFINE tr == a.track[d]
            row == a.sum[d]
            off == d \in a.reset
<1>9. /\ tr \in Tracker /\ row \in Row /\ DriverInv(a.out, d, tr, row, off, cs, i - 1)
      /\ q.track[d] \in Tracker /\ b.track[d] \in Tracker
  BY <1>2, <1>3 DEF Acc, FoldInv
<1>10. q.track[d].laps = tr.laps /\ q.track[d].prev = IF off THEN NoPrev ELSE tr.prev
  BY <1>1, <1>2 DEF RecoverResult, RebaseResult
<1>11. ASSUME NEW x \in Drivers, x # d, SameLaps(a.out, b.out, x)
       PROVE  DriverInv(b.out, x, b.track[x], b.sum[x], x \in b.reset, cs, i)
  <2>. DEFINE tx == a.track[x]
              rx == a.sum[x]
              ox == x \in a.reset
  <2>1. DriverInv(a.out, x, tx, rx, ox, cs, i - 1) /\ cs[i].who # x
    BY <1>11, <1>b DEF FoldInv
  <2>2. b.track[x] = tx /\ b.sum[x] = rx /\ (x \in b.reset) = ox
    BY <1>1, <1>2, <1>3, <1>7, <1>11 DEF RecoverResult, RebaseResult, TakeResult
  <2>. HIDE DEF tx, rx, ox
  <2>3. DriverInv(b.out, x, tx, rx, ox, cs, i)
    BY <1>11, <2>1, OthersTurn
  <2>. QED
    BY <2>2, <2>3
<1>12. (d \in b.reset) = FALSE /\ cs[i].who = d /\ cs[i].at = c.at
  BY <1>7, <1>b, <1>c
<1>. HIDE DEF tr, row, off
<1>13. CASE Outcome(q.track[d], c.at) = "StartMarker"
  <2>1. /\ q.track[d].prev = NoPrev /\ b.out = r.out /\ b.sum = a.sum /\ b.last = a.last
        /\ b.track[d].prev = c.at /\ b.track[d].laps = q.track[d].laps
    BY <1>3, <1>7, <1>13 DEF TakeResult
  <2>2. off \/ tr.prev = NoPrev
    BY <1>10, <2>1
  <2>3. SameLaps(a.out, b.out, d)
    BY <1>5, <2>1
  <2>. DEFINE tn == b.track[d]
  <2>4. tn.prev = cs[i].at /\ tn.laps = tr.laps
    BY <1>10, <1>12, <2>1
  <2>. HIDE DEF tn
  <2>5. DriverInv(b.out, d, tn, row, FALSE, cs, i)
    BY <1>9, <1>12, <2>2, <2>3, <2>4, StartTurn
  <2>6. DriverInv(b.out, d, b.track[d], b.sum[d], d \in b.reset, cs, i)
    BY <1>12, <2>1, <2>5 DEF tn, row
  <2>7. \A x \in Drivers : DriverInv(b.out, x, b.track[x], b.sum[x], x \in b.reset, cs, i)
    BY <1>5, <1>11, <2>1, <2>6
  <2>. QED
    BY <1>5, <1>6, <1>8, <2>1, <2>7 DEF FoldInv
<1>14. CASE Outcome(q.track[d], c.at) = "Rejected"
  <2>1. /\ q.track[d].prev # NoPrev /\ c.at - q.track[d].prev < MinLapTimeMs
        /\ b.out = r.out /\ b.sum = a.sum /\ b.last = a.last
        /\ b.track[d] = q.track[d]
    BY <1>3, <1>7, <1>14 DEF TakeResult
  <2>2. off = FALSE /\ tr.prev # NoPrev /\ cs[i].at - tr.prev < MinLapTimeMs
    BY <1>10, <1>12, <2>1 DEF off
  <2>3. SameLaps(a.out, b.out, d)
    BY <1>5, <2>1
  <2>4. b.track[d] = tr
    BY <1>9, <1>10, <2>1, <2>2 DEF Tracker
  <2>5. DriverInv(b.out, d, tr, row, FALSE, cs, i)
    BY <1>9, <1>12, <2>2, <2>3, RejectedTurn
  <2>6. DriverInv(b.out, d, b.track[d], b.sum[d], d \in b.reset, cs, i)
    BY <1>12, <2>1, <2>4, <2>5 DEF row
  <2>7. \A x \in Drivers : DriverInv(b.out, x, b.track[x], b.sum[x], x \in b.reset, cs, i)
    BY <1>5, <1>11, <2>1, <2>6
  <2>. QED
    BY <1>5, <1>6, <1>8, <2>1, <2>7 DEF FoldInv
<1>15. CASE Outcome(q.track[d], c.at) = "Counted"
  <2>1. /\ q.track[d].prev # NoPrev /\ c.at - q.track[d].prev >= MinLapTimeMs
        /\ b.out = Append(r.out, LapRecorded(s, d, q.track[d].laps + 1,
                                             c.at - q.track[d].prev, c.at))
        /\ b.track[d].prev = c.at /\ b.track[d].laps = q.track[d].laps + 1
        /\ b.sum[d] = AddLap(a.sum[d], c.at - q.track[d].prev)
        /\ b.last = c.at
    BY <1>3, <1>7, <1>15 DEF TakeResult
  <2>2. off = FALSE /\ q.track[d].prev = tr.prev /\ q.track[d].laps = tr.laps
    BY <1>10, <2>1 DEF off
  <2>. DEFINE ms == c.at - tr.prev
              lap == LapRecorded(s, d, tr.laps + 1, ms, c.at)
  <2>3. /\ tr.prev # NoPrev /\ ms >= MinLapTimeMs /\ b.out = Append(r.out, lap)
        /\ ms \in Int /\ tr.laps \in Nat /\ MinLapTimeMs \in Nat \ {0}
    BY <1>0, <1>9, <2>1, <2>2, KnobsAre, SMTT(30) DEF Tracker
  <2>4. lap \in Event
    <3>1. tr.laps + 1 \in Nat /\ ms \in Int /\ c.at \in Nat
      BY <1>0, <2>3, SMTT(30)
    <3>. HIDE DEF ms
    <3>. QED
      BY <3>1, EventForms
  <2>5. Inner(lap, s, base) /\ lap.kind = "lap.recorded" /\ lap.who = d /\ lap.at = c.at
    <3>1. base <= c.at
      BY <1>12 DEF NotBefore
    <3>2. ms \in Nat \ {0}
      BY <2>3
    <3>. HIDE DEF ms
    <3>. QED
      BY <1>0, <3>1, <3>2 DEF Inner, LapRecorded
  <2>. HIDE DEF lap
  <2>6. /\ b.out \in Seq(Event) /\ b.out[Len(b.out)] = lap
        /\ OneMore(r.out, b.out, d)
        /\ \A x \in Drivers : x # d => SameLaps(r.out, b.out, x)
    <3>1. PICK E \in Seq(Event) : E = r.out
      BY <1>5
    <3>2. PICK F : F = b.out
      OBVIOUS
    <3>3. F = Append(E, lap)
      BY <2>3, <3>1, <3>2
    <3>4. LapAdded(E, F, lap, d)
      BY <2>4, <2>5, <3>3, GrownByLap
    <3>. QED
      BY <3>1, <3>2, <3>4 DEF LapAdded
  <2>7. Body(b.out, s, base)
    BY <1>5, <2>3, <2>4, <2>5, BodyGrows
  <2>8. LapsBy(b.out, c.at)
    <3>1. a.last <= c.at
      BY <1>0, <1>6, <1>12
    <3>2. LapsBy(r.out, c.at)
      BY <1>0, <1>5, <1>7, <3>1, LapsByLater
    <3>3. lap.at <= c.at
      BY <1>0, <2>5
    <3>. QED
      BY <1>5, <2>3, <2>4, <3>2, <3>3, LapsByGrows
  <2>9. OutageInv(b.out, Len(cs), i)
    <3>1. Off(b.out) = Off(r.out) /\ On(b.out) = On(r.out)
      BY <1>5, <2>3, <2>4, <2>5, OutageGrows
    <3>. QED
      BY <1>5, <3>1 DEF OutageInv, OneOutage
  <2>10. OneMore(a.out, b.out, d) /\ \A x \in Drivers : x # d => SameLaps(a.out, b.out, x)
    <3>1. LapIdx(r.out, d) = LapIdx(a.out, d) /\ \A j \in LapIdx(a.out, d) : r.out[j] = a.out[j]
      BY <1>5 DEF SameLaps
    <3>2. OneMore(a.out, b.out, d)
      BY <2>6, <3>1 DEF OneMore
    <3>3. ASSUME NEW x \in Drivers, x # d PROVE SameLaps(a.out, b.out, x)
      BY <1>5, <2>6, <3>3 DEF SameLaps
    <3>. QED
      BY <3>2, <3>3
  <2>11. \A j \in LapIdx(a.out, d) : a.out[j].ms \in Int
    <3>1. ASSUME NEW j \in LapIdx(a.out, d) PROVE a.out[j].ms \in Int
      <4>1. j \in DOMAIN a.out /\ a.out[j].kind = "lap.recorded" /\ Body(a.out, s, base)
        BY DEF LapIdx, FoldInv
      <4>2. j # 1
        BY <4>1 DEF Body, Started
      <4>3. a.out[j].ms \in Nat
        BY <4>1, <4>2 DEF Body, Inner
      <4>. QED
        BY <4>3
    <3>. QED
      BY <3>1
  <2>. DEFINE tn == b.track[d]
              rn == b.sum[d]
  <2>12. /\ tn.prev = cs[i].at /\ tn.laps = tr.laps + 1 /\ rn = AddLap(row, cs[i].at - tr.prev)
         /\ cs[i].at - tr.prev >= MinLapTimeMs
         /\ b.out[Len(b.out)] = LapRecorded(s, d, tr.laps + 1, cs[i].at - tr.prev, cs[i].at)
    BY <1>12, <2>1, <2>2, <2>3, <2>6 DEF row, lap
  <2>. HIDE DEF tn, rn, ms
  <2>13. DriverInv(b.out, d, tn, rn, FALSE, cs, i)
    <3>1. PICK E : E = a.out
      OBVIOUS
    <3>2. PICK F : F = b.out
      OBVIOUS
    <3>3. /\ OneMore(E, F, d) /\ \A j \in LapIdx(E, d) : E[j].ms \in Int
          /\ DriverInv(E, d, tr, row, FALSE, cs, i - 1)
          /\ F[Len(F)] = LapRecorded(s, d, tr.laps + 1, cs[i].at - tr.prev, cs[i].at)
      BY <1>9, <2>2, <2>10, <2>11, <2>12, <3>1, <3>2
    <3>4. DriverInv(F, d, tn, rn, FALSE, cs, i)
      BY <1>9, <1>12, <2>3, <2>12, <3>3, CountedTurn
    <3>. QED
      BY <3>2, <3>4
  <2>14. DriverInv(b.out, d, b.track[d], b.sum[d], d \in b.reset, cs, i)
    BY <1>12, <2>13 DEF tn, rn
  <2>15. \A x \in Drivers : DriverInv(b.out, x, b.track[x], b.sum[x], x \in b.reset, cs, i)
    BY <1>11, <2>10, <2>14
  <2>16. base <= c.at /\ \A j \in DOMAIN cs : i <= j => c.at <= cs[j].at
    BY <1>12 DEF NotBefore, Sorted
  <2>. QED
    BY <1>8, <2>1, <2>7, <2>8, <2>9, <2>15, <2>16 DEF FoldInv
<1>. QED
  <2>1. Outcome(q.track[d], c.at) \in {"StartMarker", "Rejected", "Counted"}
    BY DEF Outcome
  <2>. QED
    BY <1>13, <1>14, <1>15, <2>1

LEMMA BeginKeeps ==
  ASSUME NEW s \in Nat, NEW base \in Nat, NEW cs \in Seq(Scan), NotBefore(cs, base),
         NEW a, a = Begin(s, base)
  PROVE  FoldInv(a, s, base, cs, 0)
<1>0. NDrivers \in Nat /\ \A d \in 1..NDrivers : d \in Drivers
  BY KnobsAre DEF Drivers
<1>1. /\ a \in Acc
      /\ Len(a.out) = NDrivers + 1 /\ a.out[1] = Started(s, base)
      /\ \A j \in 2..Len(a.out) : a.out[j] = CheckedIn(s, j - 1, base)
      /\ a.held = <<>> /\ a.reset = {} /\ a.last = base
      /\ \A d \in Drivers : a.track[d] = NewTracker /\ a.sum[d] = NoRow
  <2>1. a \in Acc /\ BeginResult(a, s, base)
    BY BeginIs
  <2>. QED
    BY <2>1 DEF BeginResult
<1>2. DOMAIN a.out = 1..(NDrivers + 1)
  BY <1>1 DEF Acc
<1>3. \A j \in DOMAIN a.out : j # 1 => a.out[j] = CheckedIn(s, j - 1, base)
  BY <1>0, <1>1, <1>2
<1>a. \A x : /\ CheckedIn(s, x, base).kind = "driver.checked_in"
            /\ CheckedIn(s, x, base).sid = s /\ CheckedIn(s, x, base).at = base
  BY DEF CheckedIn
<1>4. Body(a.out, s, base)
  <2>1. ASSUME NEW j \in DOMAIN a.out, j # 1 PROVE Inner(a.out[j], s, base)
    BY <1>3, <1>a, <2>1 DEF Inner
  <2>. QED
    BY <1>0, <1>1, <2>1 DEF Body
<1>5. \A j \in DOMAIN a.out : a.out[j].kind \in {"session.started", "driver.checked_in"}
  BY <1>1, <1>3, <1>a DEF Started
<1>6. LapsBy(a.out, a.last) /\ base <= a.last
  BY <1>1, <1>5, SMTT(30) DEF LapsBy
<1>7. \A j \in DOMAIN cs : 0 <= j => a.last <= cs[j].at
  BY <1>1 DEF NotBefore
<1>8. OutageInv(a.out, Len(cs), 0)
  <2>1. Off(a.out) = {} /\ On(a.out) = {}
    BY <1>5 DEF Off, On
  <2>2. ~ (OutageStart(Len(cs)) <= 0)
    <3>1. OutageStart(Len(cs)) \in Nat /\ OutageStart(Len(cs)) >= 2
      BY OutageIs
    <3>. QED
      BY <3>1
  <2>. QED
    BY <2>1, <2>2 DEF OutageInv, OneOutage
<1>9. HeldInv(a.held, s, cs, 0)
  BY DEF HeldInv
<1>10. ASSUME NEW d \in Drivers
       PROVE  DriverInv(a.out, d, a.track[d], a.sum[d], d \in a.reset, cs, 0)
  <2>1. LapIdx(a.out, d) = {}
    BY <1>5 DEF LapIdx
  <2>2. a.track[d].prev = NoPrev /\ a.track[d].laps = 0 /\ a.sum[d].count = 0
    BY <1>1 DEF NewTracker, NoRow
  <2>3. \A m \in Mine(cs, d) : m \in Nat /\ ~ (m < 0 + 1) /\ ~ (m <= 0)
    BY DEF Mine
  <2>4. Clock(a.out, d, a.track[d], d \in a.reset, cs, 0)
    BY <2>2, <2>3 DEF Clock, FreshStart
  <2>5. CountedAll(a.out, d, cs, 0)
    BY <2>3 DEF CountedAll
  <2>6. Tally(a.out, d, a.sum[d])
    <3>1. {a.out[j].n : j \in LapIdx(a.out, d)} = {} /\ 1..0 = {}
      BY <2>1
    <3>. QED
      BY <2>1, <2>2, <3>1 DEF Tally
  <2>. QED
    BY <2>1, <2>2, <2>4, <2>5, <2>6 DEF DriverInv
<1>. QED
  BY <1>4, <1>6, <1>7, <1>8, <1>9, <1>10 DEF FoldInv

LEMMA FoldKeeps ==
  ASSUME NEW s \in Nat, NEW base \in Nat, NEW cs \in Seq(Scan), Sorted(cs),
         NotBefore(cs, base), NEW acc, acc = SessionFold(s, base, cs)
  PROVE  acc[Len(cs)] \in Acc /\ FoldInv(acc[Len(cs)], s, base, cs, Len(cs))
<1>. DEFINE n == Len(cs)
            N == {i \in 0..n : FoldInv(acc[i], s, base, cs, i)}
<1>0. n \in Nat /\ DOMAIN cs = 1..n
  OBVIOUS
<1>1. /\ acc \in [0..n -> Acc]
      /\ acc[0] = Begin(s, base)
      /\ \A i \in 1..n : acc[i] = Turn(acc[i - 1], s, cs, i)
  BY SessionFoldIs
<1>2. 0 \in N
  <2>1. FoldInv(acc[0], s, base, cs, 0)
    BY <1>1, BeginKeeps
  <2>. QED
    BY <1>0, <2>1
<1>3. ASSUME NEW i \in 1..n, i - 1 \in N PROVE i \in N
  <2>0. i \in 0..n /\ i \in DOMAIN cs
    BY <1>0
  <2>1. PICK a \in Acc : a = acc[i - 1]
    BY <1>0, <1>1
  <2>2. FoldInv(a, s, base, cs, i - 1) /\ acc[i] = Turn(a, s, cs, i)
    BY <1>1, <1>3, <2>1
  <2>. HIDE DEF N, n
  <2>3. CASE Gone(cs, i)
    <3>1. acc[i] = Miss(a, s, cs, i)
      BY <2>2, <2>3 DEF Turn, Gone
    <3>2. FoldInv(acc[i], s, base, cs, i)
      BY <2>0, <2>2, <2>3, <3>1, MissKeeps
    <3>. QED
      BY <2>0, <3>2 DEF N
  <2>4. CASE ~ Gone(cs, i) /\ cs[i].who \notin Drivers
    <3>1. acc[i] = Hold(Recover(a, s, cs, i), s, cs[i])
      BY <2>2, <2>4 DEF Turn, Gone
    <3>2. FoldInv(acc[i], s, base, cs, i)
      BY <2>0, <2>2, <2>4, <3>1, HoldKeeps
    <3>. QED
      BY <2>0, <3>2 DEF N
  <2>5. CASE ~ Gone(cs, i) /\ cs[i].who \in Drivers
    <3>1. acc[i] = TakeCrossing(Rebase(Recover(a, s, cs, i), cs[i].who), s, cs[i])
      BY <2>2, <2>5 DEF Turn, Gone
    <3>2. FoldInv(acc[i], s, base, cs, i)
      BY <2>0, <2>2, <2>5, <3>1, TakeKeeps
    <3>. QED
      BY <2>0, <3>2 DEF N
  <2>. QED
    BY <2>3, <2>4, <2>5
<1>. HIDE DEF N
<1>4. 0..n \subseteq N
  BY <1>0, <1>2, <1>3, UpTo
<1>. QED
  BY <1>0, <1>1, <1>4 DEF N

-----------------------------------------------------------------------------
(* The script of a session, normal or reconciled: it starts, it ends, its  *)
(* end is no earlier than any of its laps and sums them up.                *)
SumsUp(E, sum) ==
  /\ DOMAIN sum = {d \in Drivers : LapIdx(E, d) # {}}
  /\ \A d \in DOMAIN sum : Tally(E, d, sum[d])

Script(E, s, base) ==
  /\ E \in Seq(Event) /\ Len(E) >= 2
  /\ E[1] = Started(s, base)
  /\ \A j \in DOMAIN E : j # 1 /\ j # Len(E) => Inner(E[j], s, base)
  /\ E[Len(E)].kind = "session.ended" /\ E[Len(E)].sid = s
  /\ E[Len(E)].at \in Nat /\ base <= E[Len(E)].at
  /\ LapsBy(E, E[Len(E)].at)
  /\ SumsUp(E, E[Len(E)].summary)

Completed(O, E, s, base) ==
  /\ Script(E, s, base) /\ Off(E) = Off(O) /\ On(E) = On(O)
  /\ \A d \in Drivers : SameLaps(O, E, d)

LEMMA ScriptEnds ==
  ASSUME NEW O \in Seq(Event), NEW s \in Nat, NEW base \in Nat, Body(O, s, base),
         NEW t \in Nat, base <= t, LapsBy(O, t),
         NEW sum, NEW D \in SUBSET Drivers, sum \in [D -> Row], SumsUp(O, sum),
         NEW E, E = Append(O, Ended(s, t, sum))
  PROVE  Completed(O, E, s, base)
<1>. DEFINE e == Ended(s, t, sum)
<1>1. e \in Event
  BY EventForms
<1>2. e.kind = "session.ended" /\ e.sid = s /\ e.at = t /\ e.summary = sum
  BY DEF Ended
<1>. HIDE DEF e
<1>3. E = Append(O, e)
  BY DEF e
<1>4. /\ E \in Seq(Event) /\ Len(E) = Len(O) + 1 /\ DOMAIN E = DOMAIN O \cup {Len(E)}
      /\ \A j \in DOMAIN O : E[j] = O[j] /\ j \in Nat /\ j < Len(E)
      /\ E[Len(E)] = e
  BY <1>1, <1>3, Grown
<1>5. ASSUME NEW d \in Drivers PROVE SameLaps(O, E, d)
  <2>1. Len(E) \notin DOMAIN O
    BY <1>4
  <2>. QED
    BY <1>2, <1>4, <2>1 DEF SameLaps, LapIdx
<1>6. Off(E) = Off(O) /\ On(E) = On(O)
  BY <1>1, <1>2, <1>3, OutageGrows
<1>7. LapsBy(E, t)
  BY <1>1, <1>2, <1>3, LapsByGrows
<1>8. SumsUp(E, sum)
  <2>1. \A d \in Drivers : LapIdx(E, d) = LapIdx(O, d)
    BY <1>5 DEF SameLaps
  <2>2. DOMAIN sum = {d \in Drivers : LapIdx(E, d) # {}}
    BY <2>1 DEF SumsUp
  <2>3. ASSUME NEW d \in DOMAIN sum PROVE Tally(E, d, sum[d])
    <3>1. d \in Drivers
      BY <2>2
    <3>2. Tally(O, d, sum[d]) /\ SameLaps(O, E, d)
      BY <1>5, <3>1 DEF SumsUp
    <3>. QED
      BY <3>2, TallyCarried
  <2>. QED
    BY <2>2, <2>3 DEF SumsUp
<1>9. 1 \in DOMAIN O /\ Len(O) \in Nat /\ Len(O) >= 1 /\ O[1] = Started(s, base)
  BY DEF Body
<1>10. \A j \in DOMAIN E : j # 1 /\ j # Len(E) => Inner(E[j], s, base)
  BY <1>4 DEF Body
<1>11. Len(E) >= 2 /\ E[1] = Started(s, base)
  BY <1>4, <1>9
<1>12. Script(E, s, base)
  BY <1>2, <1>4, <1>7, <1>8, <1>10, <1>11 DEF Script
<1>. QED
  BY <1>5, <1>6, <1>12 DEF Completed

(* What GenerateSession promises of the events of one session, given its   *)
(* crossings: besides the script, one outage at most, every lap honest and *)
(* every lap that counts there.                                            *)
SessionScript(E, s, base, cs) ==
  /\ Script(E, s, base) /\ OneOutage(E)
  /\ \A d \in Drivers :
       /\ \A j \in LapIdx(E, d) : HonestLap(E, j, cs, d)
       /\ CountedAll(E, d, cs, Len(cs))

LEMMA RowsSumUp ==
  ASSUME NEW O, NEW sums \in [Drivers -> Row], \A d \in Drivers : Tally(O, d, sums[d]),
         NEW D, D = {d \in Drivers : sums[d].count > 0}
  PROVE  SumsUp(O, [d \in D |-> sums[d]])
<1>. DEFINE sum == [d \in D |-> sums[d]]
<1>1. ASSUME NEW d \in Drivers PROVE sums[d].count > 0 <=> LapIdx(O, d) # {}
  <2>1. sums[d].count \in Nat /\ {O[j].n : j \in LapIdx(O, d)} = 1..sums[d].count
    BY DEF Row, Tally
  <2>2. CASE sums[d].count > 0
    <3>1. 1 \in 1..sums[d].count
      BY <2>1, <2>2
    <3>. QED
      BY <2>1, <2>2, <3>1
  <2>3. CASE ~ (sums[d].count > 0)
    <3>1. 1..sums[d].count = {}
      BY <2>1, <2>3
    <3>. QED
      BY <2>1, <2>3, <3>1
  <2>. QED
    BY <2>2, <2>3
<1>2. DOMAIN sum = {d \in Drivers : LapIdx(O, d) # {}}
  BY <1>1
<1>3. \A d \in DOMAIN sum : Tally(O, d, sum[d])
  OBVIOUS
<1>. HIDE DEF sum
<1>4. SumsUp(O, sum)
  BY <1>2, <1>3 DEF SumsUp
<1>. QED
  BY <1>4 DEF sum

(* For any crossings in time order, from any number of drivers and stray   *)
(* tokens and with the outage anywhere: GenerateSession's events are such  *)
(* a script, and it holds every stray scan that the line saw.              *)
THEOREM GeneratedSession ==
  ASSUME NEW s \in Nat, NEW base \in Nat, NEW cs \in Seq(Scan), Sorted(cs),
         NotBefore(cs, base), NEW g, g = GenerateSession(s, base, cs)
  PROVE  /\ SessionScript(g.events, s, base, cs)
         /\ g.held \in Seq(HeldScan) /\ HeldInv(g.held, s, cs, Len(cs))
<1>1. PICK acc : acc = SessionFold(s, base, cs)
  OBVIOUS
<1>2. acc[Len(cs)] \in Acc /\ FoldInv(acc[Len(cs)], s, base, cs, Len(cs))
  BY <1>1, FoldKeeps
<1>3. PICK end \in Acc : end = acc[Len(cs)]
  BY <1>2
<1>4. FoldInv(end, s, base, cs, Len(cs))
  BY <1>2, <1>3
<1>. DEFINE rows == {d \in Drivers : end.sum[d].count > 0}
            sum == [d \in rows |-> end.sum[d]]
            E == Append(end.out, Ended(s, end.last, sum))
<1>5. g = [events |-> E, held |-> end.held]
  BY <1>1, <1>3 DEF GenerateSession
<1>6. /\ end.out \in Seq(Event) /\ end.sum \in [Drivers -> Row] /\ end.last \in Nat
      /\ end.held \in Seq(HeldScan)
  BY DEF Acc
<1>7. /\ Body(end.out, s, base) /\ LapsBy(end.out, end.last) /\ base <= end.last
      /\ OneOutage(end.out) /\ HeldInv(end.held, s, cs, Len(cs))
  BY <1>4 DEF FoldInv, OutageInv
<1>8. ASSUME NEW d \in Drivers
      PROVE  /\ \A j \in LapIdx(end.out, d) : HonestLap(end.out, j, cs, d)
             /\ Tally(end.out, d, end.sum[d]) /\ CountedAll(end.out, d, cs, Len(cs))
  BY <1>4 DEF FoldInv, DriverInv
<1>9. rows \in SUBSET Drivers /\ sum \in [rows -> Row]
  BY <1>6
<1>10. SumsUp(end.out, sum)
  BY <1>6, <1>8, RowsSumUp
<1>. HIDE DEF rows, sum
<1>11. /\ Script(E, s, base) /\ Off(E) = Off(end.out) /\ On(E) = On(end.out)
       /\ \A d \in Drivers : SameLaps(end.out, E, d)
  <2>1. PICK O \in Seq(Event) : O = end.out
    BY <1>6
  <2>2. PICK t \in Nat : t = end.last
    BY <1>6
  <2>3. E = Append(O, Ended(s, t, sum)) /\ Body(O, s, base) /\ LapsBy(O, t) /\ base <= t
        /\ SumsUp(O, sum)
    BY <1>7, <1>10, <2>1, <2>2
  <2>. HIDE DEF E
  <2>4. Completed(O, E, s, base)
    BY <1>9, <2>3, ScriptEnds
  <2>. QED
    BY <2>1, <2>4 DEF Completed
<1>. HIDE DEF E
<1>12. OneOutage(E)
  BY <1>7, <1>11 DEF OneOutage
<1>13. ASSUME NEW d \in Drivers
       PROVE  /\ \A j \in LapIdx(E, d) : HonestLap(E, j, cs, d)
              /\ CountedAll(E, d, cs, Len(cs))
  <2>1. SameLaps(end.out, E, d)
    BY <1>11
  <2>2. \A j \in LapIdx(E, d) : HonestLap(E, j, cs, d)
    BY <1>8, <2>1, HonestCarried DEF SameLaps
  <2>3. CountedAll(E, d, cs, Len(cs))
    BY <1>8, <2>1 DEF CountedAll, SameLaps
  <2>. QED
    BY <2>2, <2>3
<1>14. SessionScript(E, s, base, cs)
  BY <1>11, <1>12, <1>13 DEF SessionScript
<1>. QED
  BY <1>5, <1>6, <1>7, <1>14

-----------------------------------------------------------------------------
(* The reconciled session.                                                 *)
LEMMA ReconTimesAre ==
  ASSUME NEW base \in Nat, NEW draw \in [1..OutOfSessionLaps -> LapDraws],
         NEW at, at = ReconTimes(base, draw)
  PROVE  /\ at \in [0..OutOfSessionLaps -> Nat] /\ at[0] = base
         /\ \A j \in 1..OutOfSessionLaps : at[j - 1] <= at[j]
<1>. DEFINE n == OutOfSessionLaps
            P(f) == f = [j \in 0..n |-> IF j = 0 THEN base ELSE f[j - 1] + draw[j]]
            A == CHOOSE f : P(f)
            step == [p \in Nat \X (1..n) |-> p[1] + draw[p[2]]]
<1>0. n \in Nat /\ \A j \in 1..n : draw[j] \in Nat
  BY KnobsAre
<1>1. step \in [Nat \X (1..n) -> Nat]
  BY <1>0
<1>2. PICK f : Recursion(f, n, Nat, base, step)
  BY <1>0, <1>1, RecExists
<1>3. /\ f \in [0..n -> Nat]
      /\ \A i \in 0..n : f[i] = IF i = 0 THEN base ELSE step[<<f[i - 1], i>>]
  BY <1>2 DEF Recursion
<1>4. ASSUME NEW j \in 0..n PROVE f[j] = IF j = 0 THEN base ELSE f[j - 1] + draw[j]
  <2>1. CASE j = 0
    BY <2>1, <1>3
  <2>2. CASE j # 0
    <3>1. j \in 1..n /\ j - 1 \in 0..n /\ f[j - 1] \in Nat
      BY <2>2, <1>0, <1>3
    <3>2. f[j] = step[<<f[j - 1], j>>]
      BY <2>2, <1>3
    <3>. QED
      BY <2>2, <3>1, <3>2
  <2>. QED
    BY <2>1, <2>2
<1>5. P(f)
  BY <1>3, <1>4
<1>. HIDE DEF P
<1>6. P(A)
  BY <1>5
<1>7. A = at
  BY DEF P, ReconTimes
<1>. HIDE DEF A
<1>8. /\ at = [j \in 0..n |-> at[j]]
      /\ \A j \in 0..n : at[j] = IF j = 0 THEN base ELSE at[j - 1] + draw[j]
  BY <1>6, <1>7 DEF P
<1>9. at[0] = base /\ \A j \in 1..n : at[j] = at[j - 1] + draw[j]
  <2>1. 0 \in 0..n /\ \A j \in 1..n : j \in 0..n /\ j # 0
    BY <1>0
  <2>. QED
    BY <1>8, <2>1
<1>. DEFINE N == {j \in 0..n : at[j] \in Nat}
<1>10. 0..n \subseteq N
  <2>1. 0 \in N
    BY <1>0, <1>9
  <2>2. ASSUME NEW i \in 1..n, i - 1 \in N PROVE i \in N
    <3>1. i \in 0..n /\ at[i] = at[i - 1] + draw[i] /\ at[i - 1] \in Nat /\ draw[i] \in Nat
      BY <1>0, <1>9, <2>2
    <3>. QED
      BY <3>1
  <2>. HIDE DEF N
  <2>. QED
    BY <1>0, <2>1, <2>2, UpTo
<1>11. at \in [0..n -> Nat]
  BY <1>8, <1>10
<1>12. ASSUME NEW j \in 1..n PROVE at[j - 1] <= at[j]
  <2>1. at[j] = at[j - 1] + draw[j] /\ at[j - 1] \in Nat /\ draw[j] \in Nat
    BY <1>0, <1>9, <1>11
  <2>. QED
    BY <2>1
<1>. QED
  BY <1>9, <1>11, <1>12

ReconAcc == [track : Tracker, laps : Seq(Event), sum : Row, last : Nat]

ReconResult(a, b, s, t) ==
  CASE Outcome(a.track, t) = "StartMarker" ->
         /\ b.laps = a.laps /\ b.sum = a.sum /\ b.last = a.last
         /\ b.track.laps = a.track.laps
    [] Outcome(a.track, t) = "Rejected" -> b = a
    [] Outcome(a.track, t) = "Counted" ->
         /\ t - a.track.prev >= MinLapTimeMs
         /\ b.laps = Append(a.laps, LapRecorded(s, 1, a.track.laps + 1, t - a.track.prev, t))
         /\ b.sum = AddLap(a.sum, t - a.track.prev) /\ b.last = t
         /\ b.track.laps = a.track.laps + 1

LEMMA ReconTurnIs ==
  ASSUME NEW a \in ReconAcc, NEW s \in Nat, NEW t \in Nat, NEW b, b = ReconTurn(a, s, t)
  PROVE  b \in ReconAcc /\ ReconResult(a, b, s, t)
<1>. DEFINE tr == a.track
            ms == t - tr.prev
            m == [a EXCEPT !.track = Cross(tr, t)]
            lap == LapRecorded(s, 1, m.track.laps, ms, t)
<1>1. /\ a.sum \in Row /\ a.laps \in Seq(Event) /\ tr \in Tracker /\ tr.prev \in Int
      /\ tr.laps \in Nat /\ ms \in Int /\ MinLapTimeMs \in Nat
  BY KnobsAre DEF ReconAcc, Tracker
<1>2. Outcome(tr, t) \in {"StartMarker", "Rejected", "Counted"}
  BY DEF Outcome
<1>3. b = IF Outcome(tr, t) # "Counted" THEN m
          ELSE [m EXCEPT !.laps = Append(@, lap), !.sum = AddLap(@, ms), !.last = t]
  BY DEF ReconTurn, ReconAcc
<1>4. CASE Outcome(tr, t) = "StartMarker"
  <2>1. Cross(tr, t) \in Tracker /\ Cross(tr, t).laps = tr.laps
    BY <1>1, <1>4 DEF Cross, Tracker
  <2>2. b = m
    BY <1>3, <1>4
  <2>3. b \in ReconAcc /\ b.laps = a.laps /\ b.sum = a.sum /\ b.last = a.last /\ b.track = Cross(tr, t)
    BY <2>1, <2>2 DEF ReconAcc
  <2>. QED
    BY <1>4, <2>1, <2>3 DEF ReconResult
<1>5. CASE Outcome(tr, t) = "Rejected"
  <2>1. Cross(tr, t) = tr
    BY <1>1, <1>5 DEF Cross, Tracker
  <2>2. b = a
    BY <1>3, <1>5, <2>1 DEF ReconAcc
  <2>. QED
    BY <1>5, <2>2 DEF ReconResult
<1>6. CASE Outcome(tr, t) = "Counted"
  <2>1. Cross(tr, t) \in Tracker /\ Cross(tr, t).laps = tr.laps + 1 /\ ms >= MinLapTimeMs
    BY <1>1, <1>6 DEF Cross, Tracker, Outcome
  <2>2. /\ m \in ReconAcc /\ m.laps = a.laps /\ m.sum = a.sum /\ m.last = a.last
        /\ m.track = Cross(tr, t)
    BY <2>1 DEF ReconAcc
  <2>3. lap = LapRecorded(s, 1, tr.laps + 1, ms, t)
    BY <2>1, <2>2
  <2>4. lap \in Event
    <3>1. tr.laps + 1 \in Nat /\ 1 \in Drivers
      BY <1>1, KnobsAre
    <3>. QED
      BY <1>1, <2>3, <3>1, EventForms
  <2>5. AddLap(a.sum, ms) \in Row
    BY <1>1 DEF AddLap, Row
  <2>. HIDE DEF lap, m
  <2>. DEFINE nl == Append(a.laps, lap)
              ns == AddLap(a.sum, ms)
  <2>6. nl \in Seq(Event) /\ ns \in Row
    BY <1>1, <2>4, <2>5
  <2>7. b = [m EXCEPT !.laps = nl, !.sum = ns, !.last = t]
    BY <1>3, <1>6, <2>2 DEF ReconAcc
  <2>. HIDE DEF nl, ns
  <2>8. b \in ReconAcc /\ b.laps = nl /\ b.sum = ns /\ b.last = t /\ b.track = m.track
    BY <2>2, <2>6, <2>7 DEF ReconAcc
  <2>. QED
    BY <1>6, <2>1, <2>2, <2>3, <2>8 DEF ReconResult, nl, ns
<1>. QED
  BY <1>2, <1>4, <1>5, <1>6

ReconFolded(acc, s, base, at) ==
  /\ acc \in [0..(OutOfSessionLaps + 1) -> ReconAcc]
  /\ acc[0] = [track |-> NewTracker, laps |-> <<>>, sum |-> NoRow, last |-> base]
  /\ \A i \in 1..(OutOfSessionLaps + 1) : acc[i] = ReconTurn(acc[i - 1], s, at[i - 1])

LEMMA ReconFoldIs ==
  ASSUME NEW s \in Nat, NEW base \in Nat, NEW at \in [0..OutOfSessionLaps -> Nat],
         NEW acc, acc = ReconFold(s, base, at)
  PROVE  ReconFolded(acc, s, base, at)
<1>. DEFINE n == OutOfSessionLaps + 1
            a0 == [track |-> NewTracker, laps |-> <<>>, sum |-> NoRow, last |-> base]
            P(f) == f = [i \in 0..n |-> IF i = 0 THEN a0 ELSE ReconTurn(f[i - 1], s, at[i - 1])]
            A == CHOOSE f : P(f)
            step == [p \in ReconAcc \X (1..n) |-> ReconTurn(p[1], s, at[p[2] - 1])]
<1>0. n \in Nat /\ \A i \in 1..n : at[i - 1] \in Nat
  BY KnobsAre
<1>a. a0 \in ReconAcc
  <2>1. NewTracker \in Tracker /\ NoRow \in Row /\ <<>> \in Seq(Event)
    BY DEF NewTracker, NoPrev, Tracker, NoRow, NoLap, Row
  <2>. QED
    BY <2>1 DEF ReconAcc
<1>. HIDE DEF a0
<1>1. step \in [ReconAcc \X (1..n) -> ReconAcc]
  BY <1>0, ReconTurnIs
<1>2. PICK f : Recursion(f, n, ReconAcc, a0, step)
  BY <1>0, <1>a, <1>1, RecExists
<1>3. /\ f \in [0..n -> ReconAcc]
      /\ \A i \in 0..n : f[i] = IF i = 0 THEN a0 ELSE step[<<f[i - 1], i>>]
  BY <1>2 DEF Recursion
<1>4. ASSUME NEW i \in 0..n PROVE f[i] = IF i = 0 THEN a0 ELSE ReconTurn(f[i - 1], s, at[i - 1])
  <2>1. CASE i = 0
    BY <1>3, <2>1
  <2>2. CASE i # 0
    <3>1. i \in 1..n /\ i - 1 \in 0..n /\ f[i - 1] \in ReconAcc
      BY <1>0, <1>3, <2>2
    <3>2. f[i] = step[<<f[i - 1], i>>]
      BY <1>3, <2>2
    <3>. QED
      BY <2>2, <3>1, <3>2
  <2>. QED
    BY <2>1, <2>2
<1>5. P(f)
  BY <1>3, <1>4
<1>. HIDE DEF P
<1>6. P(A)
  BY <1>5
<1>7. A = acc
  BY DEF P, a0, ReconFold
<1>. HIDE DEF A
<1>8. /\ acc = [j \in 0..n |-> acc[j]]
      /\ \A i \in 0..n : acc[i] = IF i = 0 THEN a0 ELSE ReconTurn(acc[i - 1], s, at[i - 1])
  BY <1>6, <1>7 DEF P
<1>9. acc[0] = a0 /\ \A i \in 1..n : acc[i] = ReconTurn(acc[i - 1], s, at[i - 1])
  <2>1. 0 \in 0..n /\ \A i \in 1..n : i \in 0..n /\ i # 0
    BY <1>0
  <2>. QED
    BY <1>8, <2>1
<1>. DEFINE N == {j \in 0..n : acc[j] \in ReconAcc}
<1>10. 0 \in N
  BY <1>0, <1>a, <1>9
<1>11. ASSUME NEW i \in 1..n, i - 1 \in N PROVE i \in N
  <2>1. i \in 0..n /\ acc[i] = ReconTurn(acc[i - 1], s, at[i - 1]) /\ acc[i - 1] \in ReconAcc
        /\ at[i - 1] \in Nat
    BY <1>0, <1>9, <1>11
  <2>2. acc[i] \in ReconAcc
    BY <2>1, ReconTurnIs
  <2>. QED
    BY <2>1, <2>2
<1>12. 0..n \subseteq N
  <2>. HIDE DEF N
  <2>. QED
    BY <1>0, <1>10, <1>11, UpTo
<1>. QED
  BY <1>8, <1>9, <1>12 DEF a0, ReconFolded

Led(s, base, laps) == <<Started(s, base)>> \o laps

LEMMA LedIs ==
  ASSUME NEW s \in Nat, NEW base \in Nat, NEW L \in Seq(Event)
  PROVE  /\ Led(s, base, L) \in Seq(Event) /\ Len(Led(s, base, L)) = Len(L) + 1
         /\ Led(s, base, L)[1] = Started(s, base)
         /\ \A e \in Event : /\ Led(s, base, Append(L, e)) = Append(Led(s, base, L), e)
                             /\ Led(s, base, L) \o <<e>> = Append(Led(s, base, L), e)
<1>. DEFINE one == <<Started(s, base)>>
<1>1. one \in Seq(Event) /\ Len(one) = 1 /\ one[1] = Started(s, base)
  BY EventForms
<1>. HIDE DEF one
<1>2. Led(s, base, L) = one \o L
  BY DEF Led, one
<1>3. /\ one \o L \in Seq(Event) /\ Len(one \o L) = 1 + Len(L)
      /\ \A i \in 1..(Len(one) + Len(L)) : (one \o L)[i] = IF i <= Len(one) THEN one[i] ELSE L[i - Len(one)]
  BY <1>1, ConcatProperties, ZenonT(30)
<1>4. (one \o L)[1] = Started(s, base)
  <2>1. 1 \in 1..(Len(one) + Len(L)) /\ 1 <= Len(one)
    BY <1>1
  <2>. QED
    BY <1>1, <1>3, <2>1
<1>5. ASSUME NEW e \in Event
      PROVE  one \o Append(L, e) = Append(one \o L, e) /\ (one \o L) \o <<e>> = Append(one \o L, e)
  <2>1. L \o <<e>> = Append(L, e) /\ (one \o L) \o <<e>> = Append(one \o L, e) /\ <<e>> \in Seq(Event)
    BY <1>3, AppendIsConcat
  <2>2. (one \o L) \o <<e>> = one \o (L \o <<e>>)
    BY <1>1, <2>1, ConcatAssociative
  <2>. QED
    BY <2>1, <2>2
<1>6. \A e \in Event : Led(s, base, Append(L, e)) = one \o Append(L, e)
  BY DEF Led, one
<1>7. ASSUME NEW e \in Event
      PROVE  /\ Led(s, base, Append(L, e)) = Append(Led(s, base, L), e)
             /\ Led(s, base, L) \o <<e>> = Append(Led(s, base, L), e)
  BY <1>2, <1>5, <1>6
<1>8. Len(L) + 1 = 1 + Len(L)
  OBVIOUS
<1>. QED
  BY <1>2, <1>3, <1>4, <1>7, <1>8

ReconInv(O, a, s, base, at, i) ==
  /\ Body(O, s, base) /\ LapsBy(O, a.last) /\ base <= a.last
  /\ i <= OutOfSessionLaps => a.last <= at[i]
  /\ Off(O) = {} /\ On(O) = {}
  /\ Tally(O, 1, a.sum) /\ a.sum.count = a.track.laps
  /\ \A d \in Drivers : d # 1 => LapIdx(O, d) = {}

LEMMA ReconKeeps ==
  ASSUME NEW s \in Nat, NEW base \in Nat, NEW at \in [0..OutOfSessionLaps -> Nat],
         \A j \in 1..OutOfSessionLaps : at[j - 1] <= at[j],
         NEW i \in 1..(OutOfSessionLaps + 1), NEW a \in ReconAcc,
         ReconInv(Led(s, base, a.laps), a, s, base, at, i - 1),
         NEW b, b = ReconTurn(a, s, at[i - 1])
  PROVE  ReconInv(Led(s, base, b.laps), b, s, base, at, i)
<1>0. /\ OutOfSessionLaps \in Nat /\ i - 1 \in 0..OutOfSessionLaps /\ i \in Nat
      /\ i - 1 <= OutOfSessionLaps /\ (i <= OutOfSessionLaps => i \in 1..OutOfSessionLaps)
  BY KnobsAre
<1>1. PICK t \in Nat : t = at[i - 1]
  BY <1>0
<1>2. b \in ReconAcc /\ ReconResult(a, b, s, t)
  BY <1>1, ReconTurnIs
<1>3. PICK O : O = Led(s, base, a.laps)
  OBVIOUS
<1>4. a.laps \in Seq(Event) /\ a.last \in Nat /\ a.sum \in Row /\ a.track \in Tracker
  BY DEF ReconAcc
<1>5. /\ O \in Seq(Event)
      /\ \A e \in Event : Led(s, base, Append(a.laps, e)) = Append(O, e)
  BY <1>3, <1>4, LedIs
<1>6. ReconInv(O, a, s, base, at, i - 1)
  BY <1>3
<1>7. a.last <= t /\ (i <= OutOfSessionLaps => t <= at[i] /\ at[i] \in Nat)
  BY <1>0, <1>1, <1>6 DEF ReconInv
<1>8. i <= OutOfSessionLaps => a.last <= at[i]
  BY <1>4, <1>7
<1>9. Outcome(a.track, t) \in {"StartMarker", "Rejected", "Counted"}
  BY DEF Outcome
<1>10. CASE Outcome(a.track, t) \in {"StartMarker", "Rejected"}
  <2>1. b.laps = a.laps /\ b.sum = a.sum /\ b.last = a.last /\ b.track.laps = a.track.laps
    BY <1>2, <1>10 DEF ReconResult
  <2>2. Led(s, base, b.laps) = O
    BY <1>3, <2>1
  <2>3. ReconInv(O, b, s, base, at, i)
    BY <1>6, <1>8, <2>1 DEF ReconInv
  <2>. QED
    BY <2>2, <2>3
<1>11. CASE Outcome(a.track, t) = "Counted"
  <2>. DEFINE ms == t - a.track.prev
              lap == LapRecorded(s, 1, a.track.laps + 1, ms, t)
  <2>1. /\ ms >= MinLapTimeMs /\ b.laps = Append(a.laps, lap) /\ b.sum = AddLap(a.sum, ms)
        /\ b.last = t /\ b.track.laps = a.track.laps + 1
    BY <1>2, <1>11 DEF ReconResult
  <2>2. ms \in Int /\ ms \in Nat \ {0} /\ a.track.laps + 1 \in Nat
    <3>1. a.track.prev \in Int /\ a.track.laps \in Nat
      BY <1>4 DEF Tracker
    <3>2. MinLapTimeMs \in Nat \ {0}
      BY KnobsAre
    <3>3. ms \in Int /\ a.track.laps + 1 \in Nat
      BY <3>1
    <3>. HIDE DEF ms
    <3>. QED
      BY <2>1, <3>2, <3>3
  <2>. HIDE DEF ms
  <2>3. lap \in Event
    <3>1. 1 \in Drivers
      BY KnobsAre
    <3>. QED
      BY <2>2, <3>1, EventForms
  <2>4. /\ Inner(lap, s, base) /\ lap.kind = "lap.recorded" /\ lap.who = 1 /\ lap.at = t
        /\ lap.n = a.track.laps + 1 /\ lap.ms = ms
    <3>1. 1 \in Drivers
      BY KnobsAre
    <3>2. base <= t
      BY <1>4, <1>6, <1>7 DEF ReconInv
    <3>. QED
      BY <2>2, <3>1, <3>2 DEF Inner, LapRecorded
  <2>. HIDE DEF lap
  <2>5. PICK F : F = Append(O, lap)
    OBVIOUS
  <2>6. Led(s, base, b.laps) = F
    BY <1>5, <2>1, <2>3, <2>5
  <2>7. LapAdded(O, F, lap, 1)
    <3>1. 1 \in Drivers
      BY KnobsAre
    <3>. QED
      BY <1>5, <2>3, <2>4, <2>5, <3>1, GrownByLap
  <2>8. Body(F, s, base)
    BY <1>5, <1>6, <2>3, <2>4, <2>5, BodyGrows DEF ReconInv
  <2>9. LapsBy(F, t)
    <3>1. Body(O, s, base) /\ LapsBy(O, a.last)
      BY <1>6 DEF ReconInv
    <3>2. LapsBy(O, t)
      BY <1>4, <1>5, <1>7, <3>1, LapsByLater
    <3>3. lap.at <= t
      BY <2>4
    <3>. QED
      BY <1>5, <2>3, <2>5, <3>2, <3>3, LapsByGrows
  <2>10. Off(F) = {} /\ On(F) = {}
    <3>1. Off(F) = Off(O) /\ On(F) = On(O)
      BY <1>5, <2>3, <2>4, <2>5, OutageGrows
    <3>. QED
      BY <1>6, <3>1 DEF ReconInv
  <2>11. Tally(F, 1, b.sum) /\ b.sum.count = b.track.laps
    <3>1. \A j \in LapIdx(O, 1) : O[j].ms \in Int
      <4>1. ASSUME NEW j \in LapIdx(O, 1) PROVE O[j].ms \in Int
        <5>1. j \in DOMAIN O /\ O[j].kind = "lap.recorded" /\ Body(O, s, base)
          BY <1>6 DEF LapIdx, ReconInv
        <5>2. j # 1
          BY <5>1 DEF Body, Started
        <5>3. O[j].ms \in Nat
          BY <5>1, <5>2 DEF Body, Inner
        <5>. QED
          BY <5>3
      <4>. QED
        BY <4>1
    <3>2. PICK row \in Row : row = a.sum
      BY <1>4
    <3>3. /\ OneMore(O, F, 1) /\ Tally(O, 1, row) /\ F[Len(F)].ms = ms
          /\ F[Len(F)].n = row.count + 1 /\ b.sum = AddLap(row, ms)
          /\ row.count = a.track.laps
      BY <1>6, <2>1, <2>4, <2>7, <3>2 DEF LapAdded, ReconInv
    <3>4. Tally(F, 1, b.sum) /\ b.sum.count = row.count + 1
      BY <2>2, <3>1, <3>3, TallyAdds
    <3>. QED
      BY <2>1, <3>3, <3>4
  <2>12. \A d \in Drivers : d # 1 => LapIdx(F, d) = {}
    BY <1>6, <2>7 DEF LapAdded, SameLaps, ReconInv
  <2>13. base <= t
    BY <1>4, <1>6, <1>7 DEF ReconInv
  <2>14. ReconInv(F, b, s, base, at, i)
    BY <1>7, <2>1, <2>8, <2>9, <2>10, <2>11, <2>12, <2>13 DEF ReconInv
  <2>. QED
    BY <2>6, <2>14
<1>. QED
  BY <1>9, <1>10, <1>11

(* GenerateReconciledSession yields nothing, or the script of a session    *)
(* that starts at the time it was given and has no outage in it.           *)
THEOREM ReconciledSession ==
  ASSUME NEW s \in Nat, NEW base \in Nat, NEW draw \in [1..OutOfSessionLaps -> LapDraws],
         NEW E, E = GenerateReconciledSession(s, base, draw), E # <<>>
  PROVE  Script(E, s, base) /\ Off(E) = {} /\ On(E) = {}
<1>. DEFINE n == OutOfSessionLaps + 1
<1>0. OutOfSessionLaps \in Nat /\ n \in Nat /\ 1 \in Drivers
  BY KnobsAre
<1>1. PICK at : at = ReconTimes(base, draw)
  OBVIOUS
<1>2. /\ at \in [0..OutOfSessionLaps -> Nat] /\ at[0] = base
      /\ \A j \in 1..OutOfSessionLaps : at[j - 1] <= at[j]
  BY <1>1, ReconTimesAre
<1>3. PICK acc : acc = ReconFold(s, base, at)
  OBVIOUS
<1>4. /\ acc \in [0..n -> ReconAcc]
      /\ acc[0] = [track |-> NewTracker, laps |-> <<>>, sum |-> NoRow, last |-> base]
      /\ \A i \in 1..n : acc[i] = ReconTurn(acc[i - 1], s, at[i - 1])
  <2>1. ReconFolded(acc, s, base, at)
    BY <1>2, <1>3, ReconFoldIs
  <2>. QED
    BY <2>1 DEF ReconFolded
<1>. DEFINE N == {i \in 0..n : ReconInv(Led(s, base, acc[i].laps), acc[i], s, base, at, i)}
<1>5. 0 \in N
  <2>1. /\ acc[0].laps = <<>> /\ acc[0].last = base /\ acc[0].sum.count = 0
        /\ acc[0].track.laps = 0
    BY <1>4 DEF NewTracker, NoRow
  <2>2. PICK O : O = Led(s, base, <<>>)
    OBVIOUS
  <2>3. O \in Seq(Event) /\ Len(O) = 1 /\ O[1] = Started(s, base)
    <3>1. <<>> \in Seq(Event) /\ Len(<<>>) = 0
      OBVIOUS
    <3>2. O \in Seq(Event) /\ Len(O) = Len(<<>>) + 1 /\ O[1] = Started(s, base)
      BY <2>2, <3>1, LedIs
    <3>. QED
      BY <3>1, <3>2
  <2>4. DOMAIN O = {1} /\ O[1].kind = "session.started"
    BY <2>3 DEF Started
  <2>5. Body(O, s, base) /\ LapsBy(O, base) /\ Off(O) = {} /\ On(O) = {}
    BY <2>3, <2>4 DEF Body, LapsBy, Off, On
  <2>6. \A d : LapIdx(O, d) = {}
    BY <2>4 DEF LapIdx
  <2>7. Tally(O, 1, acc[0].sum)
    <3>1. {O[j].n : j \in LapIdx(O, 1)} = {} /\ 1..0 = {}
      BY <2>6
    <3>. QED
      BY <2>1, <2>6, <3>1 DEF Tally
  <2>8. base <= at[0] /\ base <= base
    BY <1>2
  <2>9. ReconInv(O, acc[0], s, base, at, 0)
    BY <2>1, <2>5, <2>6, <2>7, <2>8 DEF ReconInv
  <2>. QED
    BY <1>0, <2>1, <2>2, <2>9
<1>6. ASSUME NEW i \in 1..n, i - 1 \in N PROVE i \in N
  <2>0. i \in 0..n /\ i - 1 \in 0..n
    BY <1>0
  <2>1. PICK a \in ReconAcc : a = acc[i - 1]
    BY <1>4, <2>0
  <2>2. ReconInv(Led(s, base, a.laps), a, s, base, at, i - 1) /\ acc[i] = ReconTurn(a, s, at[i - 1])
    BY <1>4, <1>6, <2>1
  <2>3. ReconInv(Led(s, base, acc[i].laps), acc[i], s, base, at, i)
    <3>. HIDE DEF N
    <3>. QED
      BY <1>2, <2>2, ReconKeeps
  <2>. QED
    BY <2>0, <2>3
<1>. HIDE DEF N
<1>7. 0..n \subseteq N
  BY <1>0, <1>5, <1>6, UpTo
<1>8. PICK end \in ReconAcc : end = acc[n]
  BY <1>0, <1>4
<1>9. PICK O : O = Led(s, base, end.laps)
  OBVIOUS
<1>10. ReconInv(O, end, s, base, at, n)
  BY <1>0, <1>7, <1>8, <1>9 DEF N
<1>11. end.laps \in Seq(Event) /\ end.last \in Nat /\ end.sum \in Row
  BY DEF ReconAcc
<1>. DEFINE sum == [d \in {1} |-> end.sum]
            e == Ended(s, end.last, sum)
<1>12. end.sum.count # 0 /\ E = (<<Started(s, base)>> \o end.laps) \o <<e>>
  BY <1>1, <1>3, <1>8 DEF GenerateReconciledSession
<1>13. sum \in [{1} -> Row] /\ {1} \in SUBSET Drivers
  BY <1>0, <1>11
<1>14. e \in Event
  BY <1>11, <1>13, EventForms
<1>. HIDE DEF e
<1>15. O \in Seq(Event) /\ E = Append(O, e)
  BY <1>9, <1>11, <1>12, <1>14, LedIs DEF Led
<1>16. SumsUp(O, sum)
  <2>1. Tally(O, 1, end.sum) /\ \A d \in Drivers : d # 1 => LapIdx(O, d) = {}
    BY <1>10 DEF ReconInv
  <2>2. LapIdx(O, 1) # {}
    <3>1. end.sum.count \in Nat /\ {O[j].n : j \in LapIdx(O, 1)} = 1..end.sum.count
      BY <1>11, <2>1 DEF Row, Tally
    <3>2. 1 \in 1..end.sum.count
      BY <1>12, <3>1
    <3>. QED
      BY <3>1, <3>2
  <2>3. DOMAIN sum = {d \in Drivers : LapIdx(O, d) # {}} /\ sum[1] = end.sum /\ DOMAIN sum = {1}
    BY <1>0, <2>1, <2>2
  <2>. HIDE DEF sum
  <2>. QED
    BY <2>1, <2>3 DEF SumsUp
<1>17. Completed(O, E, s, base)
  <2>1. PICK t \in Nat : t = end.last
    BY <1>11
  <2>2. /\ E = Append(O, Ended(s, t, sum)) /\ Body(O, s, base) /\ LapsBy(O, t) /\ base <= t
    BY <1>10, <1>15, <2>1 DEF ReconInv, e
  <2>. HIDE DEF sum
  <2>. QED
    BY <1>13, <1>15, <1>16, <2>2, ScriptEnds
<1>. QED
  BY <1>10, <1>17 DEF Completed, ReconInv
=============================================================================
