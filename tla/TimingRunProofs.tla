-------------------------- MODULE TimingRunProofs ---------------------------
(***************************************************************************)
(* The safety properties of Simulator.Run, for any number of drivers,      *)
(* stray tokens, laps, sessions, stops and failed calls.                   *)
(*                                                                         *)
(* What a session's events say is settled where they are generated (module *)
(* SimSessionProofs).  The argument here is about how they come out: the   *)
(* rows of the session in the log are an initial part of its script, the   *)
(* events still to emit are the rest of it, and each side effect brings    *)
(* the database in line with the row before it.                            *)
(***************************************************************************)
EXTENDS TimingRun, SimSessionProofs

Working == {"held", "emit", "observe", "broken", "open", "close", "reconcile", "gap"}
Idle == {"stopped", "prepare", "loop"}
InHand == {"observe", "broken", "open", "close"}

Record == Event \cup {Broken(s, d, ms, p, t) :
                        s \in Nat, d \in Drivers, ms \in Nat, p \in Nat, t \in Nat}
OutageRow == [sid : Nat, open : BOOLEAN]
RunState == [sid : Nat, outage : Nat, active : BOOLEAN, lastEnded : Nat]

Shape ==
  /\ proc \in {"up", "down"} /\ pc \in Idle \cup Working /\ stage \in {"session", "recon"}
  /\ k \in Nat /\ todo \in Seq(Event) /\ heldTodo \in Seq(HeldScan) /\ log \in Seq(Record)
  /\ st \in RunState /\ beaten \in Nat /\ prs \in [Drivers -> Nat]
  /\ known \in [Drivers -> Nat]
  /\ outages \in Seq(OutageRow) /\ crossed \in Seq(Scan)
  /\ proc = "down" => pc = "stopped"
  /\ pc \in Idle => log = <<>> /\ crossed = <<>> /\ todo = <<>>
  /\ pc \in Idle \cup {"held", "open", "close", "reconcile"} => stage = "session"
  /\ pc = "held" => log = <<>>
  /\ pc \in {"reconcile", "gap"} => todo = <<>>

(* The row of the event in hand is the latest of the log.                  *)
HandInv ==
  /\ pc \in InHand => todo # <<>> /\ log # <<>> /\ log[Len(log)] = Head(todo)
  /\ pc \in {"observe", "broken"} =>
       /\ Head(todo).kind = "lap.recorded" /\ Head(todo).who \in Drivers
       /\ Head(todo).ms \in Nat \ {0}
  /\ pc = "open" => Head(todo).kind = "scanner.offline"
  /\ pc = "close" => Head(todo).kind = "scanner.online"

-----------------------------------------------------------------------------
(* The log against the script.                                             *)
SuffixOf(td, E, p) ==
  Len(td) = Len(E) - p /\ \A x \in 1..Len(td) : td[x] = E[p + x]

LoggedIn(lg, E, s, q) ==
  /\ \A i \in DOMAIN lg : lg[i].kind # "personal_record.broken" /\ lg[i].sid = s =>
       \E j \in 1..q : lg[i] = E[j]
  /\ \A j \in 1..q : \E i \in DOMAIN lg : lg[i] = E[j]

(* Script E is told up to p; with an event in hand, its row is there too.  *)
Telling(E, s, p, lg, td, hand) ==
  /\ p \in 0..Len(E) /\ SuffixOf(td, E, p)
  /\ LoggedIn(lg, E, s, IF hand THEN p + 1 ELSE p)
  /\ hand => p < Len(E)

InSession(E, p, n, cs, lg, td, run, hand) ==
  /\ SessionScript(E, Sid(n), Base(n), cs)
  /\ Telling(E, Sid(n), p, lg, td, hand)
  /\ \A i \in DOMAIN lg : lg[i].sid = Sid(n)
  /\ lg # <<>> => run.sid = Sid(n)
  /\ p = Len(E) => run.lastEnded = E[Len(E)].at

(* The rows of the reconciled session follow the end of the normal one.    *)
Follow(lg, n, t) ==
  \A i \in DOMAIN lg :
    /\ lg[i].sid \in {Sid(n), Oos(n)}
    /\ lg[i].sid = Oos(n) =>
         /\ lg[i].at \in Nat /\ t <= lg[i].at
         /\ \E j \in DOMAIN lg : j < i /\ lg[j].kind = "session.ended" /\ lg[j].sid = Sid(n)

Told(E, n, lg) ==
  /\ Script(E, Sid(n), Base(n)) /\ LoggedIn(lg, E, Sid(n), Len(E))
  /\ Follow(lg, n, E[Len(E)].at)

InRecon(E, p, n, t, lg, td, hand) ==
  /\ Script(E, Oos(n), t) /\ Off(E) = {} /\ On(E) = {}
  /\ Telling(E, Oos(n), p, lg, td, hand)

ScriptInv ==
  /\ stage = "session" /\ pc \in Working \ {"gap"} =>
       \E E, p : InSession(E, p, k, crossed, log, todo, st, pc \in InHand)
  /\ stage = "recon" \/ pc = "gap" =>
       \E E : /\ Told(E, k, log)
              /\ stage = "session" => \A i \in DOMAIN log : log[i].sid = Sid(k)
              /\ stage = "recon" =>
                   \E F, p : InRecon(F, p, k, E[Len(E)].at, log, todo, pc \in InHand)

-----------------------------------------------------------------------------
(* The records against the log.                                            *)
LapsOf(lg, d) == {i \in DOMAIN lg : lg[i].kind = "lap.recorded" /\ lg[i].who = d}

(* A driver with a lap, the rows X left aside, has a best that is known    *)
(* and no slower than the lap.                                             *)
Heard(lg, d, X, best) ==
  \A i \in LapsOf(lg, d) \ X : best > 0 /\ lg[i].ms \in Nat /\ best <= lg[i].ms

Covers(best, record) == record # NoLap => best # NoLap /\ best <= record

(* The lap in hand is not heard of before ObserveLap or EnqueueBroken.  In *)
(* between the record may be ahead of what is known, unless a refresh has  *)
(* replaced it.                                                            *)
RecordInv ==
  \A d \in Drivers \ cutOff :
    /\ Heard(log, d, IF pc \in {"observe", "broken"} THEN {Len(log)} ELSE {}, known[d])
    /\ \/ Covers(known[d], prs[d])
       \/ pc = "broken" /\ Head(todo).who = d /\ prs[d] = Head(todo).ms

-----------------------------------------------------------------------------
(* The outage rows against the log.                                        *)
Ours == {o \in DOMAIN outages : outages[o].sid = Sid(k)}

ScannerInv ==
  /\ \A o \in DOMAIN outages : outages[o].sid <= Sid(k)
  /\ pc = "held" => Ours = {}
  /\ pc \in Working => Ours \subseteq {st.outage}
  /\ pc = "open" =>
       Ours = {} /\ Rows("scanner.offline") # {} /\ Rows("scanner.online") = {}
  /\ pc = "close" =>
       Ours # {} /\ Rows("scanner.offline") # {} /\ Rows("scanner.online") # {}
  /\ pc \in {"emit", "observe", "broken", "reconcile", "gap"} =>
       /\ Ours # {} <=> Rows("scanner.offline") # {}
       /\ \A o \in Ours : outages[o].open = (Rows("scanner.online") = {})

(* The held scans against the crossings.                                   *)
HeldScanInv ==
  \A i \in DOMAIN crossed :
    crossed[i].who \in Strays /\ ~ Lost(i) =>
      \/ [token |-> crossed[i].who, sid |-> Sid(k)] \in heldRows
      \/ pc = "held" /\ \E x \in DOMAIN heldTodo :
                          heldTodo[x] = [token |-> crossed[i].who, sid |-> Sid(k)]

Inv == Shape /\ HandInv /\ ScriptInv /\ RecordInv /\ ScannerInv /\ HeldScanInv

-----------------------------------------------------------------------------
LEMMA SuffixFirst ==
  ASSUME NEW E \in Seq(Event), NEW td \in Seq(Event), NEW p \in 0..Len(E), SuffixOf(td, E, p),
         td # <<>>
  PROVE  /\ p < Len(E) /\ p + 1 \in DOMAIN E /\ p + 1 \in 0..Len(E)
         /\ Head(td) = E[p + 1] /\ Tail(td) \in Seq(Event) /\ SuffixOf(Tail(td), E, p + 1)
<1>1. /\ Len(td) \in Nat /\ Len(E) \in Nat /\ DOMAIN E = 1..Len(E) /\ Len(td) # 0
      /\ Head(td) = td[1] /\ Tail(td) \in Seq(Event) /\ Len(Tail(td)) = Len(td) - 1
      /\ \A x \in 1..Len(Tail(td)) : Tail(td)[x] = td[x + 1]
  BY HeadTailProperties, EmptySeq
<1>2. Len(td) = Len(E) - p /\ \A x \in 1..Len(td) : td[x] = E[p + x]
  BY DEF SuffixOf
<1>3. ASSUME NEW x \in 1..Len(Tail(td)) PROVE Tail(td)[x] = E[p + 1 + x]
  <2>1. x + 1 \in 1..Len(td) /\ p + (x + 1) = p + 1 + x
    BY <1>1
  <2>. QED
    BY <1>1, <1>2, <2>1
<1>4. Head(td) = E[p + 1]
  <2>1. 1 \in 1..Len(td)
    BY <1>1
  <2>. QED
    BY <1>1, <1>2, <2>1
<1>5. p < Len(E) /\ p + 1 \in DOMAIN E /\ p + 1 \in 0..Len(E) /\ Len(Tail(td)) = Len(E) - (p + 1)
  <2>1. p \in Nat /\ p <= Len(E)
    BY <1>1
  <2>2. Len(td) = Len(E) - p
    BY <1>2
  <2>3. ASSUME NEW a \in Nat, NEW b \in Nat, NEW c \in Nat, a = b - c, a # 0, c <= b
        PROVE  c < b /\ c + 1 \in 1..b /\ c + 1 \in 0..b /\ a - 1 = b - (c + 1)
    BY <2>3
  <2>. QED
    BY <1>1, <2>1, <2>2, <2>3
<1>. QED
  BY <1>1, <1>3, <1>4, <1>5 DEF SuffixOf

LEMMA Appended ==
  ASSUME NEW S, NEW lg \in Seq(S), NEW r \in S, NEW m, m = Append(lg, r)
  PROVE  /\ m \in Seq(S) /\ Len(m) = Len(lg) + 1 /\ DOMAIN m = DOMAIN lg \cup {Len(m)}
         /\ Len(m) \notin DOMAIN lg /\ m[Len(m)] = r /\ m # <<>>
         /\ \A i \in DOMAIN lg : m[i] = lg[i] /\ i \in Nat /\ i < Len(m)
<1>1. /\ Len(lg) \in Nat /\ m \in Seq(S) /\ Len(m) = Len(lg) + 1 /\ DOMAIN lg = 1..Len(lg)
      /\ DOMAIN m = 1..(Len(lg) + 1) /\ m[Len(lg) + 1] = r /\ m # <<>>
      /\ \A i \in 1..Len(lg) : m[i] = lg[i]
  BY AppendProperties
<1>. QED
  BY <1>1

LEMMA LoggedMore ==
  ASSUME NEW lg \in Seq(Record), NEW E, NEW s, NEW q \in Nat, LoggedIn(lg, E, s, q),
         E[q + 1] \in Record, NEW m, m = Append(lg, E[q + 1])
  PROVE  LoggedIn(m, E, s, q + 1)
<1>1. /\ DOMAIN m = DOMAIN lg \cup {Len(m)} /\ m[Len(m)] = E[q + 1]
      /\ \A i \in DOMAIN lg : m[i] = lg[i]
  BY Appended
<1>2. 1..(q + 1) = 1..q \cup {q + 1}
  OBVIOUS
<1>3. ASSUME NEW i \in DOMAIN m, m[i].kind # "personal_record.broken", m[i].sid = s
      PROVE  \E j \in 1..(q + 1) : m[i] = E[j]
  <2>1. CASE i = Len(m)
    BY <1>1, <1>2, <2>1
  <2>2. CASE i \in DOMAIN lg
    <3>1. m[i] = lg[i]
      BY <1>1, <2>2
    <3>2. PICK j \in 1..q : lg[i] = E[j]
      BY <1>3, <2>2, <3>1 DEF LoggedIn
    <3>. QED
      BY <1>2, <3>1, <3>2
  <2>. QED
    BY <1>1, <2>1, <2>2
<1>4. ASSUME NEW j \in 1..(q + 1)
      PROVE  \E i \in DOMAIN m : m[i] = E[j]
  <2>1. CASE j = q + 1
    BY <1>1, <2>1
  <2>2. CASE j \in 1..q
    <3>1. PICK i \in DOMAIN lg : lg[i] = E[j]
      BY <2>2 DEF LoggedIn
    <3>. QED
      BY <1>1, <3>1
  <2>. QED
    BY <1>2, <2>1, <2>2
<1>. QED
  BY <1>3, <1>4 DEF LoggedIn

LEMMA LoggedOther ==
  ASSUME NEW lg \in Seq(Record), NEW E, NEW s, NEW q, LoggedIn(lg, E, s, q),
         NEW r \in Record, r.kind = "personal_record.broken" \/ r.sid # s,
         NEW m, m = Append(lg, r)
  PROVE  LoggedIn(m, E, s, q)
<1>1. /\ DOMAIN m = DOMAIN lg \cup {Len(m)} /\ m[Len(m)] = r
      /\ \A i \in DOMAIN lg : m[i] = lg[i]
  BY Appended
<1>. QED
  BY <1>1 DEF LoggedIn

(* The events of a script.                                                 *)
ScriptEvent(E, j, s, base) ==
  /\ E[j] \in Event /\ E[j] \in Record /\ E[j].sid = s
  /\ E[j].kind # "personal_record.broken"
  /\ E[j].at \in Nat /\ base <= E[j].at
  /\ E[j].kind = "lap.recorded" => E[j].who \in Drivers /\ E[j].ms \in Nat \ {0}
  /\ E[j].kind = "session.ended" <=> j = Len(E)
  /\ E[j].kind = "session.started" <=> j = 1

LEMMA ScriptEvents ==
  ASSUME NEW E, NEW s \in Nat, NEW base \in Nat, Script(E, s, base), NEW j \in DOMAIN E
  PROVE  ScriptEvent(E, j, s, base)
<1>1. /\ E \in Seq(Event) /\ Len(E) >= 2 /\ Len(E) \in Nat /\ E[1] = Started(s, base)
      /\ E[j] \in Event /\ E[j] \in Record
      /\ E[Len(E)].kind = "session.ended" /\ E[Len(E)].sid = s
      /\ E[Len(E)].at \in Nat /\ base <= E[Len(E)].at
  BY DEF Script, Record
<1>2. CASE j = 1
  <2>1. E[j].kind = "session.started" /\ E[j].sid = s /\ E[j].at = base /\ j # Len(E)
    BY <1>1, <1>2 DEF Started
  <2>. QED
    BY <1>1, <1>2, <2>1 DEF ScriptEvent
<1>3. CASE j = Len(E)
  <2>1. j # 1
    BY <1>1, <1>3
  <2>. QED
    BY <1>1, <1>3, <2>1 DEF ScriptEvent
<1>4. CASE j # 1 /\ j # Len(E)
  <2>1. Inner(E[j], s, base)
    BY <1>4 DEF Script
  <2>. QED
    BY <1>1, <1>4, <2>1 DEF ScriptEvent, Inner
<1>. QED
  BY <1>2, <1>3, <1>4

(* The first event to emit is the one after those that were told.          *)
NextEvent(E, p, s, base, td) ==
  /\ E \in Seq(Event) /\ p \in Nat /\ p < Len(E) /\ p + 1 \in DOMAIN E /\ p + 1 \in 0..Len(E)
  /\ Head(td) = E[p + 1] /\ ScriptEvent(E, p + 1, s, base)
  /\ Tail(td) \in Seq(Event) /\ SuffixOf(Tail(td), E, p + 1)

LEMMA NextIs ==
  ASSUME NEW E, NEW s \in Nat, NEW base \in Nat, Script(E, s, base), NEW p \in 0..Len(E),
         NEW td \in Seq(Event), SuffixOf(td, E, p), td # <<>>
  PROVE  NextEvent(E, p, s, base, td)
<1>1. E \in Seq(Event) /\ Len(E) \in Nat
  BY DEF Script
<1>2. /\ p < Len(E) /\ p + 1 \in DOMAIN E /\ p + 1 \in 0..Len(E)
      /\ Head(td) = E[p + 1] /\ Tail(td) \in Seq(Event) /\ SuffixOf(Tail(td), E, p + 1)
  BY <1>1, SuffixFirst
<1>3. ScriptEvent(E, p + 1, s, base)
  BY <1>2, ScriptEvents
<1>. QED
  BY <1>1, <1>2, <1>3 DEF NextEvent

(* Emitting it: with a side effect to come the event stays in hand.        *)
LEMMA TellHand ==
  ASSUME NEW E, NEW s \in Nat, NEW base \in Nat, NEW p, NEW lg \in Seq(Record), NEW td,
         Telling(E, s, p, lg, td, FALSE), NextEvent(E, p, s, base, td),
         NEW m, m = Append(lg, Head(td))
  PROVE  Telling(E, s, p, m, td, TRUE)
<1>1. /\ p \in 0..Len(E) /\ SuffixOf(td, E, p) /\ LoggedIn(lg, E, s, p) /\ p \in Nat
      /\ p < Len(E) /\ m = Append(lg, E[p + 1]) /\ E[p + 1] \in Record
  BY DEF Telling, NextEvent, ScriptEvent
<1>2. LoggedIn(m, E, s, p + 1)
  BY <1>1, LoggedMore
<1>. QED
  BY <1>1, <1>2 DEF Telling

LEMMA TellOn ==
  ASSUME NEW E, NEW s \in Nat, NEW base \in Nat, NEW p, NEW lg, NEW td,
         Telling(E, s, p, lg, td, TRUE), NextEvent(E, p, s, base, td)
  PROVE  Telling(E, s, p + 1, lg, Tail(td), FALSE)
  BY DEF Telling, NextEvent

(* A record that is announced does not belong to the script.               *)
LEMMA TellOther ==
  ASSUME NEW E, NEW s, NEW p, NEW lg \in Seq(Record), NEW td, Telling(E, s, p, lg, td, TRUE),
         NEW r \in Record, r.kind = "personal_record.broken" \/ r.sid # s,
         NEW m, m = Append(lg, r)
  PROVE  Telling(E, s, p, m, td, TRUE)
<1>1. LoggedIn(lg, E, s, p + 1)
  BY DEF Telling
<1>2. LoggedIn(m, E, s, p + 1)
  BY <1>1, LoggedOther
<1>. QED
  BY <1>2 DEF Telling

(* Every driver, knob, session number and base is in its range.            *)
LEMMA Numbers ==
  ASSUME NEW n \in Nat
  PROVE  Sid(n) \in Nat /\ Oos(n) \in Nat /\ Base(n) \in Nat /\ Sid(n) # Oos(n)
<1>1. n * SessionSpan \in Nat
  BY RunConstantsOK
<1>. QED
  BY <1>1 DEF Sid, Oos, Base

-----------------------------------------------------------------------------
(* The run state after an event (NextRunState, as a relation).             *)
RunAfter(run, e, next) ==
  /\ next.sid = IF e.kind = "session.started" THEN e.sid ELSE run.sid
  /\ next.lastEnded = IF e.kind = "session.ended" THEN e.at ELSE run.lastEnded

LEMMA SessionHand ==
  ASSUME NEW E, NEW p, NEW n \in Nat, NEW cs, NEW lg \in Seq(Record), NEW td, NEW run,
         InSession(E, p, n, cs, lg, td, run, FALSE),
         NextEvent(E, p, Sid(n), Base(n), td),
         NEW m, m = Append(lg, Head(td)), NEW next, RunAfter(run, Head(td), next)
  PROVE  InSession(E, p, n, cs, m, td, next, TRUE)
<1>1. Telling(E, Sid(n), p, lg, td, FALSE) /\ Sid(n) \in Nat /\ Base(n) \in Nat
  BY Numbers DEF InSession
<1>2. Telling(E, Sid(n), p, m, td, TRUE)
  BY <1>1, TellHand
<1>3. Head(td) \in Record /\ Head(td).sid = Sid(n) /\ p < Len(E) /\ p \in Nat /\ E \in Seq(Event)
  BY DEF NextEvent, ScriptEvent
<1>4. /\ DOMAIN m = DOMAIN lg \cup {Len(m)} /\ m[Len(m)] = Head(td)
      /\ \A i \in DOMAIN lg : m[i] = lg[i]
  BY <1>3, Appended
<1>5. next.sid = Sid(n)
  <2>1. CASE lg # <<>>
    BY <1>3, <2>1 DEF InSession, RunAfter
  <2>2. CASE lg = <<>>
    <3>1. p = 0
      <4>1. SUFFICES ASSUME p # 0 PROVE FALSE
        OBVIOUS
      <4>2. 1 \in 1..p
        BY <1>3, <4>1
      <4>3. LoggedIn(lg, E, Sid(n), p)
        BY <1>1 DEF Telling
      <4>4. \E i \in DOMAIN lg : lg[i] = E[1]
        BY <4>2, <4>3 DEF LoggedIn
      <4>. QED
        BY <2>2, <4>4
    <3>2. Head(td).kind = "session.started"
      BY <3>1 DEF NextEvent, ScriptEvent
    <3>. QED
      BY <1>3, <3>2 DEF RunAfter
  <2>. QED
    BY <2>1, <2>2
<1>6. \A i \in DOMAIN m : m[i].sid = Sid(n)
  BY <1>3, <1>4 DEF InSession
<1>7. p # Len(E)
  <2>. HIDE DEF NextEvent
  <2>1. Len(E) \in Nat
    BY <1>3
  <2>. QED
    BY <1>3, <2>1
<1>. QED
  BY <1>2, <1>5, <1>6, <1>7 DEF InSession

LEMMA SessionOn ==
  ASSUME NEW E, NEW p, NEW n \in Nat, NEW cs, NEW lg \in Seq(Record), NEW td, NEW run,
         InSession(E, p, n, cs, lg, td, run, TRUE),
         NextEvent(E, p, Sid(n), Base(n), td),
         Head(td).kind = "session.ended" => run.lastEnded = Head(td).at
  PROVE  InSession(E, p + 1, n, cs, lg, Tail(td), run, FALSE)
<1>1. Telling(E, Sid(n), p, lg, td, TRUE) /\ Sid(n) \in Nat /\ Base(n) \in Nat
  BY Numbers DEF InSession
<1>2. Telling(E, Sid(n), p + 1, lg, Tail(td), FALSE)
  BY <1>1, TellOn
<1>3. p + 1 = Len(E) => run.lastEnded = E[Len(E)].at
  BY DEF NextEvent, ScriptEvent
<1>. QED
  BY <1>2, <1>3 DEF InSession

LEMMA SessionOther ==
  ASSUME NEW E, NEW p, NEW n \in Nat, NEW cs, NEW lg \in Seq(Record), NEW td, NEW run,
         InSession(E, p, n, cs, lg, td, run, TRUE), lg # <<>>,
         NEW r \in Record, r.kind = "personal_record.broken", r.sid = Sid(n),
         NEW m, m = Append(lg, r)
  PROVE  InSession(E, p, n, cs, m, td, run, TRUE)
<1>1. Telling(E, Sid(n), p, lg, td, TRUE)
  BY DEF InSession
<1>2. Telling(E, Sid(n), p, m, td, TRUE)
  BY <1>1, TellOther
<1>3. /\ DOMAIN m = DOMAIN lg \cup {Len(m)} /\ m[Len(m)] = r
      /\ \A i \in DOMAIN lg : m[i] = lg[i]
  BY Appended
<1>4. \A i \in DOMAIN m : m[i].sid = Sid(n)
  BY <1>3 DEF InSession
<1>. QED
  BY <1>2, <1>4 DEF InSession

-----------------------------------------------------------------------------
LEMMA FollowMore ==
  ASSUME NEW lg \in Seq(Record), NEW n \in Nat, NEW t, Follow(lg, n, t),
         \E j \in DOMAIN lg : lg[j].kind = "session.ended" /\ lg[j].sid = Sid(n),
         NEW r \in Record, r.sid = Oos(n), r.at \in Nat, t <= r.at,
         NEW m, m = Append(lg, r)
  PROVE  Follow(m, n, t)
<1>1. /\ DOMAIN m = DOMAIN lg \cup {Len(m)} /\ m[Len(m)] = r
      /\ \A i \in DOMAIN lg : m[i] = lg[i] /\ i < Len(m)
  BY Appended
<1>2. ASSUME NEW i \in DOMAIN m
      PROVE  /\ m[i].sid \in {Sid(n), Oos(n)}
             /\ m[i].sid = Oos(n) =>
                  /\ m[i].at \in Nat /\ t <= m[i].at
                  /\ \E j \in DOMAIN m : j < i /\ m[j].kind = "session.ended" /\ m[j].sid = Sid(n)
  <2>1. CASE i = Len(m)
    BY <1>1, <2>1
  <2>2. CASE i \in DOMAIN lg
    BY <1>1, <2>2 DEF Follow
  <2>. QED
    BY <1>1, <2>1, <2>2
<1>. QED
  BY <1>2 DEF Follow

(* The end of a script that was told is in the log.                        *)
LEMMA EndIsTold ==
  ASSUME NEW E, NEW s, NEW base, Script(E, s, base), NEW lg, LoggedIn(lg, E, s, Len(E))
  PROVE  \E j \in DOMAIN lg : lg[j] = E[Len(E)] /\ lg[j].kind = "session.ended" /\ lg[j].sid = s
<1>1. Len(E) \in 1..Len(E)
  BY DEF Script
<1>2. PICK j \in DOMAIN lg : lg[j] = E[Len(E)]
  BY <1>1 DEF LoggedIn
<1>. QED
  BY <1>2 DEF Script

LEMMA ToldMore ==
  ASSUME NEW E, NEW n \in Nat, NEW lg \in Seq(Record), Told(E, n, lg),
         NEW r \in Record, r.sid = Oos(n), r.at \in Nat, E[Len(E)].at <= r.at,
         NEW m, m = Append(lg, r)
  PROVE  Told(E, n, m)
<1>1. /\ Script(E, Sid(n), Base(n)) /\ LoggedIn(lg, E, Sid(n), Len(E))
      /\ Follow(lg, n, E[Len(E)].at)
  BY DEF Told
<1>2. \E j \in DOMAIN lg : lg[j].kind = "session.ended" /\ lg[j].sid = Sid(n)
  BY <1>1, EndIsTold
<1>3. Follow(m, n, E[Len(E)].at)
  BY <1>1, <1>2, FollowMore
<1>4. r.sid # Sid(n)
  BY Numbers
<1>5. LoggedIn(m, E, Sid(n), Len(E))
  BY <1>1, <1>4, LoggedOther
<1>. QED
  BY <1>1, <1>3, <1>5 DEF Told

LEMMA ReconHand ==
  ASSUME NEW E, NEW p, NEW n \in Nat, NEW t \in Nat, NEW lg \in Seq(Record), NEW td,
         InRecon(E, p, n, t, lg, td, FALSE), NextEvent(E, p, Oos(n), t, td),
         NEW m, m = Append(lg, Head(td))
  PROVE  InRecon(E, p, n, t, m, td, TRUE)
<1>1. Telling(E, Oos(n), p, lg, td, FALSE) /\ Oos(n) \in Nat
  BY Numbers DEF InRecon
<1>2. Telling(E, Oos(n), p, m, td, TRUE)
  BY <1>1, TellHand
<1>. QED
  BY <1>2 DEF InRecon

LEMMA ReconOn ==
  ASSUME NEW E, NEW p, NEW n \in Nat, NEW t \in Nat, NEW lg \in Seq(Record), NEW td,
         InRecon(E, p, n, t, lg, td, TRUE), NextEvent(E, p, Oos(n), t, td)
  PROVE  InRecon(E, p + 1, n, t, lg, Tail(td), FALSE)
<1>1. Telling(E, Oos(n), p, lg, td, TRUE) /\ Oos(n) \in Nat
  BY Numbers DEF InRecon
<1>2. Telling(E, Oos(n), p + 1, lg, Tail(td), FALSE)
  BY <1>1, TellOn
<1>. QED
  BY <1>2 DEF InRecon

LEMMA ReconOther ==
  ASSUME NEW E, NEW p, NEW n \in Nat, NEW t \in Nat, NEW lg \in Seq(Record), NEW td,
         InRecon(E, p, n, t, lg, td, TRUE),
         NEW r \in Record, r.kind = "personal_record.broken", NEW m, m = Append(lg, r)
  PROVE  InRecon(E, p, n, t, m, td, TRUE)
<1>1. Telling(E, Oos(n), p, lg, td, TRUE)
  BY DEF InRecon
<1>2. Telling(E, Oos(n), p, m, td, TRUE)
  BY <1>1, TellOther
<1>. QED
  BY <1>2 DEF InRecon

-----------------------------------------------------------------------------
(* The state between two calls: the scripts, with the event in hand or not.*)
Session(E, p, hand) == InSession(E, p, k, crossed, log, todo, st, hand)
Recon(E, F, p, hand) == Told(E, k, log) /\ InRecon(F, p, k, E[Len(E)].at, log, todo, hand)

AtEvent == pc \in InHand \cup {"emit"} /\ todo # <<>>

LEMMA AtSession ==
  ASSUME Inv, AtEvent, stage = "session"
  PROVE  \E E, p : Session(E, p, pc \in InHand) /\ NextEvent(E, p, Sid(k), Base(k), todo)
<1>1. pc \in Working \ {"gap"} /\ k \in Nat /\ todo \in Seq(Event) /\ todo # <<>>
  BY DEF Inv, Shape, AtEvent, InHand, Working
<1>2. PICK E, p : InSession(E, p, k, crossed, log, todo, st, pc \in InHand)
  BY <1>1 DEF Inv, ScriptInv
<1>3. p \in 0..Len(E) /\ SuffixOf(todo, E, p) /\ Script(E, Sid(k), Base(k))
  BY <1>2 DEF InSession, Telling, SessionScript
<1>4. NextEvent(E, p, Sid(k), Base(k), todo)
  BY <1>1, <1>3, Numbers, NextIs
<1>. QED
  BY <1>2, <1>4 DEF Session

EndAt(E) == E[Len(E)].at

LEMMA AtRecon ==
  ASSUME Inv, AtEvent, stage = "recon"
  PROVE  \E E, F, p : /\ Recon(E, F, p, pc \in InHand) /\ EndAt(E) \in Nat
                      /\ NextEvent(F, p, Oos(k), EndAt(E), todo)
<1>1. k \in Nat /\ todo \in Seq(Event) /\ todo # <<>>
  BY DEF Inv, Shape, AtEvent
<1>2. PICK E, F, p : Told(E, k, log) /\ InRecon(F, p, k, E[Len(E)].at, log, todo, pc \in InHand)
  BY DEF Inv, ScriptInv
<1>3. /\ p \in 0..Len(F) /\ SuffixOf(todo, F, p) /\ Script(F, Oos(k), EndAt(E))
      /\ EndAt(E) \in Nat
  BY <1>2 DEF Told, InRecon, Telling, Script, EndAt
<1>4. NextEvent(F, p, Oos(k), EndAt(E), todo)
  BY <1>1, <1>3, Numbers, NextIs
<1>. QED
  BY <1>2, <1>3, <1>4 DEF Recon

(* What is known of the event to emit or in hand.                          *)
EventFacts ==
  /\ Head(todo) \in Event /\ Head(todo) \in Record /\ Tail(todo) \in Seq(Event)
  /\ Head(todo).sid = (IF stage = "session" THEN Sid(k) ELSE Oos(k)) /\ Head(todo).sid \in Nat
  /\ Head(todo).at \in Nat /\ Head(todo).kind # "personal_record.broken"
  /\ Head(todo).kind = "lap.recorded" => Head(todo).who \in Drivers /\ Head(todo).ms \in Nat \ {0}
  /\ stage = "recon" => Head(todo).kind \notin {"scanner.offline", "scanner.online"}

LEMMA EventIs ==
  ASSUME Inv, AtEvent
  PROVE  EventFacts
<1>0. stage \in {"session", "recon"} /\ k \in Nat /\ Sid(k) \in Nat /\ Oos(k) \in Nat
  BY Numbers DEF Inv, Shape
<1>1. CASE stage = "session"
  <2>1. PICK E, p : NextEvent(E, p, Sid(k), Base(k), todo)
    BY <1>1, AtSession
  <2>. QED
    BY <1>0, <1>1, <2>1 DEF NextEvent, ScriptEvent, EventFacts
<1>2. CASE stage = "recon"
  <2>1. PICK E, F, p : /\ Recon(E, F, p, pc \in InHand)
                       /\ NextEvent(F, p, Oos(k), EndAt(E), todo)
    BY <1>2, AtRecon
  <2>2. Off(F) = {} /\ On(F) = {} /\ p + 1 \in DOMAIN F /\ Head(todo) = F[p + 1]
    BY <2>1 DEF Recon, InRecon, NextEvent
  <2>3. Head(todo).kind \notin {"scanner.offline", "scanner.online"}
    BY <2>2 DEF Off, On
  <2>. QED
    BY <1>0, <1>2, <2>1, <2>3 DEF NextEvent, ScriptEvent, EventFacts
<1>. QED
  BY <1>0, <1>1, <1>2

-----------------------------------------------------------------------------
(* ScriptInv, action by action.                                            *)
LEMMA AfterEmit ==
  ASSUME Inv, Emit
  PROVE  /\ AtEvent /\ pc \notin InHand /\ EventFacts
         /\ log' = Append(log, Head(todo)) /\ RunAfter(st, Head(todo), st')
         /\ stage' = stage /\ k' = k /\ crossed' = crossed
         /\ \/ pc' \in InHand /\ todo' = todo
            \/ /\ pc' = "emit" /\ todo' = Tail(todo)
               /\ Head(todo).kind \notin {"lap.recorded", "scanner.offline", "scanner.online"}
<1>1. AtEvent /\ pc \notin InHand
  BY DEF AtEvent, Emit, At, InHand
<1>2. EventFacts
  BY <1>1, EventIs
<1>3. RunAfter(st, Head(todo), st')
  <2>1. st \in RunState
    BY DEF Inv, Shape
  <2>. QED
    BY <2>1 DEF Emit, NextRunState, RunAfter, RunState
<1>. QED
  BY <1>1, <1>2, <1>3 DEF Emit, SideEffect, InHand

LEMMA ScriptEmit ==
  ASSUME Inv, Emit
  PROVE  ScriptInv'
<1>1. /\ AtEvent /\ pc \notin InHand /\ EventFacts
      /\ log' = Append(log, Head(todo)) /\ RunAfter(st, Head(todo), st')
      /\ stage' = stage /\ k' = k /\ crossed' = crossed
      /\ \/ pc' \in InHand /\ todo' = todo
         \/ pc' = "emit" /\ todo' = Tail(todo)
  BY AfterEmit
<1>2. k \in Nat /\ log \in Seq(Record) /\ stage \in {"session", "recon"}
  BY DEF Inv, Shape
<1>3. pc' # "gap" /\ ((pc' \in InHand) = FALSE \/ (pc' \in InHand) = TRUE)
  BY <1>1 DEF InHand
<1>4. CASE stage = "session"
  <2>1. PICK E, p : /\ InSession(E, p, k, crossed, log, todo, st, pc \in InHand)
                    /\ NextEvent(E, p, Sid(k), Base(k), todo)
    BY <1>1, <1>4, AtSession DEF Session
  <2>2. InSession(E, p, k, crossed, log, todo, st, FALSE)
    BY <1>1, <2>1 DEF InSession, Telling
  <2>3. InSession(E, p, k, crossed, log', todo, st', TRUE)
    BY <1>1, <1>2, <2>1, <2>2, SessionHand
  <2>4. CASE pc' \in InHand /\ todo' = todo
    <3>1. InSession(E, p, k, crossed, log', todo, st', pc' \in InHand)
      BY <2>3, <2>4 DEF InSession, Telling
    <3>. QED
      BY <1>1, <1>3, <1>4, <2>4, <3>1 DEF ScriptInv
  <2>5. CASE pc' = "emit" /\ todo' = Tail(todo)
    <3>1. log' \in Seq(Record)
      BY <1>1, <1>2, Appended DEF EventFacts
    <3>2. Head(todo).kind = "session.ended" => st'.lastEnded = Head(todo).at
      BY <1>1 DEF RunAfter
    <3>3. InSession(E, p + 1, k, crossed, log', Tail(todo), st', FALSE)
      BY <1>2, <2>1, <2>3, <3>1, <3>2, SessionOn
    <3>4. InSession(E, p + 1, k, crossed, log', Tail(todo), st', pc' \in InHand)
      BY <2>5, <3>3 DEF InSession, Telling, InHand
    <3>. QED
      BY <1>1, <1>3, <1>4, <2>5, <3>4 DEF ScriptInv
  <2>. QED
    BY <1>1, <2>4, <2>5
<1>5. CASE stage = "recon"
  <2>1. PICK E, F, p : /\ Told(E, k, log) /\ EndAt(E) \in Nat
                       /\ InRecon(F, p, k, EndAt(E), log, todo, pc \in InHand)
                       /\ NextEvent(F, p, Oos(k), EndAt(E), todo)
    BY <1>1, <1>5, AtRecon DEF Recon, EndAt
  <2>2. InRecon(F, p, k, EndAt(E), log, todo, FALSE)
    BY <1>1, <2>1 DEF InRecon, Telling
  <2>3. InRecon(F, p, k, EndAt(E), log', todo, TRUE)
    BY <1>1, <1>2, <2>1, <2>2, ReconHand
  <2>4. /\ Head(todo) \in Record /\ Head(todo).sid = Oos(k) /\ Head(todo).at \in Nat
        /\ E[Len(E)].at <= Head(todo).at
    BY <2>1 DEF NextEvent, ScriptEvent, EndAt
  <2>5. Told(E, k, log')
    BY <1>1, <1>2, <2>1, <2>4, ToldMore
  <2>6. \E q : InRecon(F, q, k, E[Len(E)].at, log', todo', pc' \in InHand)
    <3>1. CASE pc' \in InHand /\ todo' = todo
      BY <2>3, <3>1 DEF InRecon, Telling, EndAt
    <3>2. CASE pc' = "emit" /\ todo' = Tail(todo)
      <4>1. log' \in Seq(Record)
        BY <1>1, <1>2, Appended DEF EventFacts
      <4>2. InRecon(F, p + 1, k, EndAt(E), log', Tail(todo), FALSE)
        BY <1>2, <2>1, <2>3, <4>1, ReconOn
      <4>. QED
        BY <3>2, <4>2 DEF InRecon, Telling, EndAt, InHand
    <3>. QED
      BY <1>1, <3>1, <3>2
  <2>. QED
    BY <1>1, <1>5, <2>5, <2>6 DEF ScriptInv
<1>. QED
  BY <1>2, <1>4, <1>5

(* An event in hand is done with; a record may have been announced.        *)
LEMMA ScriptDone ==
  ASSUME Inv, pc \in InHand, pc' = "emit", todo' = Tail(todo), stage' = stage, k' = k,
         crossed' = crossed, st'.sid = st.sid, st'.lastEnded = st.lastEnded,
         \/ log' = log
         \/ \E r \in Record : /\ log' = Append(log, r) /\ r.kind = "personal_record.broken"
                              /\ r.sid = Head(todo).sid /\ r.at = Head(todo).at
  PROVE  ScriptInv'
<1>1. /\ AtEvent /\ k \in Nat /\ log \in Seq(Record) /\ stage \in {"session", "recon"}
      /\ log # <<>> /\ pc' # "gap" /\ ~ (pc' \in InHand)
      /\ Head(todo).kind \in {"lap.recorded", "scanner.offline", "scanner.online"}
  BY DEF Inv, Shape, HandInv, AtEvent, InHand
<1>2. log' \in Seq(Record)
  BY <1>1, Appended
<1>3. CASE stage = "session"
  <2>1. PICK E, p : /\ InSession(E, p, k, crossed, log, todo, st, pc \in InHand)
                    /\ NextEvent(E, p, Sid(k), Base(k), todo)
    BY <1>1, <1>3, AtSession DEF Session
  <2>2. InSession(E, p, k, crossed, log, todo, st', TRUE)
    BY <2>1 DEF InSession, Telling
  <2>3. Head(todo).sid = Sid(k)
    BY <2>1 DEF NextEvent, ScriptEvent
  <2>4. InSession(E, p, k, crossed, log', todo, st', TRUE)
    <3>1. CASE log' = log
      BY <2>2, <3>1
    <3>2. CASE \E r \in Record : /\ log' = Append(log, r) /\ r.kind = "personal_record.broken"
                                 /\ r.sid = Head(todo).sid
      <4>1. PICK r \in Record : /\ log' = Append(log, r) /\ r.kind = "personal_record.broken"
                                /\ r.sid = Sid(k)
        BY <2>3, <3>2
      <4>. QED
        BY <1>1, <2>2, <4>1, SessionOther
    <3>. QED
      BY <3>1, <3>2
  <2>5. InSession(E, p + 1, k, crossed, log', Tail(todo), st', FALSE)
    BY <1>1, <1>2, <2>1, <2>4, SessionOn
  <2>6. InSession(E, p + 1, k, crossed, log', Tail(todo), st', pc' \in InHand)
    BY <1>1, <2>5 DEF InSession, Telling
  <2>. QED
    BY <1>1, <1>3, <2>6 DEF ScriptInv
<1>4. CASE stage = "recon"
  <2>1. PICK E, F, p : /\ Told(E, k, log) /\ EndAt(E) \in Nat
                       /\ InRecon(F, p, k, EndAt(E), log, todo, pc \in InHand)
                       /\ NextEvent(F, p, Oos(k), EndAt(E), todo)
    BY <1>1, <1>4, AtRecon DEF Recon, EndAt
  <2>2. InRecon(F, p, k, EndAt(E), log, todo, TRUE)
    BY <2>1 DEF InRecon, Telling
  <2>3. Head(todo).sid = Oos(k) /\ Head(todo).at \in Nat /\ E[Len(E)].at <= Head(todo).at
    BY <2>1 DEF NextEvent, ScriptEvent, EndAt
  <2>4. Told(E, k, log') /\ InRecon(F, p, k, EndAt(E), log', todo, TRUE)
    <3>1. CASE log' = log
      BY <2>1, <2>2, <3>1
    <3>2. CASE \E r \in Record : /\ log' = Append(log, r) /\ r.kind = "personal_record.broken"
                                 /\ r.sid = Head(todo).sid /\ r.at = Head(todo).at
      <4>1. PICK r \in Record : /\ log' = Append(log, r) /\ r.kind = "personal_record.broken"
                                /\ r.sid = Oos(k) /\ r.at \in Nat /\ E[Len(E)].at <= r.at
        BY <2>3, <3>2
      <4>2. Told(E, k, log')
        BY <1>1, <2>1, <4>1, ToldMore
      <4>3. InRecon(F, p, k, EndAt(E), log', todo, TRUE)
        BY <1>1, <2>1, <2>2, <4>1, ReconOther
      <4>. QED
        BY <4>2, <4>3
    <3>. QED
      BY <3>1, <3>2
  <2>5. InRecon(F, p + 1, k, EndAt(E), log', Tail(todo), FALSE)
    BY <1>1, <1>2, <2>1, <2>4, ReconOn
  <2>6. InRecon(F, p + 1, k, E[Len(E)].at, log', Tail(todo), pc' \in InHand)
    BY <1>1, <2>5 DEF InRecon, Telling, EndAt
  <2>. QED
    BY <1>1, <1>4, <2>4, <2>6 DEF ScriptInv
<1>. QED
  BY <1>1, <1>3, <1>4

(* Between the sessions, before the first and after a stop there is none.  *)
LEMMA ScriptIdle ==
  ASSUME pc' \in Idle, stage' = "session"
  PROVE  ScriptInv'
  BY DEF ScriptInv, Idle, Working

(* The script, the log and the run state stay as they are.                 *)
LEMMA ScriptKept ==
  ASSUME Inv, pc \in Working \ {"gap"}, pc' \in Working, pc' = "gap" => stage = "recon",
         (pc \in InHand) = (pc' \in InHand), UNCHANGED <<stage, k, crossed, log, todo, st>>
  PROVE  ScriptInv'
<1>1. stage \in {"session", "recon"}
  BY DEF Inv, Shape
<1>2. CASE stage = "session"
  <2>1. PICK E, p : InSession(E, p, k, crossed, log, todo, st, pc \in InHand)
    BY <1>2 DEF Inv, ScriptInv
  <2>2. InSession(E, p, k, crossed, log, todo, st, pc' \in InHand)
    BY <2>1 DEF InSession, Telling
  <2>. QED
    BY <1>2, <2>2 DEF ScriptInv
<1>3. CASE stage = "recon"
  <2>1. PICK E, F, p : Told(E, k, log) /\ InRecon(F, p, k, E[Len(E)].at, log, todo, pc \in InHand)
    BY <1>3 DEF Inv, ScriptInv
  <2>2. InRecon(F, p, k, E[Len(E)].at, log, todo, pc' \in InHand)
    BY <2>1 DEF InRecon, Telling
  <2>. QED
    BY <1>3, <2>1, <2>2 DEF ScriptInv
<1>. QED
  BY <1>1, <1>2, <1>3

(* A script of which nothing is told.                                      *)
LEMMA TellNothing ==
  ASSUME NEW E \in Seq(Event), NEW s, NEW lg, \A i \in DOMAIN lg : lg[i].sid # s
  PROVE  Telling(E, s, 0, lg, E, FALSE)
<1>1. Len(E) \in Nat
  OBVIOUS
<1>2. SuffixOf(E, E, 0)
  BY <1>1 DEF SuffixOf
<1>3. LoggedIn(lg, E, s, 0)
  BY DEF LoggedIn
<1>. QED
  BY <1>1, <1>2, <1>3 DEF Telling

(* Generate, with what was proved of the crossings and the generated       *)
(* session.                                                                *)
Generated(n, cs, evs, hd) ==
  /\ cs \in Seq(Scan) /\ SessionScript(evs, Sid(n), Base(n), cs)
  /\ hd \in Seq(HeldScan) /\ HeldInv(hd, Sid(n), cs, Len(cs))

LEMMA GenerateIs ==
  ASSUME Inv, Generate
  PROVE  /\ Generated(k', crossed', todo', heldTodo') /\ k' = k + 1 /\ k' \in Nat
         /\ todo' \in Seq(Event) /\ crossed' \in Seq(Scan) /\ heldTodo' \in Seq(HeldScan)
<1>1. k \in Nat /\ k' = k + 1 /\ k + 1 \in Nat
  BY DEF Inv, Shape, Generate
<1>2. PICK times \in [Drivers -> Runs] : \E stray \in [Strays -> StrayOffsets(times)] :
        LET cs == Crossings(Base(k + 1), times, stray)
            g == GenerateSession(Sid(k + 1), Base(k + 1), cs)
        IN  crossed' = cs /\ todo' = g.events /\ heldTodo' = g.held
  BY DEF Generate
<1>3. PICK stray \in [Strays -> StrayOffsets(times)] :
        LET cs == Crossings(Base(k + 1), times, stray)
            g == GenerateSession(Sid(k + 1), Base(k + 1), cs)
        IN  crossed' = cs /\ todo' = g.events /\ heldTodo' = g.held
  BY <1>2
<1>4. PICK n \in Nat : n = k + 1
  BY <1>1
<1>5. PICK cs : cs = Crossings(Base(n), times, stray)
  OBVIOUS
<1>6. PICK g : g = GenerateSession(Sid(n), Base(n), cs)
  OBVIOUS
<1>7. crossed' = cs /\ todo' = g.events /\ heldTodo' = g.held
  BY <1>3, <1>4, <1>5, <1>6
<1>8. Sid(n) \in Nat /\ Base(n) \in Nat
  BY Numbers
<1>9. cs \in Seq(Scan) /\ Sorted(cs) /\ NotBefore(cs, Base(n))
  <2>1. cs \in Seq(Scan) /\ Sorted(cs) /\ \A i \in DOMAIN cs : Base(n) <= cs[i].at
    BY <1>5, <1>8, CrossingsAre
  <2>. QED
    BY <2>1 DEF NotBefore
<1>10. /\ SessionScript(g.events, Sid(n), Base(n), cs)
       /\ g.held \in Seq(HeldScan) /\ HeldInv(g.held, Sid(n), cs, Len(cs))
  BY <1>6, <1>8, <1>9, GeneratedSession
<1>11. Generated(n, crossed', todo', heldTodo')
  BY <1>7, <1>9, <1>10 DEF Generated
<1>. QED
  BY <1>1, <1>4, <1>11 DEF Generated, SessionScript, Script

LEMMA ScriptGenerate ==
  ASSUME Inv, Generate
  PROVE  ScriptInv'
<1>1. /\ Generated(k', crossed', todo', heldTodo') /\ k' \in Nat /\ todo' \in Seq(Event)
  BY GenerateIs
<1>2. log = <<>> /\ log' = log /\ stage' = "session" /\ pc' = "held" /\ st' = st
  BY DEF Inv, Shape, Generate, At, Idle
<1>3. SessionScript(todo', Sid(k'), Base(k'), crossed') /\ Len(todo') >= 2
  BY <1>1 DEF Generated, SessionScript, Script
<1>4. PICK E \in Seq(Event), n \in Nat, lg \in {log'} : E = todo' /\ n = k' /\ lg = log'
  BY <1>1
<1>5. InSession(E, 0, n, crossed', lg, E, st', FALSE)
  <2>1. lg = <<>> /\ DOMAIN lg = {}
    BY <1>2, <1>4
  <2>2. Telling(E, Sid(n), 0, lg, E, FALSE)
    BY <2>1, TellNothing
  <2>3. SessionScript(E, Sid(n), Base(n), crossed') /\ 0 # Len(E)
    BY <1>3, <1>4
  <2>. QED
    BY <2>1, <2>2, <2>3 DEF InSession
<1>6. InSession(todo', 0, k', crossed', log', todo', st', pc' \in InHand)
  BY <1>2, <1>4, <1>5 DEF InSession, Telling, InHand
<1>. QED
  BY <1>2, <1>6 DEF ScriptInv

LEMMA ScriptReconcile ==
  ASSUME Inv, Reconcile
  PROVE  ScriptInv' /\ todo' \in Seq(Event)
<1>1. /\ k \in Nat /\ log \in Seq(Record) /\ stage = "session" /\ todo = <<>> /\ pc = "reconcile"
      /\ k' = k /\ log' = log
  BY DEF Inv, Shape, Reconcile, At
<1>2. Sid(k) \in Nat /\ Oos(k) \in Nat /\ Base(k) \in Nat /\ Sid(k) # Oos(k)
  BY <1>1, Numbers
<1>3. PICK E, p : InSession(E, p, k, crossed, log, todo, st, pc \in InHand)
  BY <1>1 DEF Inv, ScriptInv, Working
<1>4. /\ p \in 0..Len(E) /\ SuffixOf(todo, E, p) /\ LoggedIn(log, E, Sid(k), p)
      /\ Script(E, Sid(k), Base(k)) /\ \A i \in DOMAIN log : log[i].sid = Sid(k)
      /\ p = Len(E) => st.lastEnded = E[Len(E)].at
  BY <1>1, <1>3 DEF InSession, Telling, SessionScript, InHand
<1>5. p = Len(E) /\ EndAt(E) \in Nat
  <2>1. Len(E) \in Nat /\ EndAt(E) \in Nat
    BY <1>4 DEF Script, EndAt
  <2>2. 0 = Len(E) - p
    BY <1>1, <1>4 DEF SuffixOf
  <2>. QED
    BY <1>4, <2>1, <2>2
<1>6. Told(E, k, log)
  <2>1. Follow(log, k, E[Len(E)].at)
    BY <1>2, <1>4 DEF Follow
  <2>. QED
    BY <1>4, <1>5, <2>1 DEF Told
<1>7. PICK draw \in [1..OutOfSessionLaps -> LapDraws] :
        LET recon == IF st.active THEN <<>>
                     ELSE GenerateReconciledSession(Oos(k), ReconBase, draw)
        IN  /\ todo' = recon
            /\ pc' = IF recon = <<>> THEN "gap" ELSE "emit"
            /\ stage' = IF recon = <<>> THEN stage ELSE "recon"
  BY DEF Reconcile
<1>8. CASE todo' = <<>>
  <2>1. pc' = "gap" /\ stage' = "session"
    BY <1>1, <1>7, <1>8
  <2>2. todo' \in Seq(Event)
    BY <1>8
  <2>. QED
    BY <1>1, <1>4, <1>6, <2>1, <2>2 DEF ScriptInv
<1>9. CASE todo' # <<>>
  <2>1. /\ todo' = GenerateReconciledSession(Oos(k), EndAt(E), draw)
        /\ pc' = "emit" /\ stage' = "recon"
    BY <1>4, <1>5, <1>7, <1>9 DEF ReconBase, EndAt
  <2>2. PICK F : F = GenerateReconciledSession(Oos(k), EndAt(E), draw)
    OBVIOUS
  <2>3. F # <<>> /\ todo' = F
    BY <1>9, <2>1, <2>2
  <2>4. Script(F, Oos(k), EndAt(E)) /\ Off(F) = {} /\ On(F) = {}
    BY <1>2, <1>5, <2>2, <2>3, ReconciledSession
  <2>5. F \in Seq(Event)
    BY <2>4 DEF Script
  <2>6. Telling(F, Oos(k), 0, log, F, FALSE)
    BY <1>2, <1>4, <2>5, TellNothing
  <2>7. InRecon(F, 0, k, EndAt(E), log, F, FALSE)
    BY <2>4, <2>6 DEF InRecon
  <2>8. InRecon(F, 0, k', E[Len(E)].at, log', todo', pc' \in InHand)
    BY <1>1, <2>1, <2>3, <2>7 DEF InRecon, Telling, InHand, EndAt
  <2>9. ScriptInv'
    BY <1>1, <1>6, <2>1, <2>8 DEF ScriptInv
  <2>. QED
    BY <2>3, <2>5, <2>9
<1>. QED
  BY <1>8, <1>9

(* The announcement of a record, as EnqueueBroken appends it.              *)
Announcement == Broken(Head(todo).sid, Head(todo).who, Head(todo).ms, beaten, Head(todo).at)

LEMMA AnnouncementIs ==
  ASSUME Inv, pc \in {"observe", "broken"}
  PROVE  /\ AtEvent /\ EventFacts /\ Head(todo).who \in Drivers /\ Head(todo).ms \in Nat \ {0}
         /\ Head(todo).kind = "lap.recorded" /\ Announcement \in Record
         /\ Announcement.kind = "personal_record.broken" /\ Announcement.sid = Head(todo).sid
         /\ Announcement.at = Head(todo).at /\ Announcement.who = Head(todo).who
         /\ Announcement.ms = Head(todo).ms /\ Announcement.previousMs = beaten
<1>1. AtEvent
  BY DEF Inv, HandInv, InHand, AtEvent
<1>2. EventFacts
  BY <1>1, EventIs
<1>3. /\ Head(todo).who \in Drivers /\ Head(todo).ms \in Nat \ {0} /\ beaten \in Nat
      /\ Head(todo).kind = "lap.recorded"
  BY DEF Inv, HandInv, Shape
<1>4. Head(todo).sid \in Nat /\ Head(todo).at \in Nat
  BY <1>2 DEF EventFacts
<1>5. Announcement \in Record
  BY <1>3, <1>4 DEF Announcement, Record
<1>6. /\ Announcement.kind = "personal_record.broken" /\ Announcement.sid = Head(todo).sid
      /\ Announcement.at = Head(todo).at /\ Announcement.who = Head(todo).who
      /\ Announcement.ms = Head(todo).ms /\ Announcement.previousMs = beaten
  BY DEF Announcement, Broken
<1>. QED
  BY <1>1, <1>2, <1>3, <1>5, <1>6

LEMMA ScriptStep ==
  ASSUME Inv, [Next]_vars
  PROVE  ScriptInv'
<1>0. /\ st \in RunState /\ stage \in {"session", "recon"}
      /\ pc \in Idle \cup {"held", "open", "close", "reconcile"} => stage = "session"
      /\ pc \in Idle \cup Working
  BY DEF Inv, Shape
<1>1. CASE Start \/ Stop \/ CallFails
  BY <1>1, ScriptIdle DEF Start, Stop, CallFails, Forget, Idle
<1>2. CASE PrepareDriver \/ Prepared \/ GapOver
  BY <1>0, <1>2, ScriptIdle DEF PrepareDriver, Prepared, GapOver, At, Idle
<1>3. CASE Generate
  BY <1>3, ScriptGenerate
<1>4. CASE RecordHeldScan \/ HeldDone
  BY <1>4, ScriptKept DEF RecordHeldScan, HeldDone, At, Working, InHand
<1>5. CASE Emit
  BY <1>5, ScriptEmit
<1>6. CASE ObserveLap
  <2>1. CASE pc' = "broken"
    BY <1>6, <2>1, ScriptKept DEF ObserveLap, At, Working, InHand
  <2>2. CASE pc' = "emit"
    BY <1>6, <2>2, ScriptDone DEF ObserveLap, At, InHand
  <2>. QED
    BY <1>6, <2>1, <2>2 DEF ObserveLap
<1>7. CASE EnqueueBroken
  <2>1. /\ pc = "broken" /\ log' = Append(log, Announcement) /\ pc' = "emit" /\ todo' = Tail(todo)
        /\ stage' = stage /\ k' = k /\ crossed' = crossed /\ st' = st
    BY <1>7 DEF EnqueueBroken, At, Announcement
  <2>2. /\ Announcement \in Record /\ Announcement.kind = "personal_record.broken"
        /\ Announcement.sid = Head(todo).sid /\ Announcement.at = Head(todo).at
    BY <2>1, AnnouncementIs
  <2>. QED
    BY <2>1, <2>2, ScriptDone DEF InHand
<1>8. CASE OpenOutage \/ CloseOutage
  <2>1. /\ pc \in InHand /\ pc' = "emit" /\ todo' = Tail(todo) /\ stage' = stage /\ k' = k
        /\ crossed' = crossed /\ log' = log
    BY <1>8 DEF OpenOutage, CloseOutage, At, InHand
  <2>2. st'.sid = st.sid /\ st'.lastEnded = st.lastEnded
    BY <1>0, <1>8 DEF OpenOutage, CloseOutage, RunState
  <2>. QED
    BY <2>1, <2>2, ScriptDone
<1>9. CASE SessionDone
  BY <1>0, <1>9, ScriptKept DEF SessionDone, At, Working, InHand
<1>10. CASE Reconcile
  BY <1>10, ScriptReconcile
<1>11. CASE UNCHANGED vars \/ Refresh
  BY <1>11 DEF vars, Refresh, volatile, Inv, ScriptInv
<1>. QED
  BY <1>1, <1>2, <1>3, <1>4, <1>5, <1>6, <1>7, <1>8, <1>9, <1>10, <1>11 DEF Next, RunNext

-----------------------------------------------------------------------------
(* The shape of the state and the event in hand.                           *)
LEMMA FasterIs ==
  ASSUME NEW a \in Nat, NEW b \in Nat \ {0}
  PROVE  /\ Faster(a, b) \in Nat \ {0} /\ Faster(a, b) <= b
         /\ a # 0 => Faster(a, b) <= a
  BY DEF Faster, NoLap

LEMMA ShapeStep ==
  ASSUME Inv, [Next]_vars
  PROVE  Shape'
<1>0. Shape
  BY DEF Inv
<1>a. NewRunState \in RunState /\ NoLap \in Nat
  BY DEF NewRunState, NoSid, NoLap, RunState
<1>b. <<>> \in Seq(Event) /\ <<>> \in Seq(HeldScan) /\ <<>> \in Seq(Record) /\ <<>> \in Seq(Scan)
  OBVIOUS
<1>1. CASE Start \/ Stop \/ CallFails
  <2>1. /\ pc' \in {"prepare", "stopped"} /\ proc' \in {"up", "down"}
        /\ proc' = "down" => pc' = "stopped"
        /\ Forget(pc') /\ UNCHANGED <<k, durable, known>>
    BY <1>0, <1>1 DEF Start, Stop, CallFails, Forget, past, Shape
  <2>2. /\ stage' = "session" /\ todo' = <<>> /\ heldTodo' = <<>> /\ st' = NewRunState
        /\ beaten' = NoLap /\ crossed' = <<>> /\ log' = <<>>
    BY <2>1 DEF Forget, NewHistory
  <2>. QED
    BY <1>0, <1>a, <1>b, <2>1, <2>2 DEF durable, Shape, Idle, Working
<1>2. CASE PrepareDriver \/ Prepared \/ GapOver
  <2>1. CASE PrepareDriver
    BY <1>0, <2>1 DEF PrepareDriver, At, past, Shape, Idle, Working
  <2>2. CASE Prepared
    BY <1>0, <2>2 DEF Prepared, At, durable, past, Shape, Idle, Working
  <2>3. CASE GapOver
    BY <1>0, <1>a, <1>b, <2>3 DEF GapOver, NewHistory, At, durable, past, Shape, Idle, Working
  <2>. QED
    BY <1>2, <2>1, <2>2, <2>3
<1>3. CASE Generate
  <2>1. k' \in Nat /\ todo' \in Seq(Event) /\ crossed' \in Seq(Scan) /\ heldTodo' \in Seq(HeldScan)
    BY <1>3, GenerateIs
  <2>. QED
    BY <1>0, <1>3, <2>1 DEF Generate, At, durable, past, Shape, Idle, Working
<1>4. CASE RecordHeldScan \/ HeldDone
  <2>1. heldTodo' \in Seq(HeldScan)
    <3>1. heldTodo \in Seq(HeldScan)
      BY <1>0 DEF Shape
    <3>. QED
      BY <1>4, <3>1, HeadTailProperties, EmptySeq DEF RecordHeldScan, HeldDone
  <2>. QED
    BY <1>0, <1>4, <2>1 DEF RecordHeldScan, HeldDone, At, durable, past, Shape, Idle, Working
<1>5. CASE Emit
  <2>1. AtEvent /\ EventFacts
    BY <1>5, AfterEmit
  <2>2. log' \in Seq(Record) /\ todo' \in Seq(Event)
    <3>1. log' = Append(log, Head(todo)) /\ todo' \in {todo, Tail(todo)}
      BY <1>5 DEF Emit
    <3>2. /\ log \in Seq(Record) /\ Head(todo) \in Record
          /\ todo \in Seq(Event) /\ Tail(todo) \in Seq(Event)
      BY <1>0, <2>1 DEF Shape, EventFacts
    <3>3. log' \in Seq(Record)
      BY <3>1, <3>2, Appended
    <3>. QED
      BY <3>1, <3>2, <3>3
  <2>3. st' \in RunState
    <3>1. st \in RunState /\ Head(todo).sid \in Nat /\ Head(todo).at \in Nat
      BY <1>0, <2>1 DEF Shape, EventFacts
    <3>. QED
      BY <1>5, <3>1 DEF Emit, NextRunState, RunState
  <2>4. /\ pc' \in {"emit", "observe", "open", "close"}
        /\ pc' \in {"open", "close"} => Head(todo).kind \in {"scanner.offline", "scanner.online"}
    BY <1>5 DEF Emit, SideEffect
  <2>5. pc' \in {"open", "close"} => stage = "session"
    BY <1>0, <2>1, <2>4 DEF EventFacts, Shape
  <2>. QED
    BY <1>0, <1>5, <2>2, <2>3, <2>4, <2>5 DEF Emit, At, durable, past, Shape, Idle, Working
<1>6. CASE ObserveLap
  <2>1. /\ EventFacts /\ Head(todo).who \in Drivers /\ Head(todo).ms \in Nat
        /\ pc = "observe"
    BY <1>6, AnnouncementIs DEF ObserveLap, At
  <2>2. prs' \in [Drivers -> Nat] /\ beaten' \in Nat /\ pc' \in {"broken", "emit"}
    <3>1. prs \in [Drivers -> Nat] /\ beaten \in Nat
      BY <1>0 DEF Shape
    <3>2. PICK d \in Drivers, ms \in Nat : d = Head(todo).who /\ ms = Head(todo).ms
      BY <2>1
    <3>3. \/ prs' = [prs EXCEPT ![d] = ms] /\ beaten' = prs[d] /\ pc' = "broken"
          \/ prs' = prs /\ beaten' = beaten /\ pc' = "emit"
      BY <1>6, <3>2 DEF ObserveLap
    <3>. QED
      BY <3>1, <3>3
  <2>3. todo' \in Seq(Event)
    BY <1>0, <1>6, <2>1 DEF ObserveLap, Shape, EventFacts
  <2>. QED
    BY <1>0, <1>6, <2>1, <2>2, <2>3 DEF ObserveLap, At, past, Shape, Idle, Working
<1>7. CASE EnqueueBroken
  <2>1. EventFacts /\ Announcement \in Record /\ log' = Append(log, Announcement)
    BY <1>7, AnnouncementIs DEF EnqueueBroken, At, Announcement
  <2>2. log' \in Seq(Record) /\ todo' \in Seq(Event)
    BY <1>0, <1>7, <2>1, Appended DEF Shape, EventFacts, EnqueueBroken
  <2>3. known' \in [Drivers -> Nat]
    <3>1. PICK d \in Drivers, ms \in Nat \ {0} : d = Head(todo).who /\ ms = Head(todo).ms
      BY <1>7, AnnouncementIs DEF EnqueueBroken, At
    <3>2. known \in [Drivers -> Nat] /\ known' = [known EXCEPT ![d] = Faster(known[d], ms)]
      BY <1>0, <1>7, <3>1 DEF EnqueueBroken, Shape
    <3>. QED
      BY <3>2, FasterIs
  <2>. QED
    BY <1>0, <1>7, <2>2, <2>3 DEF EnqueueBroken, At, durable, past, Shape, NoLap, Idle, Working
<1>8. CASE OpenOutage \/ CloseOutage
  <2>1. AtEvent
    BY <1>8 DEF OpenOutage, CloseOutage, At, Inv, HandInv, InHand, AtEvent
  <2>2. todo' \in Seq(Event)
    BY <1>8, <2>1, EventIs DEF OpenOutage, CloseOutage, EventFacts
  <2>3. outages' \in Seq(OutageRow) /\ st' \in RunState
    <3>1. outages \in Seq(OutageRow) /\ st \in RunState
      BY <1>0 DEF Shape
    <3>2. CASE OpenOutage
      <4>1. [sid |-> st.sid, open |-> TRUE] \in OutageRow
        BY <3>1 DEF RunState, OutageRow
      <4>2. outages' \in Seq(OutageRow) /\ Len(outages') \in Nat
        BY <3>1, <3>2, <4>1 DEF OpenOutage
      <4>. QED
        BY <3>1, <3>2, <4>2 DEF OpenOutage, RunState
    <3>3. CASE CloseOutage
      <4>1. PICK o \in DOMAIN outages : o = st.outage /\ outages' = [outages EXCEPT ![o].open = FALSE]
        BY <3>3 DEF CloseOutage
      <4>2. [outages[o] EXCEPT !.open = FALSE] \in OutageRow
        <5>1. outages[o] \in OutageRow
          BY <3>1
        <5>. QED
          BY <5>1 DEF OutageRow
      <4>. QED
        BY <3>1, <3>3, <4>1, <4>2 DEF CloseOutage
    <3>. QED
      BY <1>8, <3>2, <3>3
  <2>. QED
    BY <1>0, <1>8, <2>2, <2>3 DEF OpenOutage, CloseOutage, At, past, Shape, Idle, Working
<1>9. CASE SessionDone
  BY <1>0, <1>9 DEF SessionDone, At, durable, past, Shape, Idle, Working
<1>10. CASE Reconcile
  <2>1. todo' \in Seq(Event)
    BY <1>10, ScriptReconcile
  <2>2. \/ pc' = "gap" /\ todo' = <<>> /\ stage' = stage
        \/ pc' = "emit" /\ stage' = "recon"
    BY <1>10 DEF Reconcile
  <2>. QED
    BY <1>0, <1>10, <2>1, <2>2 DEF Reconcile, At, durable, past, Shape, Idle, Working
<1>11. CASE Refresh
  <2>1. PICK d \in Drivers, ms \in Nat \ {0} :
          /\ prs' = [prs EXCEPT ![d] = ms]
          /\ known' = [known EXCEPT ![d] = Faster(known[d], ms)]
    BY <1>11, RunConstantsOK DEF Refresh
  <2>2. prs \in [Drivers -> Nat] /\ known \in [Drivers -> Nat]
    BY <1>0 DEF Shape
  <2>3. prs' \in [Drivers -> Nat] /\ known' \in [Drivers -> Nat]
    BY <2>1, <2>2, FasterIs
  <2>. QED
    BY <1>0, <1>11, <2>3 DEF Refresh, volatile, Shape
<1>12. CASE UNCHANGED vars
  BY <1>0, <1>12 DEF vars, volatile, durable, past, Shape
<1>. QED
  BY <1>1, <1>2, <1>3, <1>4, <1>5, <1>6, <1>7, <1>8, <1>9, <1>10, <1>11, <1>12 DEF Next, RunNext

LEMMA HandStep ==
  ASSUME Inv, [Next]_vars
  PROVE  HandInv'
<1>1. CASE pc' \notin InHand
  BY <1>1 DEF HandInv, InHand
<1>2. CASE Emit /\ pc' \in InHand
  <2>1. /\ AtEvent /\ EventFacts /\ log' = Append(log, Head(todo)) /\ todo' = todo
    BY <1>2, AfterEmit DEF InHand
  <2>2. log \in Seq(Record) /\ Head(todo) \in Record /\ todo # <<>>
    BY <2>1 DEF Inv, Shape, EventFacts, AtEvent
  <2>3. log' # <<>> /\ log'[Len(log')] = Head(todo)
    BY <2>1, <2>2, Appended
  <2>4. /\ pc' = "open" => Head(todo).kind = "scanner.offline"
        /\ pc' = "close" => Head(todo).kind = "scanner.online"
        /\ pc' = "observe" => Head(todo).kind = "lap.recorded"
        /\ pc' # "broken"
    BY <1>2 DEF Emit, SideEffect
  <2>. QED
    BY <2>1, <2>2, <2>3, <2>4 DEF HandInv, EventFacts
<1>3. CASE ObserveLap /\ pc' \in InHand
  <2>1. pc = "observe" /\ pc' = "broken" /\ todo' = todo /\ log' = log
    BY <1>3 DEF ObserveLap, At, InHand
  <2>. QED
    BY <2>1 DEF Inv, HandInv, InHand
<1>4. CASE UNCHANGED vars \/ Refresh
  BY <1>4 DEF vars, Refresh, volatile, Inv, HandInv
<1>5. CASE /\ Start \/ PrepareDriver \/ Prepared \/ Generate \/ RecordHeldScan \/ HeldDone
           /\ pc' \in InHand
  BY <1>5 DEF Start, Forget, PrepareDriver, Prepared, Generate, RecordHeldScan, HeldDone, At,
              InHand
<1>6. CASE /\ \/ EnqueueBroken \/ OpenOutage \/ CloseOutage \/ SessionDone \/ Reconcile \/ GapOver
              \/ Stop \/ CallFails
           /\ pc' \in InHand
  BY <1>6 DEF EnqueueBroken, OpenOutage, CloseOutage, SessionDone, Reconcile, GapOver, Stop,
              CallFails, Forget, At, InHand
<1>. QED
  BY <1>1, <1>2, <1>3, <1>4, <1>5, <1>6 DEF Next, RunNext

-----------------------------------------------------------------------------
(* The records.                                                            *)
(* What is heard may only get faster.                                      *)
LEMMA HeardFaster ==
  ASSUME NEW lg, NEW d, NEW X, NEW a \in Nat, NEW b \in Nat \ {0}, Heard(lg, d, X, a)
  PROVE  Heard(lg, d, X, Faster(a, b))
<1>1. ASSUME NEW i \in LapsOf(lg, d) \ X
      PROVE  Faster(a, b) > 0 /\ lg[i].ms \in Nat /\ Faster(a, b) <= lg[i].ms
  <2>1. a > 0 /\ lg[i].ms \in Nat /\ a <= lg[i].ms
    BY DEF Heard
  <2>2. Faster(a, b) \in Nat \ {0} /\ Faster(a, b) <= a
    BY <2>1, FasterIs
  <2>. QED
    BY <2>1, <2>2
<1>. QED
  BY <1>1 DEF Heard

(* The row of a lap is not examined yet; any other row is no lap.          *)
LEMMA HeardMore ==
  ASSUME NEW lg \in Seq(Record), NEW d, NEW r \in Record, NEW m, m = Append(lg, r),
         NEW best, NEW X, X \subseteq DOMAIN lg, Heard(lg, d, X, best)
  PROVE  /\ X = {} => Heard(m, d, {Len(m)}, best)
         /\ r.kind # "lap.recorded" => Heard(m, d, X, best)
<1>1. /\ DOMAIN m = DOMAIN lg \cup {Len(m)} /\ m[Len(m)] = r
      /\ \A i \in DOMAIN lg : m[i] = lg[i]
  BY Appended
<1>2. LapsOf(m, d) \ {Len(m)} \subseteq LapsOf(lg, d)
  BY <1>1 DEF LapsOf
<1>3. r.kind # "lap.recorded" => LapsOf(m, d) \subseteq LapsOf(lg, d)
  BY <1>1 DEF LapsOf
<1>4. \A i \in LapsOf(lg, d) : m[i] = lg[i]
  BY <1>1 DEF LapsOf
<1>. QED
  BY <1>2, <1>3, <1>4 DEF Heard

(* The rows of the log other than the last, which is of another driver.    *)
LEMMA HeardOther ==
  ASSUME NEW lg \in Seq(Record), NEW d, lg # <<>>, lg[Len(lg)].who # d, NEW best,
         Heard(lg, d, {Len(lg)}, best)
  PROVE  Heard(lg, d, {}, best)
  BY DEF Heard, LapsOf

(* The lap of the last row is heard of too.                                *)
LEMMA HeardLast ==
  ASSUME NEW lg \in Seq(Record), lg # <<>>, NEW d, NEW best \in Nat \ {0},
         lg[Len(lg)].ms \in Nat, best <= lg[Len(lg)].ms, Heard(lg, d, {Len(lg)}, best)
  PROVE  Heard(lg, d, {}, best)
  BY DEF Heard

Quiet == pc \notin {"observe", "broken"}

LEMMA RecordQuiet ==
  ASSUME Inv, Quiet, Quiet', UNCHANGED <<log, prs, known, cutOff>>
  PROVE  RecordInv'
  BY DEF Inv, RecordInv, Quiet

(* A stop at a break puts its driver among those that were cut off.        *)
LEMMA RecordCleared ==
  ASSUME Inv, Quiet', log' = <<>>, UNCHANGED <<prs, known>>, cutOff \subseteq cutOff',
         pc = "broken" => Head(todo).who \in cutOff'
  PROVE  RecordInv'
<1>1. ASSUME NEW d, NEW best PROVE Heard(log', d, {}, best)
  BY DEF Heard, LapsOf
<1>2. ASSUME NEW d \in Drivers \ cutOff' PROVE Covers(known[d], prs[d])
  BY <1>2 DEF Inv, RecordInv
<1>. QED
  BY <1>1, <1>2 DEF RecordInv, Quiet

LEMMA RecordEmit ==
  ASSUME Inv, Emit
  PROVE  RecordInv'
<1>1. /\ AtEvent /\ EventFacts /\ log' = Append(log, Head(todo))
  BY AfterEmit
<1>2. PICK e \in Record : e = Head(todo)
  BY <1>1 DEF EventFacts
<1>3. PICK m \in {log'} : m = log'
  OBVIOUS
<1>4. log \in Seq(Record) /\ m = Append(log, e)
  BY <1>1, <1>2, <1>3 DEF Inv, Shape
<1>5. /\ pc = "emit" /\ prs' = prs /\ known' = known /\ cutOff' = cutOff /\ pc' # "broken"
      /\ e.kind = "lap.recorded" <=> pc' = "observe"
  BY <1>2 DEF Emit, At, SideEffect, durable, past
<1>6. ASSUME NEW d \in Drivers \ cutOff
      PROVE  /\ Heard(m, d, IF pc' = "observe" THEN {Len(m)} ELSE {}, known[d])
             /\ Covers(known[d], prs[d])
  <2>1. Heard(log, d, {}, known[d]) /\ Covers(known[d], prs[d])
    BY <1>5 DEF Inv, RecordInv
  <2>2. /\ Heard(m, d, {Len(m)}, known[d])
        /\ e.kind # "lap.recorded" => Heard(m, d, {}, known[d])
    BY <1>4, <2>1, HeardMore
  <2>. QED
    BY <1>5, <2>1, <2>2
<1>. QED
  BY <1>3, <1>5, <1>6 DEF RecordInv

LEMMA RecordObserve ==
  ASSUME Inv, ObserveLap
  PROVE  RecordInv'
<1>1. pc = "observe" /\ log' = log /\ known' = known /\ cutOff' = cutOff
  BY DEF ObserveLap, At, past
<1>2. PICK w \in Drivers, ms \in Nat \ {0} : w = Head(todo).who /\ ms = Head(todo).ms
  BY <1>1, AnnouncementIs
<1>3. /\ log \in Seq(Record) /\ log # <<>> /\ log[Len(log)] = Head(todo)
      /\ prs \in [Drivers -> Nat] /\ known \in [Drivers -> Nat]
  BY <1>1 DEF Inv, Shape, HandInv, InHand
<1>4. ASSUME NEW d \in Drivers \ cutOff
      PROVE  Heard(log, d, {Len(log)}, known[d]) /\ Covers(known[d], prs[d])
  BY <1>1 DEF Inv, RecordInv
<1>5. CASE CheckPR(prs[w], ms)
  <2>1. /\ prs' = [prs EXCEPT ![w] = ms] /\ pc' = "broken" /\ todo' = todo
    BY <1>2, <1>5 DEF ObserveLap
  <2>2. ASSUME NEW d \in Drivers \ cutOff
        PROVE  Covers(known[d], prs'[d]) \/ (Head(todo').who = d /\ prs'[d] = Head(todo').ms)
    BY <1>2, <1>3, <1>4, <2>1
  <2>. QED
    BY <1>1, <1>4, <2>1, <2>2 DEF RecordInv
<1>6. CASE ~ CheckPR(prs[w], ms)
  <2>1. prs' = prs /\ pc' = "emit"
    BY <1>2, <1>6 DEF ObserveLap
  <2>2. ASSUME NEW d \in Drivers \ cutOff
        PROVE  Heard(log, d, {}, known[d])
    <3>1. CASE d # w
      BY <1>2, <1>3, <1>4, <3>1, HeardOther
    <3>2. CASE d = w
      <4>1. prs[d] # 0 /\ prs[d] <= ms /\ prs[d] \in Nat /\ known[d] \in Nat
        BY <1>3, <1>6, <3>2 DEF CheckPR, NoLap
      <4>2. known[d] \in Nat \ {0} /\ known[d] <= ms
        BY <1>4, <4>1 DEF Covers, NoLap
      <4>3. log[Len(log)].ms = ms
        BY <1>2, <1>3
      <4>. QED
        BY <1>3, <1>4, <4>2, <4>3, HeardLast
    <3>. QED
      BY <3>1, <3>2
  <2>. QED
    BY <1>1, <1>4, <2>1, <2>2 DEF RecordInv
<1>. QED
  BY <1>5, <1>6

LEMMA RecordBroken ==
  ASSUME Inv, EnqueueBroken
  PROVE  RecordInv'
<1>1. /\ pc = "broken" /\ log' = Append(log, Announcement) /\ pc' = "emit" /\ prs' = prs
      /\ cutOff' = cutOff
  BY DEF EnqueueBroken, At, Announcement, durable
<1>2. PICK w \in Drivers, ms \in Nat \ {0} : w = Head(todo).who /\ ms = Head(todo).ms
  BY <1>1, AnnouncementIs
<1>3. known' = [known EXCEPT ![w] = Faster(known[w], ms)]
  BY <1>2 DEF EnqueueBroken
<1>4. PICK r \in Record, m \in {log'} :
        r.kind = "personal_record.broken" /\ m = log' /\ m = Append(log, r)
  BY <1>1, AnnouncementIs
<1>5. /\ log \in Seq(Record) /\ log # <<>> /\ log[Len(log)] = Head(todo)
      /\ prs \in [Drivers -> Nat] /\ known \in [Drivers -> Nat]
  BY <1>1 DEF Inv, Shape, HandInv, InHand
<1>6. ASSUME NEW d \in Drivers \ cutOff
      PROVE  Heard(m, d, {}, known'[d]) /\ Covers(known'[d], prs[d])
  <2>1. /\ Heard(log, d, {Len(log)}, known[d])
        /\ Covers(known[d], prs[d]) \/ (w = d /\ prs[d] = ms)
    BY <1>1, <1>2 DEF Inv, RecordInv
  <2>2. CASE d = w
    <3>1. known[d] \in Nat /\ known'[d] = Faster(known[d], ms)
      BY <1>3, <1>5, <2>2
    <3>2. /\ known'[d] \in Nat \ {0} /\ known'[d] <= ms
          /\ known[d] # 0 => known'[d] <= known[d]
      BY <3>1, FasterIs
    <3>3. Heard(log, d, {Len(log)}, known'[d])
      BY <2>1, <3>1, HeardFaster
    <3>4. log[Len(log)].ms = ms
      BY <1>2, <1>5
    <3>5. Heard(log, d, {}, known'[d])
      BY <1>5, <3>2, <3>3, <3>4, HeardLast
    <3>6. Covers(known'[d], prs[d])
      <4>1. prs[d] \in Nat
        BY <1>5
      <4>. QED
        BY <2>1, <3>1, <3>2, <4>1 DEF Covers, NoLap
    <3>. QED
      BY <1>4, <1>5, <3>5, <3>6, HeardMore
  <2>3. CASE d # w
    <3>1. known'[d] = known[d]
      BY <1>3, <1>5, <2>3
    <3>2. Heard(log, d, {}, known[d])
      BY <1>2, <1>5, <2>1, <2>3, HeardOther
    <3>. QED
      BY <1>4, <1>5, <2>1, <2>3, <3>1, <3>2, HeardMore
  <2>. QED
    BY <2>2, <2>3
<1>. QED
  BY <1>1, <1>4, <1>6 DEF RecordInv

(* A confirmed record replaces the local one and is known from then on.    *)
LEMMA RecordRefresh ==
  ASSUME Inv, Refresh
  PROVE  RecordInv'
<1>1. UNCHANGED <<pc, todo, log, cutOff>>
  BY DEF Refresh, volatile
<1>2. PICK w \in Drivers, ms \in Nat \ {0} :
        /\ prs' = [prs EXCEPT ![w] = ms]
        /\ known' = [known EXCEPT ![w] = Faster(known[w], ms)]
  BY RunConstantsOK DEF Refresh
<1>3. prs \in [Drivers -> Nat] /\ known \in [Drivers -> Nat]
  BY DEF Inv, Shape
<1>4. PICK X \in {{}, {Len(log)}} : X = IF pc \in {"observe", "broken"} THEN {Len(log)} ELSE {}
  OBVIOUS
<1>5. ASSUME NEW d \in Drivers \ cutOff
      PROVE  /\ Heard(log, d, X, known'[d])
             /\ \/ Covers(known'[d], prs'[d])
                \/ pc = "broken" /\ Head(todo).who = d /\ prs'[d] = Head(todo).ms
  <2>1. /\ Heard(log, d, X, known[d])
        /\ \/ Covers(known[d], prs[d])
           \/ pc = "broken" /\ Head(todo).who = d /\ prs[d] = Head(todo).ms
    BY <1>4 DEF Inv, RecordInv
  <2>2. CASE d = w
    <3>1. known[d] \in Nat /\ known'[d] = Faster(known[d], ms) /\ prs'[d] = ms
      BY <1>2, <1>3, <2>2
    <3>2. known'[d] \in Nat \ {0} /\ known'[d] <= ms
      BY <3>1, FasterIs
    <3>3. Heard(log, d, X, known'[d])
      BY <2>1, <3>1, HeardFaster
    <3>. QED
      BY <3>1, <3>2, <3>3 DEF Covers, NoLap
  <2>3. CASE d # w
    <3>1. known'[d] = known[d] /\ prs'[d] = prs[d]
      BY <1>2, <1>3, <2>3
    <3>. QED
      BY <2>1, <3>1
  <2>. QED
    BY <2>2, <2>3
<1>. QED
  BY <1>1, <1>4, <1>5 DEF RecordInv

LEMMA RecordStep ==
  ASSUME Inv, [Next]_vars
  PROVE  RecordInv'
<1>1. CASE Start \/ GapOver
  <2>1. pc # "broken"
    BY <1>1 DEF Start, GapOver, At, Inv, Shape
  <2>2. Quiet' /\ log' = <<>> /\ UNCHANGED <<prs, known, cutOff>>
    BY <1>1 DEF Start, GapOver, Forget, NewHistory, Quiet, durable, past
  <2>. QED
    BY <2>1, <2>2, RecordCleared
<1>2. CASE Stop \/ CallFails
  <2>1. Quiet' /\ log' = <<>> /\ UNCHANGED <<prs, known>>
    BY <1>2 DEF Stop, CallFails, Forget, NewHistory, Quiet, durable
  <2>2. cutOff \subseteq cutOff' /\ (pc = "broken" => Head(todo).who \in cutOff')
    BY <1>2 DEF Stop, CallFails, CutOff
  <2>. QED
    BY <2>1, <2>2, RecordCleared
<1>3. CASE PrepareDriver \/ Prepared \/ Generate \/ RecordHeldScan \/ HeldDone
  BY <1>3, RecordQuiet
  DEF PrepareDriver, Prepared, Generate, RecordHeldScan, HeldDone, At, durable, past, Quiet
<1>4. CASE OpenOutage \/ CloseOutage \/ SessionDone \/ Reconcile
  BY <1>4, RecordQuiet
  DEF OpenOutage, CloseOutage, SessionDone, Reconcile, At, durable, past, Quiet
<1>5. CASE Emit
  BY <1>5, RecordEmit
<1>6. CASE ObserveLap
  BY <1>6, RecordObserve
<1>7. CASE EnqueueBroken
  BY <1>7, RecordBroken
<1>8. CASE Refresh
  BY <1>8, RecordRefresh
<1>9. CASE UNCHANGED vars
  BY <1>9 DEF vars, volatile, durable, past, Inv, RecordInv
<1>. QED
  BY <1>1, <1>2, <1>3, <1>4, <1>5, <1>6, <1>7, <1>8, <1>9 DEF Next, RunNext

-----------------------------------------------------------------------------
(* The scanner outage.                                                     *)
Announced == Rows("scanner.offline") # {}
Recovered == Rows("scanner.online") # {}
OutageAgrees == (Ours # {} <=> Announced) /\ \A o \in Ours : outages[o].open = ~ Recovered

LEMMA RowsAppended ==
  ASSUME Inv, NEW r \in Record, log' = Append(log, r), NEW kind
  PROVE  Rows(kind)' # {} <=> (Rows(kind) # {} \/ r.kind = kind)
<1>1. log \in Seq(Record)
  BY DEF Inv, Shape
<1>2. PICK m : m = log'
  OBVIOUS
<1>3. /\ DOMAIN m = DOMAIN log \cup {Len(m)} /\ m[Len(m)] = r
      /\ \A i \in DOMAIN log : m[i] = log[i]
  BY <1>1, <1>2, Appended
<1>. QED
  BY <1>2, <1>3 DEF Rows

(* Where the events of the session stand when the next is about the        *)
(* scanner.                                                                *)
LEMMA ScannerNext ==
  ASSUME Inv, Emit
  PROVE  /\ Head(todo).kind = "scanner.offline" => ~ Announced /\ ~ Recovered
         /\ Head(todo).kind = "scanner.online" => Announced
<1>1. AtEvent /\ pc \notin InHand /\ EventFacts
  BY AfterEmit
<1>2. SUFFICES ASSUME stage = "session"
               PROVE  /\ Head(todo).kind = "scanner.offline" => ~ Announced /\ ~ Recovered
                      /\ Head(todo).kind = "scanner.online" => Announced
  BY <1>1 DEF EventFacts, Inv, Shape
<1>3. PICK E, p : /\ InSession(E, p, k, crossed, log, todo, st, pc \in InHand)
                  /\ NextEvent(E, p, Sid(k), Base(k), todo)
  BY <1>1, <1>2, AtSession DEF Session
<1>4. /\ LoggedIn(log, E, Sid(k), p) /\ OneOutage(E) /\ p \in Nat /\ p + 1 \in DOMAIN E
      /\ Head(todo) = E[p + 1] /\ E \in Seq(Event)
      /\ \A i \in DOMAIN log : log[i].sid = Sid(k)
  BY <1>1, <1>3 DEF InSession, Telling, SessionScript, NextEvent
<1>5. DOMAIN E = 1..Len(E) /\ Len(E) \in Nat
  BY <1>4
<1>6. ASSUME NEW i \in DOMAIN log, log[i].kind \in {"scanner.offline", "scanner.online"}
      PROVE  \E j \in 1..p : log[i] = E[j] /\ j \in DOMAIN E
  <2>1. PICK j \in 1..p : log[i] = E[j]
    BY <1>4, <1>6 DEF LoggedIn
  <2>2. j \in DOMAIN E
    BY <1>4, <1>5
  <2>. QED
    BY <2>1, <2>2
<1>7. ASSUME Head(todo).kind = "scanner.offline"
      PROVE  ~ Announced /\ ~ Recovered
  <2>1. p + 1 \in Off(E)
    BY <1>4, <1>7 DEF Off
  <2>2. ASSUME NEW i \in DOMAIN log, log[i].kind = "scanner.offline" PROVE FALSE
    <3>1. PICK j \in 1..p : log[i] = E[j] /\ j \in DOMAIN E
      BY <1>6, <2>2
    <3>2. j \in Off(E)
      BY <2>2, <3>1 DEF Off
    <3>3. j = p + 1
      BY <1>4, <2>1, <3>2 DEF OneOutage
    <3>. QED
      BY <1>4, <3>3
  <2>3. ASSUME NEW i \in DOMAIN log, log[i].kind = "scanner.online" PROVE FALSE
    <3>1. PICK j \in 1..p : log[i] = E[j] /\ j \in DOMAIN E
      BY <1>6, <2>3
    <3>2. j \in On(E)
      BY <2>3, <3>1 DEF On
    <3>3. p + 1 < j
      BY <1>4, <2>1, <3>2 DEF OneOutage
    <3>. QED
      BY <1>4, <3>3
  <2>. QED
    BY <2>2, <2>3 DEF Announced, Recovered, Rows
<1>8. ASSUME Head(todo).kind = "scanner.online"
      PROVE  Announced
  <2>1. p + 1 \in On(E)
    BY <1>4, <1>8 DEF On
  <2>2. PICK j \in Off(E) : j < p + 1
    BY <1>4, <2>1 DEF OneOutage
  <2>3. j \in 1..p /\ E[j].kind = "scanner.offline"
    BY <1>4, <1>5, <2>2 DEF Off
  <2>4. PICK i \in DOMAIN log : log[i] = E[j]
    BY <1>4, <2>3 DEF LoggedIn
  <2>. QED
    BY <2>3, <2>4 DEF Announced, Rows
<1>. QED
  BY <1>7, <1>8

LEMMA ScannerAt ==
  ASSUME Inv, pc \in {"emit", "observe", "broken", "reconcile", "gap"}
  PROVE  OutageAgrees /\ Ours \subseteq {st.outage}
  BY DEF Inv, ScannerInv, OutageAgrees, Announced, Recovered, Working

(* The rows of the outage table stay, and so does what the log says.       *)
LEMMA ScannerSame ==
  ASSUME Inv, pc \in {"emit", "observe", "broken", "reconcile", "gap"},
         pc' \in {"emit", "observe", "broken", "reconcile", "gap"},
         outages' = outages, k' = k, st'.outage = st.outage,
         Announced' = Announced, Recovered' = Recovered
  PROVE  ScannerInv'
<1>1. OutageAgrees /\ Ours \subseteq {st.outage} /\ \A o \in DOMAIN outages : outages[o].sid <= Sid(k)
  BY ScannerAt DEF Inv, ScannerInv
<1>2. Ours' = Ours
  BY DEF Ours
<1>. QED
  BY <1>1, <1>2 DEF ScannerInv, OutageAgrees, Announced, Recovered

LEMMA ScannerIdle ==
  ASSUME Inv, pc' \in Idle, UNCHANGED <<outages, k>>
  PROVE  ScannerInv'
  BY DEF Inv, ScannerInv, Idle, Working

LEMMA ScannerEmit ==
  ASSUME Inv, Emit
  PROVE  ScannerInv'
<1>1. /\ EventFacts /\ log' = Append(log, Head(todo)) /\ k' = k /\ outages' = outages
      /\ pc = "emit"
  BY AfterEmit DEF Emit, At, durable
<1>2. st'.outage = st.outage
  <2>1. st \in RunState
    BY DEF Inv, Shape
  <2>. QED
    BY <2>1 DEF Emit, NextRunState, RunState
<1>3. PICK e \in Record : e = Head(todo)
  BY <1>1 DEF EventFacts
<1>4. /\ Announced' <=> Announced \/ e.kind = "scanner.offline"
      /\ Recovered' <=> Recovered \/ e.kind = "scanner.online"
  BY <1>1, <1>3, RowsAppended DEF Announced, Recovered
<1>5. /\ OutageAgrees /\ Ours \subseteq {st.outage} /\ Ours' = Ours
      /\ \A o \in DOMAIN outages : outages[o].sid <= Sid(k)
  BY <1>1, ScannerAt DEF Inv, ScannerInv, Ours
<1>6. pc' = SideEffect(e.kind)
  BY <1>3 DEF Emit
<1>7. CASE e.kind = "scanner.offline"
  <2>1. ~ Announced /\ ~ Recovered
    BY <1>3, <1>7, ScannerNext
  <2>2. pc' = "open" /\ Announced' /\ ~ Recovered' /\ Ours' = {}
    BY <1>4, <1>5, <1>6, <1>7, <2>1 DEF SideEffect, OutageAgrees
  <2>. QED
    BY <1>1, <1>5, <2>2 DEF ScannerInv, Announced, Recovered
<1>8. CASE e.kind = "scanner.online"
  <2>1. Announced
    BY <1>3, <1>8, ScannerNext
  <2>2. pc' = "close" /\ Announced' /\ Recovered' /\ Ours' # {}
    BY <1>4, <1>5, <1>6, <1>8, <2>1 DEF SideEffect, OutageAgrees
  <2>. QED
    BY <1>1, <1>2, <1>5, <2>2 DEF ScannerInv, Announced, Recovered
<1>9. CASE e.kind \notin {"scanner.offline", "scanner.online"}
  <2>1. (Announced' <=> Announced) /\ (Recovered' <=> Recovered) /\ pc' \in {"emit", "observe"}
    BY <1>4, <1>6, <1>9 DEF SideEffect
  <2>2. Announced' = Announced /\ Recovered' = Recovered
    BY <2>1 DEF Announced, Recovered
  <2>. QED
    BY <1>1, <1>2, <2>1, <2>2, ScannerSame
<1>. QED
  BY <1>7, <1>8, <1>9

LEMMA ScannerOpen ==
  ASSUME Inv, OpenOutage
  PROVE  ScannerInv'
<1>1. /\ pc = "open" /\ pc' = "emit" /\ k' = k /\ log' = log
      /\ outages \in Seq(OutageRow) /\ st \in RunState /\ k \in Nat
  BY DEF OpenOutage, At, Inv, Shape
<1>2. Ours = {} /\ Announced /\ ~ Recovered /\ \A o \in DOMAIN outages : outages[o].sid <= Sid(k)
  BY <1>1 DEF Inv, ScannerInv, Announced, Recovered
<1>3. st.sid = Sid(k) /\ Sid(k) \in Nat
  <2>1. stage = "session" /\ log # <<>> /\ pc \in Working \ {"gap"}
    BY <1>1 DEF Inv, Shape, HandInv, InHand, Working
  <2>2. PICK E, p : InSession(E, p, k, crossed, log, todo, st, pc \in InHand)
    BY <2>1 DEF Inv, ScriptInv
  <2>. QED
    BY <1>1, <2>1, <2>2, Numbers DEF InSession
<1>4. PICK row \in OutageRow : row = [sid |-> st.sid, open |-> TRUE]
  BY <1>1 DEF RunState, OutageRow
<1>5. PICK m : m = outages' /\ m = Append(outages, row)
  BY <1>4 DEF OpenOutage
<1>6. /\ DOMAIN m = DOMAIN outages \cup {Len(m)} /\ Len(m) \notin DOMAIN outages
      /\ m[Len(m)] = row /\ \A o \in DOMAIN outages : m[o] = outages[o]
  BY <1>1, <1>5, Appended
<1>7. st'.outage = Len(m)
  BY <1>1, <1>5 DEF OpenOutage, RunState
<1>8. row.sid = Sid(k) /\ row.open = TRUE
  BY <1>3, <1>4
<1>9. Ours' = {Len(m)}
  BY <1>1, <1>2, <1>5, <1>6, <1>8 DEF Ours
<1>10. Announced' /\ ~ Recovered'
  BY <1>1, <1>2 DEF Announced, Recovered, Rows
<1>11. ASSUME NEW o \in DOMAIN m PROVE m[o].sid <= Sid(k)
  <2>1. CASE o = Len(m)
    BY <1>3, <1>6, <1>8, <2>1
  <2>2. CASE o \in DOMAIN outages
    BY <1>2, <1>6, <2>2
  <2>. QED
    BY <1>6, <2>1, <2>2
<1>. QED
  BY <1>1, <1>5, <1>6, <1>7, <1>8, <1>9, <1>10, <1>11 DEF ScannerInv, Announced, Recovered

LEMMA ScannerClose ==
  ASSUME Inv, CloseOutage
  PROVE  ScannerInv'
<1>1. /\ pc = "close" /\ pc' = "emit" /\ k' = k /\ log' = log /\ st' = st
      /\ outages \in Seq(OutageRow)
  BY DEF CloseOutage, At, Inv, Shape
<1>2. /\ Ours # {} /\ Ours \subseteq {st.outage} /\ Announced /\ Recovered
      /\ \A o \in DOMAIN outages : outages[o].sid <= Sid(k)
  BY <1>1 DEF Inv, ScannerInv, Announced, Recovered, Working
<1>3. PICK x \in DOMAIN outages : x = st.outage /\ outages' = [outages EXCEPT ![x].open = FALSE]
  BY DEF CloseOutage
<1>4. outages[x] \in OutageRow
  BY <1>1
<1>5. /\ DOMAIN outages' = DOMAIN outages
      /\ outages'[x].sid = outages[x].sid /\ outages'[x].open = FALSE
      /\ \A o \in DOMAIN outages : o # x => outages'[o] = outages[o]
  BY <1>3, <1>4 DEF OutageRow
<1>6. \A o \in DOMAIN outages : outages'[o].sid = outages[o].sid
  BY <1>5
<1>7. Ours' = Ours
  BY <1>1, <1>5, <1>6 DEF Ours
<1>8. Announced' /\ Recovered'
  BY <1>1, <1>2 DEF Announced, Recovered, Rows
<1>9. \A o \in DOMAIN outages' : outages'[o].sid <= Sid(k)
  BY <1>2, <1>5, <1>6
<1>. QED
  BY <1>1, <1>2, <1>3, <1>5, <1>7, <1>8, <1>9 DEF ScannerInv, Announced, Recovered

LEMMA OutageStep ==
  ASSUME Inv, [Next]_vars
  PROVE  ScannerInv'
<1>1. CASE Start \/ Stop \/ CallFails \/ PrepareDriver \/ Prepared \/ GapOver
  BY <1>1, ScannerIdle
  DEF Start, Stop, CallFails, PrepareDriver, Prepared, GapOver, Forget, At, durable, Idle
<1>2. CASE Generate
  <2>1. k \in Nat /\ k' = k + 1 /\ pc' = "held" /\ outages' = outages
    BY <1>2 DEF Inv, Shape, Generate, durable
  <2>2. outages \in Seq(OutageRow) /\ \A o \in DOMAIN outages : outages[o].sid <= Sid(k)
    BY DEF Inv, Shape, ScannerInv
  <2>3. ASSUME NEW o \in DOMAIN outages
        PROVE  outages[o].sid <= Sid(k + 1) /\ outages[o].sid # Sid(k + 1)
    <3>0. outages[o] \in OutageRow
      BY <2>2
    <3>1. outages[o].sid \in Nat
      BY <3>0 DEF OutageRow
    <3>. QED
      BY <2>1, <2>2, <3>1 DEF Sid
  <2>4. Ours' = {}
    BY <2>1, <2>3 DEF Ours
  <2>. QED
    BY <2>1, <2>3, <2>4 DEF ScannerInv
<1>3. CASE RecordHeldScan
  <2>1. pc = "held" /\ pc' = "held" /\ UNCHANGED <<outages, k, st, log>>
    BY <1>3 DEF RecordHeldScan, At
  <2>. QED
    BY <2>1 DEF Inv, ScannerInv, Ours
<1>4. CASE HeldDone
  <2>1. pc = "held" /\ pc' = "emit" /\ UNCHANGED <<outages, k, st, log>> /\ log = <<>>
    BY <1>4 DEF HeldDone, At, durable, Inv, Shape
  <2>2. Ours' = {} /\ Rows("scanner.offline")' = {} /\ Rows("scanner.online")' = {}
    BY <2>1 DEF Inv, ScannerInv, Ours, Rows
  <2>. QED
    BY <2>1, <2>2 DEF Inv, ScannerInv
<1>5. CASE Emit
  BY <1>5, ScannerEmit
<1>6. CASE ObserveLap \/ SessionDone \/ Reconcile
  <2>1. /\ pc \in {"emit", "observe", "broken", "reconcile", "gap"}
        /\ pc' \in {"emit", "observe", "broken", "reconcile", "gap"}
        /\ UNCHANGED <<outages, k, st, log>>
    BY <1>6 DEF ObserveLap, SessionDone, Reconcile, At, durable
  <2>2. Announced' = Announced /\ Recovered' = Recovered
    BY <2>1 DEF Announced, Recovered, Rows
  <2>. QED
    BY <2>1, <2>2, ScannerSame
<1>7. CASE EnqueueBroken
  <2>1. /\ pc = "broken" /\ log' = Append(log, Announcement) /\ pc' = "emit"
        /\ outages' = outages /\ k' = k /\ st' = st
    BY <1>7 DEF EnqueueBroken, At, Announcement, durable
  <2>2. Announcement \in Record /\ Announcement.kind = "personal_record.broken"
    BY <2>1, AnnouncementIs
  <2>3. (Announced' <=> Announced) /\ (Recovered' <=> Recovered)
    <3>1. PICK r \in Record : r = Announcement
      BY <2>2
    <3>. QED
      BY <2>1, <2>2, <3>1, RowsAppended DEF Announced, Recovered
  <2>4. Announced' = Announced /\ Recovered' = Recovered
    BY <2>3 DEF Announced, Recovered
  <2>. QED
    BY <2>1, <2>4, ScannerSame
<1>8. CASE OpenOutage
  BY <1>8, ScannerOpen
<1>9. CASE CloseOutage
  BY <1>9, ScannerClose
<1>10. CASE UNCHANGED vars \/ Refresh
  BY <1>10 DEF vars, Refresh, volatile, durable, Inv, ScannerInv, Ours, Rows
<1>. QED
  BY <1>1, <1>2, <1>3, <1>4, <1>5, <1>6, <1>7, <1>8, <1>9, <1>10 DEF Next, RunNext

-----------------------------------------------------------------------------
(* The held scans.                                                         *)
LEMMA HeldStep ==
  ASSUME Inv, [Next]_vars
  PROVE  HeldScanInv'
<1>0. heldTodo \in Seq(HeldScan)
  BY DEF Inv, Shape
<1>1. CASE crossed' = <<>>
  BY <1>1 DEF HeldScanInv
<1>2. CASE UNCHANGED <<crossed, k, heldRows>> /\ pc # "held"
  BY <1>2 DEF Inv, HeldScanInv, Lost
<1>3. CASE Generate
  <2>1. Generated(k', crossed', todo', heldTodo') /\ pc' = "held"
    BY <1>3, GenerateIs DEF Generate
  <2>2. crossed' \in Seq(Scan) /\ HeldInv(heldTodo', Sid(k'), crossed', Len(crossed'))
    BY <2>1 DEF Generated
  <2>3. PICK cs \in Seq(Scan) : cs = crossed'
    BY <2>2
  <2>4. ASSUME NEW i \in DOMAIN cs, cs[i].who \in Strays, ~ Gone(cs, i)
        PROVE  \E x \in DOMAIN heldTodo' : heldTodo'[x] = [token |-> cs[i].who, sid |-> Sid(k')]
    <3>0. i <= Len(cs)
      OBVIOUS
    <3>1. i <= Len(cs) /\ cs[i].who \notin Drivers
      BY <2>4, <3>0, KnobsAre
    <3>. QED
      BY <2>2, <2>3, <2>4, <3>1 DEF HeldInv
  <2>. QED
    BY <2>1, <2>3, <2>4 DEF HeldScanInv, Lost, Gone
<1>4. CASE RecordHeldScan
  <2>1. /\ heldRows' = heldRows \cup {Head(heldTodo)} /\ heldTodo' = Tail(heldTodo)
        /\ heldTodo # <<>> /\ pc = "held" /\ pc' = "held" /\ crossed' = crossed /\ k' = k
    BY <1>4 DEF RecordHeldScan, At
  <2>2. /\ Head(heldTodo) = heldTodo[1] /\ Len(heldTodo) \in Nat /\ Len(heldTodo) # 0
        /\ Len(Tail(heldTodo)) = Len(heldTodo) - 1 /\ Tail(heldTodo) \in Seq(HeldScan)
        /\ \A x \in 1..Len(Tail(heldTodo)) : Tail(heldTodo)[x] = heldTodo[x + 1]
    BY <1>0, <2>1, HeadTailProperties, EmptySeq
  <2>3. ASSUME NEW x \in DOMAIN heldTodo
        PROVE  \/ heldTodo[x] \in heldRows'
               \/ \E y \in DOMAIN heldTodo' : heldTodo'[y] = heldTodo[x]
    <3>1. DOMAIN heldTodo = 1..Len(heldTodo) /\ DOMAIN heldTodo' = 1..Len(Tail(heldTodo))
      BY <1>0, <2>1, <2>2
    <3>2. CASE x = 1
      BY <2>1, <2>2, <3>2
    <3>3. CASE x # 1
      <4>1. x - 1 \in 1..Len(Tail(heldTodo)) /\ (x - 1) + 1 = x
        BY <2>2, <3>1, <3>3
      <4>2. heldTodo'[x - 1] = heldTodo[x]
        BY <2>1, <2>2, <4>1
      <4>. QED
        BY <3>1, <4>1, <4>2
    <3>. QED
      BY <3>2, <3>3
  <2>4. ASSUME NEW i \in DOMAIN crossed, crossed[i].who \in Strays, ~ Lost(i),
               NEW h, h = [token |-> crossed[i].who, sid |-> Sid(k)]
        PROVE  h \in heldRows' \/ \E y \in DOMAIN heldTodo' : heldTodo'[y] = h
    <3>1. h \in heldRows \/ \E x \in DOMAIN heldTodo : heldTodo[x] = h
      BY <2>4 DEF Inv, HeldScanInv
    <3>. QED
      BY <2>1, <2>3, <3>1
  <2>. QED
    BY <2>1, <2>4 DEF HeldScanInv, Lost
<1>5. CASE HeldDone
  <2>1. heldTodo = <<>> /\ UNCHANGED <<crossed, k, heldRows>>
    BY <1>5 DEF HeldDone, durable
  <2>. QED
    BY <2>1 DEF Inv, HeldScanInv, Lost
<1>6. CASE UNCHANGED vars \/ Refresh
  BY <1>6 DEF vars, Refresh, volatile, durable, Inv, HeldScanInv, Lost
<1>7. CASE Start \/ Stop \/ CallFails \/ GapOver \/ Reconcile
  BY <1>1, <1>7 DEF Start, Stop, CallFails, GapOver, Reconcile, Forget, NewHistory
<1>8. CASE \/ PrepareDriver \/ Prepared \/ Emit \/ ObserveLap \/ EnqueueBroken \/ OpenOutage
           \/ CloseOutage \/ SessionDone
  BY <1>2, <1>8
  DEF PrepareDriver, Prepared, Emit, ObserveLap, EnqueueBroken, OpenOutage, CloseOutage,
      SessionDone, At, durable
<1>. QED
  BY <1>3, <1>4, <1>5, <1>6, <1>7, <1>8 DEF Next, RunNext

-----------------------------------------------------------------------------
LEMMA InvInit ==
  ASSUME Init
  PROVE  Inv
<1>1. /\ proc = "down" /\ pc = "stopped" /\ stage = "session" /\ todo = <<>> /\ heldTodo = <<>>
      /\ st = NewRunState /\ beaten = NoLap /\ k = 0 /\ crossed = <<>> /\ log = <<>>
      /\ prs = [d \in Drivers |-> NoLap] /\ outages = <<>>
      /\ known = [d \in Drivers |-> NoLap]
  BY DEF Init
<1>2. Shape
  <2>1. NewRunState \in RunState /\ NoLap \in Nat
    BY DEF NewRunState, NoSid, NoLap, RunState
  <2>2. /\ <<>> \in Seq(Event) /\ <<>> \in Seq(HeldScan) /\ <<>> \in Seq(Record)
        /\ <<>> \in Seq(Scan) /\ <<>> \in Seq(OutageRow)
    OBVIOUS
  <2>3. prs \in [Drivers -> Nat] /\ known \in [Drivers -> Nat]
    BY <1>1, <2>1
  <2>. QED
    BY <1>1, <2>1, <2>2, <2>3 DEF Shape, Idle, Working
<1>3. HandInv /\ ScriptInv
  BY <1>1 DEF HandInv, ScriptInv, InHand, Working
<1>4. RecordInv
  BY <1>1 DEF RecordInv, Heard, Covers, LapsOf
<1>5. ScannerInv /\ HeldScanInv
  BY <1>1 DEF ScannerInv, HeldScanInv, Working
<1>. QED
  BY <1>2, <1>3, <1>4, <1>5 DEF Inv

(* The inductive invariant of Simulator.Run: the log tells an initial part *)
(* of the script that was generated, and the database follows the log.     *)
THEOREM Invariant == Spec => []Inv
<1>1. Init => Inv
  BY InvInit
<1>2. Inv /\ [Next]_vars => Inv'
  BY ShapeStep, HandStep, ScriptStep, RecordStep, OutageStep, HeldStep DEF Inv
<1>. QED
  BY <1>1, <1>2, PTL DEF Spec

-----------------------------------------------------------------------------
(* What the invariant says of the rows of a script.                        *)
LapsIn(lg, s) == {lg[i] : i \in {j \in DOMAIN lg : lg[j].kind = "lap.recorded" /\ lg[j].sid = s}}
ScriptLaps(E) == {E[j] : j \in {l \in DOMAIN E : E[l].kind = "lap.recorded"}}

LEMMA LapsTold ==
  ASSUME NEW E, NEW s \in Nat, NEW base \in Nat, Script(E, s, base), NEW lg,
         LoggedIn(lg, E, s, Len(E))
  PROVE  LapsIn(lg, s) = ScriptLaps(E)
<1>1. DOMAIN E = 1..Len(E) /\ Len(E) \in Nat
  BY DEF Script
<1>2. ASSUME NEW i \in DOMAIN lg, lg[i].kind = "lap.recorded", lg[i].sid = s
      PROVE  \E j \in DOMAIN E : E[j].kind = "lap.recorded" /\ lg[i] = E[j]
  BY <1>1, <1>2 DEF LoggedIn
<1>3. ASSUME NEW j \in DOMAIN E, E[j].kind = "lap.recorded"
      PROVE  \E i \in DOMAIN lg : lg[i].kind = "lap.recorded" /\ lg[i].sid = s /\ lg[i] = E[j]
  <2>1. PICK i \in DOMAIN lg : lg[i] = E[j]
    BY <1>1 DEF LoggedIn
  <2>2. E[j].sid = s
    BY ScriptEvents DEF ScriptEvent
  <2>. QED
    BY <1>3, <2>1, <2>2
<1>4. LapsIn(lg, s) \subseteq ScriptLaps(E)
  BY <1>2 DEF LapsIn, ScriptLaps
<1>5. ScriptLaps(E) \subseteq LapsIn(lg, s)
  BY <1>3 DEF LapsIn, ScriptLaps
<1>. QED
  BY <1>4, <1>5

LEMMA EndIs ==
  ASSUME NEW E, NEW s \in Nat, NEW base \in Nat, Script(E, s, base), NEW lg, NEW q,
         LoggedIn(lg, E, s, q), q \in 0..Len(E),
         NEW i \in DOMAIN lg, lg[i].kind = "session.ended", lg[i].sid = s
  PROVE  lg[i] = E[Len(E)]
<1>1. DOMAIN E = 1..Len(E) /\ Len(E) \in Nat
  BY DEF Script
<1>2. PICK j \in 1..q : lg[i] = E[j]
  BY DEF LoggedIn
<1>3. j \in DOMAIN E
  BY <1>1
<1>4. j = Len(E)
  BY <1>2, <1>3, ScriptEvents DEF ScriptEvent
<1>. QED
  BY <1>2, <1>4

(* The summary of a session against a set of laps.                         *)
Summarised(e, ls) ==
  /\ DOMAIN e.summary = {r.who : r \in ls}
  /\ \A d \in DOMAIN e.summary :
       LET mine == {r \in ls : r.who = d}
       IN  /\ {r.n : r \in mine} = 1..e.summary[d].count
           /\ \A r \in mine : e.summary[d].best <= r.ms /\ r.at <= e.at
           /\ \E r \in mine : e.summary[d].best = r.ms

LEMMA ScriptSummarised ==
  ASSUME NEW E, NEW s \in Nat, NEW base \in Nat, Script(E, s, base)
  PROVE  Summarised(E[Len(E)], ScriptLaps(E))
<1>1. PICK sum : sum = E[Len(E)].summary
  OBVIOUS
<1>2. PICK ls : ls = ScriptLaps(E)
  OBVIOUS
<1>3. \A d \in DOMAIN sum : sum[d] \in Row
  <2>1. PICK e \in Event : e = E[Len(E)] /\ e.kind = "session.ended"
    BY DEF Script
  <2>2. PICK s2 \in Nat, t \in Nat, m \in UNION {[D -> Row] : D \in SUBSET Drivers} :
          e = Ended(s2, t, m)
    <3>1. /\ \A a, t : Started(a, t).kind # "session.ended" /\ Online(a, t).kind # "session.ended"
          /\ \A a, d, t : CheckedIn(a, d, t).kind # "session.ended"
          /\ \A a, g, t : Offline(a, g, t).kind # "session.ended"
          /\ \A a, d, n, ms, t : LapRecorded(a, d, n, ms, t).kind # "session.ended"
      BY DEF Started, CheckedIn, LapRecorded, Offline, Online
    <3>2. e \in {Ended(a, t, m) : a \in Nat, t \in Nat,
                                  m \in UNION {[D -> Row] : D \in SUBSET Drivers}}
      <4>1. ASSUME e \in {Started(a, t) : a \in Nat, t \in Nat} PROVE FALSE
        BY <2>1, <3>1, <4>1
      <4>2. ASSUME e \in {CheckedIn(a, d, t) : a \in Nat, d \in Drivers, t \in Nat} PROVE FALSE
        BY <2>1, <3>1, <4>2
      <4>3. ASSUME e \in {LapRecorded(a, d, n, ms, t) :
                            a \in Nat, d \in Drivers, n \in Nat, ms \in Int, t \in Nat}
            PROVE  FALSE
        BY <2>1, <3>1, <4>3
      <4>4. ASSUME e \in {Offline(a, g, t) : a \in Nat, g \in Nat, t \in Nat} PROVE FALSE
        BY <2>1, <3>1, <4>4
      <4>5. ASSUME e \in {Online(a, t) : a \in Nat, t \in Nat} PROVE FALSE
        BY <2>1, <3>1, <4>5
      <4>. QED
        BY <4>1, <4>2, <4>3, <4>4, <4>5 DEF Event
    <3>. QED
      BY <3>2
  <2>3. sum = m
    BY <1>1, <2>1, <2>2 DEF Ended
  <2>4. PICK D \in SUBSET Drivers : m \in [D -> Row]
    OBVIOUS
  <2>. QED
    BY <2>3, <2>4
<1>4. SumsUp(E, sum) /\ LapsBy(E, E[Len(E)].at)
  BY <1>1 DEF Script
<1>5. ASSUME NEW j \in DOMAIN E, E[j].kind = "lap.recorded" PROVE E[j].who \in Drivers
  BY <1>5, ScriptEvents DEF ScriptEvent
<1>6. DOMAIN sum = {r.who : r \in ls}
  <2>1. DOMAIN sum = {d \in Drivers : LapIdx(E, d) # {}}
    BY <1>4 DEF SumsUp
  <2>2. ASSUME NEW d \in DOMAIN sum PROVE \E r \in ls : r.who = d
    BY <1>2, <2>1 DEF LapIdx, ScriptLaps
  <2>3. ASSUME NEW r \in ls PROVE r.who \in DOMAIN sum
    BY <1>2, <1>5, <2>1 DEF LapIdx, ScriptLaps
  <2>. QED
    BY <2>2, <2>3
<1>7. ASSUME NEW d \in DOMAIN sum, NEW mine, mine = {r \in ls : r.who = d}
      PROVE  /\ {r.n : r \in mine} = 1..sum[d].count
             /\ \A r \in mine : sum[d].best <= r.ms /\ r.at <= E[Len(E)].at
             /\ \E r \in mine : sum[d].best = r.ms
  <2>1. Tally(E, d, sum[d]) /\ LapIdx(E, d) # {}
    BY <1>4 DEF SumsUp
  <2>2. mine = {E[j] : j \in LapIdx(E, d)}
    BY <1>2, <1>7 DEF ScriptLaps, LapIdx
  <2>3. {r.n : r \in mine} = {E[j].n : j \in LapIdx(E, d)}
    BY <2>2
  <2>4. \A r \in mine : sum[d].best <= r.ms /\ r.at <= E[Len(E)].at
    <3>1. ASSUME NEW j \in LapIdx(E, d)
          PROVE  sum[d].best <= E[j].ms /\ E[j].at <= E[Len(E)].at
      BY <1>4, <2>1 DEF Tally, LapsBy, LapIdx
    <3>. QED
      BY <2>2, <3>1
  <2>5. \E j \in LapIdx(E, d) : sum[d].best = E[j].ms
    <3>1. PICK j \in LapIdx(E, d) : TRUE
      BY <2>1
    <3>2. E[j].n \in 1..sum[d].count
      BY <2>1, <3>1 DEF Tally
    <3>3. sum[d].count > 0
      <4>1. PICK c \in Nat : c = sum[d].count
        BY <1>3, <1>7 DEF Row
      <4>2. PICK n : n = E[j].n
        OBVIOUS
      <4>3. n \in 1..c
        BY <3>2, <4>1, <4>2
      <4>. QED
        BY <4>1, <4>3
    <3>. QED
      BY <2>1, <3>3 DEF Tally
  <2>. QED
    BY <2>1, <2>2, <2>3, <2>4, <2>5 DEF Tally
<1>8. \A d \in DOMAIN sum :
        LET mine == {r \in ls : r.who = d}
        IN  /\ {r.n : r \in mine} = 1..sum[d].count
            /\ \A r \in mine : sum[d].best <= r.ms /\ r.at <= E[Len(E)].at
            /\ \E r \in mine : sum[d].best = r.ms
  BY <1>7
<1>. QED
  BY <1>1, <1>2, <1>6, <1>8 DEF Summarised

-----------------------------------------------------------------------------
LEMMA LapsAre == ASSUME NEW s PROVE Laps(s) = LapsIn(log, s)
  BY DEF Laps, LapsIn, Rows

LEMMA HonestHolds ==
  ASSUME Inv, pc = "observe", stage = "session"
  PROVE  HonestLaps
<1>1. AtEvent /\ EventFacts /\ pc \in InHand
  BY AnnouncementIs DEF InHand
<1>2. PICK E, p : /\ InSession(E, p, k, crossed, log, todo, st, pc \in InHand)
                  /\ NextEvent(E, p, Sid(k), Base(k), todo)
  BY <1>1, AtSession DEF Session
<1>3. PICK r : r = log[Len(log)]
  OBVIOUS
<1>4. /\ r = E[p + 1] /\ p + 1 \in DOMAIN E /\ p \in Nat /\ E \in Seq(Event)
      /\ r.kind = "lap.recorded" /\ r.who \in Drivers /\ r.sid = Sid(k)
  BY <1>1, <1>2, <1>3 DEF Inv, HandInv, NextEvent, ScriptEvent
<1>5. /\ LoggedIn(log, E, Sid(k), p + 1)
      /\ SessionScript(E, Sid(k), Base(k), crossed)
  BY <1>1, <1>2 DEF InSession, Telling
<1>6. p + 1 \in LapIdx(E, r.who)
  BY <1>4 DEF LapIdx
<1>7. HonestLap(E, p + 1, crossed, r.who)
  BY <1>4, <1>5, <1>6 DEF SessionScript
<1>8. PICK d \in Drivers : d = r.who
  BY <1>4
<1>9. Of(d) = Mine(crossed, d) /\ \A i : Lost(i) <=> Gone(crossed, i)
  BY DEF Of, Mine, Lost, Gone
<1>10. PICK a \in Of(d), b \in Of(d) :
         /\ a < b /\ \A m \in Of(d) : a <= m /\ m <= b => ~ Lost(m)
         /\ crossed[b].at = r.at /\ crossed[a].at = r.at - r.ms /\ r.ms >= MinLapTimeMs
         /\ \/ FreshStart(crossed, d, a)
            \/ \E q \in LapIdx(E, d) : q < p + 1 /\ E[q].at = crossed[a].at /\ E[q].n = r.n - 1
  BY <1>4, <1>7, <1>8, <1>9 DEF HonestLap
<1>11. FreshStart(crossed, d, a) => OutLap(d, a)
  BY <1>9 DEF FreshStart, OutLap
<1>12. ASSUME NEW q \in LapIdx(E, d), q < p + 1
       PROVE  E[q] \in Laps(Sid(k)) /\ E[q].who = d
  <2>1. q \in 1..(p + 1) /\ E[q].kind = "lap.recorded" /\ E[q].who = d /\ q \in DOMAIN E
    BY <1>4, <1>12 DEF LapIdx
  <2>2. E[q].sid = Sid(k)
    <3>1. Script(E, Sid(k), Base(k)) /\ k \in Nat
      BY <1>5 DEF SessionScript, Inv, Shape
    <3>. QED
      BY <2>1, <3>1, Numbers, ScriptEvents DEF ScriptEvent
  <2>3. PICK i \in DOMAIN log : log[i] = E[q]
    BY <1>5, <2>1 DEF LoggedIn
  <2>. QED
    BY <2>1, <2>2, <2>3, LapsAre DEF LapsIn
<1>13. \/ OutLap(d, a)
       \/ \E q \in Laps(r.sid) : q.who = d /\ q.at = crossed[a].at /\ q.n = r.n - 1
  BY <1>4, <1>10, <1>11, <1>12
<1>. QED
  BY <1>3, <1>8, <1>10, <1>13 DEF HonestLaps

(* The script is told to the end when Run gets to the gap.                 *)
LEMMA SessionTold ==
  ASSUME Inv, pc = "reconcile"
  PROVE  \E E : /\ SessionScript(E, Sid(k), Base(k), crossed)
                /\ LoggedIn(log, E, Sid(k), Len(E))
                /\ \A i \in DOMAIN log : log[i].sid = Sid(k)
<1>1. stage = "session" /\ todo = <<>>
  BY DEF Inv, Shape
<1>2. PICK E, p : InSession(E, p, k, crossed, log, todo, st, pc \in InHand)
  BY <1>1 DEF Inv, ScriptInv, Working
<1>3. /\ SessionScript(E, Sid(k), Base(k), crossed) /\ p \in 0..Len(E) /\ SuffixOf(todo, E, p)
      /\ LoggedIn(log, E, Sid(k), p) /\ \A i \in DOMAIN log : log[i].sid = Sid(k)
  BY <1>2 DEF InSession, Telling, InHand
<1>4. p = Len(E)
  <2>1. Len(E) \in Nat
    BY <1>3 DEF SessionScript, Script
  <2>2. 0 = Len(E) - p
    BY <1>1, <1>3 DEF SuffixOf
  <2>. QED
    BY <1>3, <2>1, <2>2
<1>. QED
  BY <1>3, <1>4

LEMMA CountedHolds ==
  ASSUME Inv, pc = "reconcile"
  PROVE  EveryLapCounted
<1>1. PICK E : /\ SessionScript(E, Sid(k), Base(k), crossed)
               /\ LoggedIn(log, E, Sid(k), Len(E))
  BY SessionTold
<1>2. k \in Nat /\ Sid(k) \in Nat /\ Base(k) \in Nat /\ crossed \in Seq(Scan)
  BY Numbers DEF Inv, Shape
<1>3. Laps(Sid(k)) = ScriptLaps(E)
  <2>1. Script(E, Sid(k), Base(k))
    BY <1>1 DEF SessionScript
  <2>2. LapsIn(log, Sid(k)) = ScriptLaps(E)
    BY <1>1, <1>2, <2>1, LapsTold
  <2>. QED
    BY <2>2, LapsAre
<1>4. ASSUME NEW d \in Drivers, NEW a \in Of(d), NEW b \in Of(d),
             a < b, ~ Lost(a), ~ Lost(b), \A m \in Of(d) : ~ (a < m /\ m < b),
             crossed[b].at - crossed[a].at >= MinLapTimeMs
      PROVE  \E r \in Laps(Sid(k)) : r.who = d /\ r.at = crossed[b].at
  <2>1. a \in Mine(crossed, d) /\ b \in Mine(crossed, d) /\ Mine(crossed, d) = Of(d)
    BY DEF Of, Mine
  <2>2. b <= Len(crossed) /\ ~ Gone(crossed, a) /\ ~ Gone(crossed, b)
    BY <1>2, <1>4 DEF Of, Lost, Gone
  <2>3. CountedAll(E, d, crossed, Len(crossed))
    BY <1>1 DEF SessionScript
  <2>4. PICK j \in LapIdx(E, d) : E[j].at = crossed[b].at
    BY <1>4, <2>1, <2>2, <2>3 DEF CountedAll
  <2>. QED
    BY <1>3, <2>4 DEF LapIdx, ScriptLaps
<1>. QED
  BY <1>4 DEF EveryLapCounted

LEMMA SummaryHolds ==
  ASSUME Inv, pc \in {"reconcile", "gap"}
  PROVE  SummaryAgrees
<1>1. k \in Nat /\ Sid(k) \in Nat /\ Oos(k) \in Nat /\ Base(k) \in Nat
  BY Numbers DEF Inv, Shape
<1>2. stage \in {"session", "recon"} /\ todo = <<>>
  BY DEF Inv, Shape
<1>3. PICK E : /\ Script(E, Sid(k), Base(k)) /\ LoggedIn(log, E, Sid(k), Len(E))
               /\ \A i \in DOMAIN log : log[i].sid \in {Sid(k), Oos(k)}
               /\ stage = "session" => \A i \in DOMAIN log : log[i].sid = Sid(k)
               /\ stage = "recon" =>
                    \E F, p : InRecon(F, p, k, EndAt(E), log, todo, pc \in InHand)
  <2>1. CASE pc = "reconcile"
    <3>1. stage = "session"
      BY <2>1 DEF Inv, Shape
    <3>. QED
      BY <2>1, <3>1, SessionTold DEF SessionScript
  <2>2. CASE pc = "gap"
    BY <2>2 DEF Inv, ScriptInv, Told, Follow, EndAt
  <2>. QED
    BY <2>1, <2>2
<1>4. ASSUME NEW i \in Rows("session.ended")
      PROVE  Summarised(log[i], Laps(log[i].sid))
  <2>1. i \in DOMAIN log /\ log[i].kind = "session.ended"
    BY DEF Rows
  <2>2. CASE log[i].sid = Sid(k)
    <3>1. log[i] = E[Len(E)]
      <4>1. Len(E) \in 0..Len(E)
        BY <1>3 DEF Script
      <4>. QED
        BY <1>1, <1>3, <2>1, <2>2, <4>1, EndIs
    <3>2. LapsIn(log, Sid(k)) = ScriptLaps(E)
      BY <1>1, <1>3, LapsTold
    <3>3. Summarised(E[Len(E)], ScriptLaps(E))
      BY <1>1, <1>3, ScriptSummarised
    <3>. QED
      BY <2>2, <3>1, <3>2, <3>3, LapsAre
  <2>3. CASE log[i].sid = Oos(k)
    <3>1. stage = "recon"
      BY <1>1, <1>2, <1>3, <2>1, <2>3, Numbers
    <3>2. PICK F, p : InRecon(F, p, k, EndAt(E), log, todo, pc \in InHand)
      BY <1>3, <3>1
    <3>3. PICK t \in Nat : t = EndAt(E)
      BY <1>3 DEF Script, EndAt
    <3>4. /\ Script(F, Oos(k), t) /\ p \in 0..Len(F) /\ SuffixOf(todo, F, p)
          /\ LoggedIn(log, F, Oos(k), p)
      BY <3>2, <3>3 DEF InRecon, Telling, InHand
    <3>5. p = Len(F) /\ Len(F) \in 0..Len(F)
      <4>1. Len(F) \in Nat
        BY <3>4 DEF Script
      <4>2. 0 = Len(F) - p
        BY <1>2, <3>4 DEF SuffixOf
      <4>. QED
        BY <3>4, <4>1, <4>2
    <3>6. log[i] = F[Len(F)]
      BY <1>1, <2>1, <2>3, <3>4, <3>5, EndIs
    <3>7. LapsIn(log, Oos(k)) = ScriptLaps(F)
      BY <1>1, <3>4, <3>5, LapsTold
    <3>8. Summarised(F[Len(F)], ScriptLaps(F))
      BY <1>1, <3>4, ScriptSummarised
    <3>. QED
      BY <2>3, <3>6, <3>7, <3>8, LapsAre
  <2>. QED
    BY <1>3, <2>1, <2>2, <2>3
<1>. QED
  BY <1>4 DEF SummaryAgrees, Summarised

LEMMA FollowsHolds ==
  ASSUME Inv
  PROVE  ReconcileFollows
<1>1. k \in Nat /\ Sid(k) \in Nat /\ Base(k) \in Nat /\ Sid(k) # Oos(k)
  BY Numbers DEF Inv, Shape
<1>2. ASSUME NEW i \in DOMAIN log, log[i].sid = Oos(k)
      PROVE  /\ \E j \in Rows("session.ended") : j < i /\ log[j].sid = Sid(k)
             /\ \A j \in Rows("session.ended") \cup Rows("lap.recorded") :
                  log[j].sid = Sid(k) => log[j].at <= log[i].at
  <2>1. stage = "recon" \/ pc = "gap"
    <3>1. SUFFICES ASSUME stage # "recon", pc # "gap" PROVE FALSE
      OBVIOUS
    <3>2. stage = "session" /\ log # <<>> /\ pc \in Working \ {"gap"}
      BY <1>2, <3>1 DEF Inv, Shape, Idle, Working
    <3>3. PICK E, p : InSession(E, p, k, crossed, log, todo, st, pc \in InHand)
      BY <3>2 DEF Inv, ScriptInv
    <3>. QED
      BY <1>1, <1>2, <3>3 DEF InSession
  <2>2. PICK E : Told(E, k, log)
    BY <2>1 DEF Inv, ScriptInv
  <2>3. /\ Script(E, Sid(k), Base(k)) /\ LoggedIn(log, E, Sid(k), Len(E))
        /\ Follow(log, k, E[Len(E)].at)
    BY <2>2 DEF Told
  <2>4. /\ log[i].at \in Nat /\ E[Len(E)].at <= log[i].at
        /\ \E j \in DOMAIN log : j < i /\ log[j].kind = "session.ended" /\ log[j].sid = Sid(k)
    BY <1>2, <2>3 DEF Follow
  <2>5. ASSUME NEW j \in DOMAIN log, log[j].kind \in {"session.ended", "lap.recorded"},
               log[j].sid = Sid(k)
        PROVE  log[j].at <= log[i].at
    <3>1. PICK l \in 1..Len(E) : log[j] = E[l]
      BY <2>3, <2>5 DEF LoggedIn
    <3>2. E \in Seq(Event) /\ l \in DOMAIN E /\ E[Len(E)].at \in Nat
      BY <2>3 DEF Script
    <3>3. ScriptEvent(E, l, Sid(k), Base(k)) /\ LapsBy(E, E[Len(E)].at)
      BY <1>1, <2>3, <3>2, ScriptEvents DEF Script
    <3>4. E[l].at \in Nat /\ E[l].at <= E[Len(E)].at
      BY <2>5, <3>1, <3>2, <3>3 DEF ScriptEvent, LapsBy
    <3>. QED
      BY <2>4, <3>1, <3>2, <3>4
  <2>. QED
    BY <2>4, <2>5 DEF Rows
<1>. QED
  BY <1>2 DEF ReconcileFollows

LEMMA RecordsHold ==
  ASSUME Inv
  PROVE  RecordsAnnounced
<1>1. SUFFICES ASSUME pc \in {"emit", "open", "close", "reconcile", "gap"},
                      NEW d \in Drivers \ cutOff,
                      NEW ms \in {log[i].ms : i \in {j \in Rows("lap.recorded") : log[j].who = d}}
                                 \cup ({prs[d]} \ {NoLap})
               PROVE  known[d] # NoLap /\ known[d] <= ms
  BY DEF RecordsAnnounced
<1>2. Heard(log, d, {}, known[d]) /\ Covers(known[d], prs[d])
  BY <1>1 DEF Inv, RecordInv
<1>3. CASE ms = prs[d] /\ prs[d] # NoLap
  BY <1>2, <1>3 DEF Covers
<1>4. CASE \E i \in LapsOf(log, d) : ms = log[i].ms
  <2>1. known[d] \in Nat
    BY DEF Inv, Shape
  <2>. QED
    BY <1>2, <1>4, <2>1 DEF Heard, NoLap
<1>. QED
  BY <1>1, <1>3, <1>4 DEF LapsOf, Rows

LEMMA OutageHolds ==
  ASSUME Inv
  PROVE  OutageRecorded
<1>1. SUFFICES ASSUME pc \in {"emit", "observe", "broken", "reconcile", "gap"}
               PROVE  /\ (Ours # {}) = (Rows("scanner.offline") # {})
                      /\ \A o \in Ours : outages[o].open = (Rows("scanner.online") = {})
  BY DEF OutageRecorded, Ours
<1>2. (Ours # {}) <=> (Rows("scanner.offline") # {})
  BY <1>1 DEF Inv, ScannerInv
<1>3. \A o \in Ours : outages[o].open = (Rows("scanner.online") = {})
  BY <1>1 DEF Inv, ScannerInv
<1>. QED
  BY <1>2, <1>3

LEMMA HeldHolds ==
  ASSUME Inv
  PROVE  HeldBeforeSession
<1>1. log # <<>> => pc # "held"
  BY DEF Inv, Shape
<1>. QED
  BY <1>1 DEF Inv, HeldScanInv, HeldBeforeSession

(* HonestLaps for every run of the simulator: "no counted lap spans the    *)
(* gap" of a scanner outage (GenerateSession, LapTracker.Reset).           *)
THEOREM LapsAreHonest == Spec => []HonestLaps
<1>1. Inv => HonestLaps
  BY HonestHolds DEF HonestLaps
<1>. QED
  BY <1>1, Invariant, PTL

(* EveryLapCounted for every run: a crossing that counts is never dropped  *)
(* (GenerateSession, LapTracker.Cross).                                    *)
THEOREM LapsAreCounted == Spec => []EveryLapCounted
<1>1. Inv => EveryLapCounted
  BY CountedHolds DEF EveryLapCounted
<1>. QED
  BY <1>1, Invariant, PTL

(* SummaryAgrees for every run: the session.ended summary, normal or       *)
(* reconciled, is what the lap.recorded rows of the session add up to.     *)
THEOREM SummariesAgree == Spec => []SummaryAgrees
<1>1. Inv => SummaryAgrees
  BY SummaryHolds DEF SummaryAgrees
<1>. QED
  BY <1>1, Invariant, PTL

(* HeldBeforeSession for every run: Run records the held scans before it   *)
(* emits an event, so no stop or failed call after that can lose one.      *)
THEOREM ScansAreHeldFirst == Spec => []HeldBeforeSession
<1>1. Inv => HeldBeforeSession
  BY HeldHolds
<1>. QED
  BY <1>1, Invariant, PTL

(* OutageRecorded for every run: openOutage and closeOutage keep the       *)
(* scanner_outages row of the session in line with its events.             *)
THEOREM OutagesAreRecorded == Spec => []OutageRecorded
<1>1. Inv => OutageRecorded
  BY OutageHolds
<1>. QED
  BY <1>1, Invariant, PTL

(* ReconcileFollows for every run: emitReconciledSession starts from       *)
(* st.lastEndedAt, so its session comes after the one before it.           *)
THEOREM ReconciledComesAfter == Spec => []ReconcileFollows
<1>1. Inv => ReconcileFollows
  BY FollowsHolds
<1>. QED
  BY <1>1, Invariant, PTL

(* RecordsAnnounced for every run, with any confirmed records coming in at *)
(* any moment: whatever Refresh makes of driver_prs between two laps, what *)
(* ObserveLap takes for no break is no faster than a record that was       *)
(* announced or confirmed, and a break it detects reaches the outbox       *)
(* unless a stop cuts it off.                                              *)
THEOREM RecordsAreAnnounced == Spec => []RecordsAnnounced
<1>1. Inv => RecordsAnnounced
  BY RecordsHold
<1>. QED
  BY <1>1, Invariant, PTL
=============================================================================
