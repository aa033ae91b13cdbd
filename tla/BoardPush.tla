------------------------------ MODULE BoardPush -----------------------------
(***************************************************************************)
(* From the read model to the screens.  Two goroutines push: the consumer  *)
(* after a change, and the connection supervisor when the bus goes or      *)
(* comes back (cmd/leaderboard/main.go; libs/go-pitwall/messaging/         *)
(* supervisor.go).  A push reads the board, stamps it with the state of    *)
(* the connection and hands the frame to the hub, which under its lock     *)
(* serves one screen after the other and never blocks on a slow one        *)
(* (internal/web/server.go).  A screen that connects is added to the hub   *)
(* and then reads a first snapshot of its own.                             *)
(***************************************************************************)
EXTENDS Leaderboard

CONSTANTS Screens,    \* SSE clients
          Buffer,     \* capacity of a client's channel
          Base, Cap,  \* the supervisor's backoff
          MaxDrops,   \* bound on the losses of the bus
          MaxCrashes  \* bound on the restarts of the service

ASSUME PushConstantsOK ==
  /\ Screens \cap {"consumer", "supervisor"} = {}
  /\ Buffer \in Nat \ {0}
  /\ Base \in Nat \ {0} /\ Cap \in Nat /\ Base <= Cap
  /\ MaxDrops \in Nat /\ MaxCrashes \in Nat

VARIABLES
  bus,        \* the broker is reachable
  drops,      \* losses of the bus so far
  link,       \* the supervisor: "adopt", "dial", "wait", "up"
  backoff,    \* its next delay
  connected,  \* busConnected
  step,       \* each pusher and screen: where it is
  got,        \* the board each has read
  frame,      \* the frame each is about to hand over
  lastGood,   \* the last board read without an error
  turn,       \* each screen: the select that the broadcast under way is at
  chan,       \* each screen's channel
  seen,       \* the frame each screen shows
  newest,     \* history: the last frame broadcast to each screen
  last,       \* history: the last frame that got hold of the hub
  alone,      \* history: the latest push began with no other under way, none
              \* has begun since, and its read did not fail
  crashes     \* restarts so far

pushVars == <<bus, drops, link, backoff, connected, step, got, frame, lastGood,
              turn, chan, seen, newest, last, alone, crashes>>
vars == <<lbVars, pushVars>>

Pushers == {"consumer", "supervisor"}
Readers == Pushers \cup Screens

NoFrame == [board |-> Waiting, stale |-> TRUE, none |-> TRUE]
Frame(board, live) == [board |-> board, stale |-> ~live, none |-> FALSE]

ProcessStart ==
  /\ link' = "adopt"
  /\ backoff' = Base
  /\ connected' = TRUE
  /\ step' = [a \in Readers |-> "idle"]
  /\ got' = [a \in Readers |-> Waiting]
  /\ frame' = [a \in Readers |-> NoFrame]
  /\ lastGood' = Waiting
  /\ chan' = [c \in Screens |-> <<>>]
  /\ seen' = [c \in Screens |-> NoFrame]
  /\ newest' = [c \in Screens |-> NoFrame]
  /\ turn' = [c \in Screens |-> "done"]
  /\ last' = NoFrame
  /\ alone' = TRUE

Init ==
  /\ LeaderboardInit
  /\ bus = TRUE
  /\ drops = 0
  /\ link = "adopt"
  /\ backoff = Base
  /\ connected = TRUE
  /\ step = [a \in Readers |-> "idle"]
  /\ got = [a \in Readers |-> Waiting]
  /\ frame = [a \in Readers |-> NoFrame]
  /\ lastGood = Waiting
  /\ chan = [c \in Screens |-> <<>>]
  /\ seen = [c \in Screens |-> NoFrame]
  /\ newest = [c \in Screens |-> NoFrame]
  /\ turn = [c \in Screens |-> "done"]
  /\ last = NoFrame
  /\ alone = TRUE
  /\ crashes = 0

(***************************************************************************)
(* The consumer.  Messages already fetched are handled when the bus is     *)
(* gone, too; their acks are lost.                                         *)
(***************************************************************************)
Subscribed == bus /\ link \in {"adopt", "up"}

HandleDelivery ==
  /\ step["consumer"] = "idle"
  /\ \E d \in Deliveries :
       \/ Process(d) /\ (Subscribed \/ faults' # faults)
       \/ ProcessFails(d) /\ Subscribed
  /\ step' = [step EXCEPT !["consumer"] = IF notify' THEN "read" ELSE "idle"]
  /\ alone' = IF notify' THEN step["supervisor"] = "idle" ELSE alone
  /\ UNCHANGED <<bus, drops, link, backoff, connected, got, frame, lastGood, turn,
                 chan, seen, newest, last, crashes>>

(***************************************************************************)
(* The supervisor.  It adopts the connection that the process dialled at   *)
(* its start, dead or alive.  setState calls back once per change; the     *)
(* callback pushes.  A connection that was lost is noticed, sooner or      *)
(* later, and never revives.                                               *)
(***************************************************************************)
BusDown ==
  /\ bus
  /\ drops < MaxDrops
  /\ bus' = FALSE
  /\ drops' = drops + 1
  /\ UNCHANGED <<lbVars, link, backoff, connected, step, got, frame, lastGood, turn,
                 chan, seen, newest, last, alone, crashes>>

BusUp ==
  /\ ~bus
  /\ link \in {"dial", "wait"}
  /\ bus' = TRUE
  /\ UNCHANGED <<lbVars, drops, link, backoff, connected, step, got, frame, lastGood,
                 turn, chan, seen, newest, last, alone, crashes>>

nextBackoff(cur) == IF 2 * cur > Cap THEN Cap ELSE 2 * cur

DialFails ==
  /\ link = "dial" /\ step["supervisor"] = "idle"
  /\ ~bus
  /\ link' = "wait"
  /\ backoff' = nextBackoff(backoff)
  /\ UNCHANGED <<lbVars, bus, drops, connected, step, got, frame, lastGood, turn, chan,
                 seen, newest, last, alone, crashes>>

BackoffOver ==
  /\ link = "wait"
  /\ link' = "dial"
  /\ UNCHANGED <<lbVars, bus, drops, backoff, connected, step, got, frame, lastGood, turn,
                 chan, seen, newest, last, alone, crashes>>

SetState(live) ==
  /\ connected' = live
  /\ step' = [step EXCEPT !["supervisor"] = "read"]
  /\ alone' = (step["consumer"] = "idle")

DialSucceeds ==
  /\ link = "adopt" \/ (link = "dial" /\ bus)
  /\ step["supervisor"] = "idle"
  /\ link' = "up"
  /\ backoff' = Base
  /\ SetState(TRUE)
  /\ UNCHANGED <<lbVars, bus, drops, got, frame, lastGood, turn, chan, seen, newest, last, crashes>>

ConnectionLost ==
  /\ link = "up" /\ step["supervisor"] = "idle"
  /\ ~bus
  /\ link' = "dial"
  /\ SetState(FALSE)
  /\ UNCHANGED <<lbVars, bus, drops, backoff, got, frame, lastGood, turn, chan, seen,
                 newest, last, crashes>>

(***************************************************************************)
(* snapshot: read the board, then stamp it.  A failed read serves the last *)
(* board read well.                                                        *)
(***************************************************************************)
ReadBoard(a) ==
  /\ step[a] = "read"
  /\ got' = [got EXCEPT ![a] = CurrentBoard]
  /\ step' = [step EXCEPT ![a] = "stamp"]
  /\ UNCHANGED <<lbVars, bus, drops, link, backoff, connected, frame, lastGood, turn,
                 chan, seen, newest, last, alone, crashes>>

Stamp(a) ==
  /\ step[a] = "stamp"
  /\ lastGood' = got[a]
  /\ frame' = [frame EXCEPT ![a] = Frame(got[a], connected)]
  /\ got' = [got EXCEPT ![a] = Waiting]
  /\ step' = [step EXCEPT ![a] = "send"]
  /\ UNCHANGED <<lbVars, bus, drops, link, backoff, connected, turn, chan, seen, newest,
                 last, alone, crashes>>

ReadFails(a) ==
  /\ step[a] = "read"
  /\ Fault
  /\ alone' = IF a \in Pushers THEN FALSE ELSE alone
  /\ frame' = [frame EXCEPT ![a] = Frame(lastGood, connected)]
  /\ step' = [step EXCEPT ![a] = "send"]
  /\ UNCHANGED <<feed, next, retrying, inbox, sessions, best, seq, notify, parked, overtaken>>
  /\ UNCHANGED <<bus, drops, link, backoff, connected, got, lastGood, turn, chan, seen,
                 newest, last, crashes>>

(***************************************************************************)
(* The hub.  broadcast holds its lock, so that no screen comes or goes and *)
(* no other frame gets in; but the screens go on reading their channels.   *)
(* A full channel loses its oldest frame: each frame is a full snapshot.   *)
(***************************************************************************)
Added(c) == step[c] # "idle"
HubFree == \A a \in Pushers : step[a] # "hub"

Lock(a) ==
  /\ a \in Pushers
  /\ step[a] = "send" /\ HubFree
  /\ step' = [step EXCEPT ![a] = "hub"]
  /\ turn' = [c \in Screens |-> IF Added(c) THEN "offer" ELSE "done"]
  /\ last' = frame[a]
  /\ UNCHANGED <<lbVars, bus, drops, link, backoff, connected, got, frame, lastGood, chan,
                 seen, newest, alone, crashes>>

Room(c) == Len(chan[c]) < Buffer

Served(a, c) ==
  /\ newest' = [newest EXCEPT ![c] = frame[a]]
  /\ turn' = [turn EXCEPT ![c] = "done"]

(* The first select: one screen at a time.                                 *)
Offer(a, c) ==
  /\ step[a] = "hub" /\ turn[c] = "offer"
  /\ \A b \in Screens : turn[b] \in {"offer", "done"}
  /\ IF Room(c)
     THEN chan' = [chan EXCEPT ![c] = Append(@, frame[a])] /\ Served(a, c)
     ELSE turn' = [turn EXCEPT ![c] = "evict"] /\ UNCHANGED <<chan, newest>>
  /\ UNCHANGED <<lbVars, bus, drops, link, backoff, connected, step, got, frame, lastGood,
                 seen, last, alone, crashes>>

(* The second: the screen may have emptied its channel by now.  The mutant *)
(* keeps what is queued.                                                   *)
EvictNone(c) ==
  /\ turn[c] = "evict"
  /\ turn' = [turn EXCEPT ![c] = "again"]
  /\ UNCHANGED <<lbVars, bus, drops, link, backoff, connected, step, got, frame, lastGood,
                 chan, seen, newest, last, alone, crashes>>

Evict(c) ==
  /\ turn[c] = "evict"
  /\ chan' = [chan EXCEPT ![c] = IF @ = <<>> THEN @ ELSE Tail(@)]
  /\ turn' = [turn EXCEPT ![c] = "again"]
  /\ UNCHANGED <<lbVars, bus, drops, link, backoff, connected, step, got, frame, lastGood,
                 seen, newest, last, alone, crashes>>

(* The third gives up when the channel is full again.                      *)
OfferAgain(a, c) ==
  /\ step[a] = "hub" /\ turn[c] = "again"
  /\ chan' = IF Room(c) THEN [chan EXCEPT ![c] = Append(@, frame[a])] ELSE chan
  /\ Served(a, c)
  /\ UNCHANGED <<lbVars, bus, drops, link, backoff, connected, step, got, frame, lastGood,
                 seen, last, alone, crashes>>

Unlock(a) ==
  /\ step[a] = "hub"
  /\ \A c \in Screens : turn[c] = "done"
  /\ frame' = [frame EXCEPT ![a] = NoFrame]
  /\ step' = [step EXCEPT ![a] = "idle"]
  /\ notify' = IF a = "consumer" THEN FALSE ELSE notify
  /\ UNCHANGED <<feed, next, retrying, inbox, sessions, best, seq, parked, faults, overtaken>>
  /\ UNCHANGED <<bus, drops, link, backoff, connected, got, lastGood, turn, chan, seen,
                 newest, last, alone, crashes>>

(***************************************************************************)
(* A screen.                                                               *)
(***************************************************************************)
Connect(c) ==
  /\ step[c] = "idle" /\ HubFree
  /\ step' = [step EXCEPT ![c] = "read"]
  /\ UNCHANGED <<lbVars, bus, drops, link, backoff, connected, got, frame, lastGood, turn,
                 chan, seen, newest, last, alone, crashes>>

FirstFrame(c) ==
  /\ c \in Screens
  /\ step[c] = "send"
  /\ seen' = [seen EXCEPT ![c] = frame[c]]
  /\ frame' = [frame EXCEPT ![c] = NoFrame]
  /\ step' = [step EXCEPT ![c] = "stream"]
  /\ UNCHANGED <<lbVars, bus, drops, link, backoff, connected, got, lastGood, turn, chan,
                 newest, last, alone, crashes>>

Show(c) ==
  /\ step[c] = "stream"
  /\ chan[c] # <<>>
  /\ seen' = [seen EXCEPT ![c] = Head(chan[c])]
  /\ chan' = [chan EXCEPT ![c] = Tail(@)]
  /\ UNCHANGED <<lbVars, bus, drops, link, backoff, connected, step, got, frame, lastGood,
                 turn, newest, last, alone, crashes>>

Disconnect(c) ==
  /\ step[c] = "stream" /\ HubFree
  /\ step' = [step EXCEPT ![c] = "idle"]
  /\ chan' = [chan EXCEPT ![c] = <<>>]
  /\ seen' = [seen EXCEPT ![c] = NoFrame]
  /\ newest' = [newest EXCEPT ![c] = NoFrame]
  /\ UNCHANGED <<lbVars, bus, drops, link, backoff, connected, got, frame, lastGood, turn,
                 last, alone, crashes>>

(* A restart keeps the tables and the broker's queues, and fails as long   *)
(* as the broker cannot be reached; the ingest sequence starts at the      *)
(* highest one stored.  The mutant starts it at zero.                      *)
SeqFromZero == seq' = 0

StartSeq == seq' = MaxSeq

Restart ==
  /\ bus
  /\ crashes < MaxCrashes
  /\ crashes' = crashes + 1
  /\ ProcessStart
  /\ StartSeq
  /\ notify' = FALSE
  /\ UNCHANGED <<feed, next, retrying, inbox, sessions, best, parked, faults, overtaken>>
  /\ UNCHANGED <<bus, drops>>

Next ==
  \/ HandleDelivery
  \/ BusDown \/ BusUp
  \/ DialFails \/ BackoffOver \/ DialSucceeds \/ ConnectionLost
  \/ \E a \in Readers : ReadBoard(a) \/ Stamp(a) \/ ReadFails(a) \/ Lock(a)
  \/ \E a \in Pushers : Unlock(a) \/ \E c \in Screens : Offer(a, c) \/ OfferAgain(a, c)
  \/ \E c \in Screens : Evict(c) \/ Connect(c) \/ FirstFrame(c) \/ Show(c) \/ Disconnect(c)
  \/ Restart

Spec == Init /\ [][Next]_vars

-----------------------------------------------------------------------------
LapsOf(s, r) == {e \in inbox : e.type = "lap.recorded" /\ e.sid = s /\ e.racer = r}

(* In whatever order, how often and across how many restarts the laps      *)
(* arrive, a driver's best is the fastest of those applied; and unless a   *)
(* message was overtaken, the moment kept is the first at which the time   *)
(* was set (ImprovesBest is strict).                                       *)
BestsExact ==
  \A s \in Sessions, r \in Racers :
    IF LapsOf(s, r) = {} THEN best[s][r] = NoBest
    ELSE \E e \in LapsOf(s, r) :
           /\ best[s][r].ms = e.ms /\ best[s][r].at = e.at
           /\ \A f \in LapsOf(s, r) :
                e.ms < f.ms \/ (e.ms = f.ms /\ (overtaken \/ e.at <= f.at))

Applied(type, s) == \E e \in inbox : e.type = type /\ e.sid = s

(* A session's status is what the events applied say, whatever the order:  *)
(* an end is final, a late start does not reopen the session, a lap before *)
(* its start makes it implicit and no event is forgotten.                  *)
StatusExact ==
  \A s \in Sessions :
    /\ sessions[s].started = Applied("session.started", s)
    /\ sessions[s].ended = Applied("session.ended", s)
    /\ sessions[s].status =
         IF Applied("session.ended", s) THEN "finished"
         ELSE IF Applied("session.started", s) THEN "active"
         ELSE IF \E r \in Racers : LapsOf(s, r) # {} THEN "implicit" ELSE "none"

(* The ranking is total, and so never flaps: no two bests carry the same   *)
(* ingest number, through duplicates, failures and restarts (MaxSeq).      *)
SeqDistinct ==
  \A s, t \in Sessions, q, r \in Racers :
    /\ best[s][q] # NoBest /\ best[t][r] # NoBest
    /\ best[s][q].seq = best[t][r].seq
    => s = t /\ q = r

(* "The auto-reset is the epoch pointer moving" (ensureSession,            *)
(* CurrentBoard): the board goes to a session when it is first heard of,   *)
(* in whatever order sessions are, and in no other step; so it never goes  *)
(* back to a session it has left.                                          *)
MovesOnFirstSight ==
  [][IF \E s \in Sessions : ~Known(s) /\ Known(s)'
     THEN ~Known(Current') /\ Known(Current)'
     ELSE Current' = Current]_vars

(* "Applied" misses no visible change, and each is pushed: with no push    *)
(* under way the last frame broadcast shows the board as it is stored,     *)
(* unless a read failed or two pushes overlapped, in which case the older  *)
(* snapshot may have been broadcast last (Apply*, Notify, Server.Publish). *)
BoardsCatchUp ==
  (alone /\ ~last.none /\ \A a \in Pushers : step[a] = "idle") => last.board = CurrentBoard

(* A screen, however slow, ends on the last frame broadcast to it: it is   *)
(* the last in its channel, or on show, although it reads while the hub    *)
(* makes room for the next frame (hub.broadcast).                          *)
NewestKept ==
  \A c \in Screens :
    newest[c] # NoFrame /\ turn[c] # "again" =>
      IF chan[c] # <<>> THEN chan[c][Len(chan[c])] = newest[c]
      ELSE step[c] = "stream" /\ seen[c] = newest[c]

(* "flagged stale, never faked live": once the loss of the bus has been    *)
(* pushed and no push is under way, the last frame says that it is stale.  *)
NeverFakedLive ==
  (~connected /\ \A a \in Pushers : step[a] = "idle") => last.stale
=============================================================================
