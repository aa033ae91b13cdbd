# Pitwall: a TLA+ verification project

Pitwall is an event-driven platform for a karting track. Services own their
data, talk only through RabbitMQ and share no database, so their correctness
rests on one reliability spine: every event goes out through a durable outbox,
every event comes in through an idempotent inbox, and a message that cannot be
processed is retried and then parked. This project models that spine, and on
top of it the four services: Timing, which simulates the track, Identity,
Leaderboard and the record-keeping half of Driver.

## Inventory

| Part | State it keeps | Operations | Correct when |
|---|---|---|---|
| Outbox table, `libs/go-pitwall/persistence/outbox.go` | rows with a status | Enqueue, FetchPending, MarkSent, MarkQuarantined, RecordFailure | a committed event is owed to the bus until the broker has it |
| Outbox relay, `relay/relay.go`, `relay/producer.go` | backoff, kick token, current batch | Kick, Run, DrainOnce, Flush | sent only after an ack, oldest first, invalid rows block nothing |
| Publisher and supervisor, `messaging/publisher.go`, `supervisor.go` | connection generation, confirm channel, backoff | establish, PublishConfirmed, Run, Close | never a false success; always dials again |
| Consumer bus and DLQ topology, `messaging/consumer.go`, `dlq.go` | connection generation, stable delivery channel, DLX name | ConnectAndConsume, pump, PublishToDLX | a message is never lost between its queues |
| Retry policy, `dlq/dlq.go` | none | NextRetry | the attempt budget is exact |
| Inbox and transactions, `persistence/inbox.go`, `db.go` | seen envelope ids | HasSeen, MarkSeen, WithinTx | an effect is committed at most once |
| Erasure, `erasure/erasure.go` | tombstones | Handle, GuardedCreate (no caller) | an erased person never reappears |
| Timing simulator, `services/timing/internal/simulator`, `domain` | lap trackers, run state; transponder map, held scans, outages | Prepare, GenerateSession, emitEnvelope, emitReconciledSession | the events say what the line saw; side effects agree with them |
| Timing records, `domain/pr.go`, `persistence/pr_store.go`, `consumer/pr_refresh.go` | the local copy of each record | ObserveLap, Refresh | a record break is announced; the copy follows the canonical value |
| Timing register-first resolver, `internal/consumer/resolver.go` | waiters, inbox | Resolve, Deliver, signal | every driver gets the id of its mailbox |
| Identity, `services/identity` | email to master id, suppressed emails, held lookups, tombstones | resolve or mint, hold, erase | one id per mailbox, none for a suppressed one; erasure is final |
| Leaderboard, `services/leaderboard/internal/persistence`, `domain`, `consumer` | sessions with epochs, best laps, ingest sequence | three apply transactions, ranking | the board is what the events say, in any order |
| Leaderboard web, `internal/web`, `cmd/leaderboard` | last good board, connection flag, one buffer per client | snapshot, Publish, broadcast, handleEvents | a client ends on the newest board, and knows when it is stale |
| Driver, `services/driver` (Python) | profiles, lap history, canonical records | four handlers, relay and consumer threads | the canonical record is the fastest lap known |
| Python library, `libs/py-pitwall` | as the Go library | as the Go library | as the Go library |
| Heartbeat, logging, contract, code generation, deployment | | | not modelled: I/O, schemas, configuration |

Services interact only by messages. Inside a process, goroutines (or Python
threads) interact through the database, which has a single connection, through
the publisher's current channel, swapped under a lock by the supervisor, and
through the delivery channel, which outlives connections. In Timing the
simulator's goroutine and the reply consumer meet in a one-slot channel, and the
simulator and the consumer of `driver.pr_updated` write the same records; in
Leaderboard the consumer and the connection supervisor both push boards.

What is hard here is failure in the middle of something: a crash or a drop
between the commit and the ack, between the ack and the mark, between a
republish and the ack of the original; deliveries that outlive their
connection; retries that arrive after what followed them; two goroutines that
each read, then publish. `PROJECT.json` lists
these hazards line by line, with the property that watches each.

## Modules

| Module | Models | State and actions |
|---|---|---|
| `AtLeastOncePublish` | what an outbox promises | produce, publish, retire, reject |
| `OutboxRelay` | outbox, relay, confirmed publish, reconnect, shutdown, crash | table status, where DrainOnce is, the outstanding confirm; one action per branch of `DrainOnce`, `Run`, `Flush`, `PublishConfirmed` |
| `OutboxRelayProofs` | theorems about it | |
| `EffectivelyOnce` | what a consumer promises | send, apply, park, release, revive |
| `Delivery` | work, retry and parking queue, bus, pump, handler, inbox | bags of copies, the handler's step, what is on the wire; one action per branch of `Process`, `settle`, `retryOrPark`, `park`, `ConnectAndConsume` |
| `DeliveryProofs` | theorems about it | |
| `ChannelLoss` | `Delivery` with channel-level closures | one more fault |
| `DlxRouting` | the DLQ bindings of several consumers on one broker | copies in each consumer's three queues |
| `DlxRoutingProofs` | theorems about it | |
| `SimSession` | the lap rule, the outage window, the register-first gate, the events of a session | no state: `GenerateSession` as a fold of `Turn` over the crossings, `GenerateReconciledSession` likewise |
| `SimSessionProofs` | theorems about what they generate | |
| `TimingRun` | `Simulator.Run` around it, and the refresh of records beside it | where Run is, `runState`, the five tables it writes; one action per transaction, per turn of the loop and per fault |
| `TimingRunProofs` | theorems about it | |
| `PersonalRecord` | a driver's record in Timing and in Driver | both copies, the events between them; `ObserveLap`, `EnqueueBroken`, `Refresh`, `ProcessLap`, `ProcessBroken` |
| `PersonalRecordProofs` | theorems about it | |
| `Identity` | Identity's queue, handler, resolver and erasure | its four tables, inbox and outbox; one action per outcome of `Handler.Process` |
| `RegisterFirst` | Timing's resolver and reply consumer, composed with `Identity` | the waiter and its channel, the replies' queue, the inbox; one action per branch of `Resolve` and `Deliver` |
| `RegisterFirstProofs` | theorems about both | |
| `Leaderboard` | the read model and its handler | sessions, bests, ingest sequence, retry queue; the three apply transactions as operators |
| `BoardPush` | snapshot, supervisor, hub and screens, composed with `Leaderboard` | where each pusher and each screen is; one action per step of a push, per select of the hub, per step of the supervisor and of a client |
| `BoardPushProofs` | theorems about both | |
| `MC*` | small instances | |

The handler of `Delivery` is the Leaderboard's, whose effect (`ApplyLap`) is in
the same transaction as its inbox row; Timing's and Identity's handlers settle
their deliveries in the same way.

### Abstractions

* A row of the outbox is its rank in `ORDER BY created_at, id`; rows may be
  inserted in any order. The only invalid rows are those an earlier deployment
  left under an older contract, since `EnqueueEnvelope` validates; they are in
  the initial table.
* A publish whose connection dies before the broker has processed it becomes an
  orphan that may still be accepted, at any later time, or be lost.
* A queue is a bag: retries, requeues and redeliveries reorder it anyway.
  Prefetch is left out: it limits how many deliveries are out at a time, and
  the model allows any number. The delay before a retry is any delay.
* What the handler writes to its channel stays on the wire until the broker
  processes it. The broker processes a channel in order, so a DLX publish and
  the ack behind it are one entry of the wire with two steps. When the channel
  dies the entries it still has are void and the broker requeues their originals.
* The republish of a stale delivery goes to the new connection, where nothing
  confirms it, and its ack fails on the dead one: it is routed or it is not.
* Messages the broker holds are durable: queues, exchanges and messages are
  declared so. A broker that loses its disk is outside the model. So is the
  broker dropping an event for which no queue is bound (the publish is not
  `mandatory`): each consumer's queue is taken to exist before its producer's
  first event.
* In `Delivery` a connection fails as a whole; `ChannelLoss` adds channels that
  close on their own.
* The service modules take that spine as given. A handler's settlement is one
  step with two outcomes, acked or delivered again; a retry is a copy that
  comes back later; exhausted attempts park. That the republish of a retry and
  the ack of its original are two steps, with a drop between them, is in
  `Delivery` and not repeated there. A publish that the relay repeats
  is a duplicate. What they keep of it is what reorders, duplicates or drops
  the events the service has to cope with.
* `SimSession`: a driver's index stands for its master id, and times are
  milliseconds of the session's virtual clock. The random draws (out-lap
  offsets, lap times, where a stray scan falls) are all choices of `Generate`.
  Ids of sessions, and correlation ids, are numbers in the order of the track.
  The code's stable sort of the crossings is taking the earliest one left, the
  first of the equal ones, again and again.
* `TimingRun`: a cancelled context and a crash look the same to the database,
  and are one action; a failed call is another, since it ends the simulator and
  not the process. Pacing (`sleep`) only sets when an event goes out. The
  consumer of `driver.pr_updated` is the action `Refresh`: at any moment of the
  run, whatever transaction is next, any record of `Confirmed` replaces the
  local one, faster or slower. `Confirmed` is any set of records, so the
  confirmations of other days, retried and overtaken ones are among them;
  `PersonalRecord` says which really come. Two histories, `known` and `cutOff`,
  remember what Driver has been told or has confirmed, and whose break a stop
  has cut off.
* `PersonalRecord`: one driver, since nothing relates two. Events reach Driver
  in any order and once each, as its inbox sees to. Updates reach Timing in
  order except for the retried ones; a refresh that is delivered again right
  away writes the same value and is left out.
* `Identity`: a master id is its place in the order of minting. Envelope ids
  are drawn from a small set and recycled when no message carries them; the
  inbox row of such an id is dropped with the last copy, since nothing can look
  at it again. An event for which no queue is bound is dropped, here, because
  Timing really may publish a lookup before Identity has declared its queue.
* `Leaderboard`: the feed is a fixed sequence of events. Within a session it is
  in the order of the events' times. Between sessions it is in no order: an
  outbox row carries the virtual time of its event (`EnqueueEnvelope`) and the
  relay goes by it (`FetchPending`), so that when the bus has been away a new
  session may be published before the late laps, the end or the reconciled
  session of the one before it. Whatever fails waits in the retry queue and is
  overtaken; `overtaken` records that, for the moment of a best, which is
  compared in order only. A transaction reports as applied what the code does:
  a row inserted, or the rows that the WHERE clause of its guarded UPDATE
  matches (`StartMatches`, `EndMatches`). `finished` and `active` are what the
  board shows; `implicit` shows as active.
* `BoardPush`: the process dials at its start or fails, so a restart needs the
  bus, and the supervisor adopts the first connection. A snapshot is two steps,
  read and stamp. The hub's lock, each of the three selects of `broadcast` and
  the unlock are steps of their own; a screen reads its channel between any two
  of them. A screen is added to the hub before it reads its first snapshot.

## Runs

| Run | Instance | Shows |
|---|---|---|
| `outbox` | three rows, the second invalid; batch of two; backoff 1 to 3; three faults | the seven properties below |
| `delivery` | a handled, an ignored and a poison message, two attempts, one fault | each kind meets a fault in every state |
| `dlx_private` | two consumers, an exchange each, five attempts | failures stay apart, the budget is exact |
| `dlx_shared` | the same on one exchange, three attempts | expected violation: the budget is exceeded |
| `channel_loss` | one message, one fault | expected violation: nothing subscribes again |
| `timing` | two drivers, one with a transponder; two laps each of one to three milliseconds against a minimum of two; one stray scan, an outage of one crossing, one out-of-session lap; two sessions, one stop; a confirmed record of the first driver, at any time | a session's events and side effects, below |
| `records` | four laps of three possible times, one retried update | the two copies of a record |
| `record_dropped` | two laps, Timing may stop between transactions | expected violation: a detected record is never announced |
| `record_stale` | two laps, one retried update | expected violation: an older confirmation stays |
| `identity` | rosters of two drivers, of one mailbox in two spellings, and of a malformed address; two attempts, two faults, one erasure, one crash of Timing | registration and erasure, below |
| `board` | a whole session, and two sessions that cross, with an equal lap; one fault, one loss of the bus, one restart, one screen with a buffer of one | the read model and its way to the screens, below |
| `board_stale` | the same | expected violation: a live frame is pushed last |

Why the bounds are enough. A batch of two over three rows makes the limit bite
and lets the invalid row fall at the end of one batch or the start of another.
Three faults let the retry of a retry fail. With two attempts a message is
retried once and then parked, which are the two sides of the budget; more
attempts repeat the first. In `timing` lap times fall below, on and above the
minimum; two laps give a driver a lap on either side of a missed crossing, and
the stray scan and the outage can hit anything. The second session finds what a
stop left behind. The confirmed record, of the slowest time, seeds a driver that
has none, raises a faster record and is beaten again. In `records` four laps hold a break, a faster one that
crosses its confirmation, a lap between the two and one more. In `identity` two
requests let a reply to the first reach the second, and one crash separates the
inbox row from its signal. In `board` a buffer of one is full at the second
frame, and the screen may read between any two selects; one restart falls
anywhere between two events. The two feeds hold a start, an end, an equal lap,
laps without a start, a change of session and a late lap of the session left; a
retry makes a start come after its lap or after its end. `board` and `timing`
have two to three million states and take one to three minutes each.
The theorems drop the bounds of every passing run, for all but liveness.

Properties of `outbox`: `SentOnlyAfterAck`, `QuarantineExact`,
`CopiesNeedFaults` (an extra copy costs a fault), `OldestFirst`,
`EveryRowSettles` (liveness), `ImplementsAtLeastOnce` (refinement) and `TypeOK`
with the bounds of the backoff.

Of `delivery`: `NeverLost`, `EffectOnce`, `ParkedForCause`,
`NoFaultNoDuplicate` (the retry path itself never duplicates),
`EventuallyDrained` (liveness), `ImplementsEffectivelyOnce` (refinement) and
`TypeOK` with the retry count's bound.

Of `timing`: `HonestLaps` (a counted lap is the time between two crossings that
were seen, and spans no missed one), `EveryLapCounted` (none that qualifies is
left out), `SummaryAgrees` (`session.ended` against the laps), and, across
stops, `HeldBeforeSession`, `OutageRecorded`, `ReconcileFollows` and
`RecordsAnnounced` (no lap examined, and no record held, is faster than what
Driver was told or has confirmed). `OutageRecorded` speaks of a run under way: a
stop between `scanner.offline` and its row leaves no row. `RecordsAnnounced`
leaves out the drivers whose break a stop cut off, which is the finding of
`record_dropped`. The first two are a reference definition over the raw
crossings, against which the trackers, the outage window and the resets are
checked.

Of `records`: `BreakReachesDriver`, `NoRecordMissed` (the canonical record is a
lap that was driven, and the fastest), `ConvergesInOrder` and
`EventuallyConfirmed` (liveness). Of `identity`: `OneIdPerMailbox`, `RightId`,
`ErasedForGood`, `EveryDriverResolves`, `HeldOnRecord` and `ErasureSettles`
(liveness) and `TypeOK` with the one-slot channel. Of `board`: `BestsExact` and
`StatusExact` (the tables against the set of events applied, in any order),
`SeqDistinct`, `NewestKept`, `BoardsCatchUp` (the last frame broadcast shows the
stored board, unless a read failed or two pushes overlapped) and
`MovesOnFirstSight` (an action property: the board moves to a session when it is
first heard of and never back to one it has left). That an old session whose
first event comes late becomes the current board is how epochs are written, and
the property allows it.

Deadlock is checked in `outbox`, whose timer always fires again, and in
`board`, where screens come and go. The other systems may stop: once everything
is drained, driven or resolved, and no bound is left to spend, there is nothing
to do.

### Findings

* Timing's two consumers share `timing.dlx`. `DeclareDLQTopology` binds each
  consumer's queues with the same three keys, so a direct exchange copies a
  retry or a park of one to both, and a consumer's own copies double with
  each hop (`dlx_shared`). A comment promises each consumer its own DLX. The
  other consumer ignores the foreign event type, and the inbox (or the
  idempotent refresh) absorbs the extra attempts, so the damage is to the
  attempt budget and to the parking queues.
* A channel that closes without its connection ends the pump, and the
  supervisor, which watches the connection, never learns of it
  (`channel_loss`). The comment in `pump` says the supervisor reconnects.
* `observePR` commits the faster record and announces it in two transactions. A
  crash, or an ordinary SIGTERM, between them leaves a record that was detected
  and is never announced (`record_dropped`); two comments say that cannot be.
* `Refresh` overwrites whatever is stored, and a `driver.pr_updated` that was
  retried comes after those that followed it: Timing's copy can stay on an older
  value (`record_stale`), where comments promise latest-confirmed-wins. It costs
  no record: laps that are no breaks pass for breaks, and Driver knows better
  (`NoRecordMissed` holds with retries).
* Two goroutines push boards, and each stamps its frame before it has the hub's
  lock. A frame stamped live just before the bus is lost can be broadcast after
  the one that says it is lost (`board_stale`), and nothing follows it until the
  bus is back, although the flag is meant never to be faked.

### Fairness

`OutboxRelay`: weak fairness of the relay loop (its timer is always set again,
to a capped delay), of the broker's answer to a publish it holds, of the
supervisor's dial (it retries for ever) and of the restart (the container's
restart policy). Kicks get none: the timer alone must suffice. Faults get none.
`Delivery`: weak fairness of the broker, of the handler goroutine, of the
supervisor and of the restart. The handler's fairness is on the disjunction of
its steps, so a transaction may fail every time.
`PersonalRecord`: weak fairness of Timing's emit path and of Driver's consumer;
refreshes need none. `RegisterFirst`: weak fairness of both consumers, of
Identity's relay and queue declaration, of the lookup loop and of the restart;
strong fairness of `Receive`, since the retry timer takes the waiter out of its
select again and again, and a waiter that comes back to a filled channel takes
it at once. The erasure requester and the faults get none. `TimingRun` and
`BoardPush` state safety only.

## Proofs

`tlapm` checks the eight proof modules to the last leaf. Every invariant, the
action property and both refinements of the passing runs are theorems, for every
value of the constants. What is assumed of the constants is in the modules that
declare them, and TLC evaluates it on each run:

| Module | Assumes | Holds for every |
|---|---|---|
| `OutboxRelayProofs` | `ConstantsOK` | table, batch size, backoff, number of faults |
| `DeliveryProofs` | `DeliveryConstantsOK` | set of messages, attempt budget, number of faults |
| `DlxRoutingProofs` | `RoutingConstantsOK`; the theorems also `Private` | set of consumers with an exchange each, attempt budget |
| `PersonalRecordProofs` | `RecordConstantsOK` | sequence of laps, number of retries |
| `RegisterFirstProofs` | `IdentityConstantsOK` (finitely many addresses), `RostersOK` | roster, attempt budget, number of faults, erasures and crashes |
| `BoardPushProofs` | `FeedOK`, `FeedInOrder` (within a session, times never go back along the feed), `PushConstantsOK` | feed, sessions mixed in any way, set of screens, buffer size |
| `SimSessionProofs` | `KnobsOK`, `DrawsOK` | roster, draws, minimum, outage and stray scans |
| `TimingRunProofs` | these and `RunConstantsOK` | set of confirmed records, number of sessions and of stops |

`FeedInOrder` is how Timing produces a session's events, through an outbox that
publishes in the order of their times; reordering by retries is in the model,
not in the feed. Only the moment of a best in `BestsAreExact` depends on it. `Private` says that no two consumers share an exchange: without it the
run `dlx_shared` is the counterexample.

*Outbox.* None of the safety properties is inductive. `IInv` adds what ties the
relay's memory to the table and the broker: the batch is made of rows still
pending, and the row being confirmed or marked is valid (`BatchInv`); a row
about to be marked is one the broker holds (`AckInv`); every pending row that is
neither in the batch nor newly inserted is newer than the whole batch
(`OrderInv`); the copies of a row, the orphans that may still become copies and
the publish outstanding are at most as many as the faults, plus one once the row
is sent or being published (`CopyInv`). From it follow `TypeCorrect`,
`SentIsHeld`, `QuarantineIsExact`, `CopiesBounded`, `PublishesOldestFirst` and,
step by step, `Refinement`.

*Delivery.* `IInv` adds that a copy anywhere, at the broker, on the wire or in
the hands of a stale pump, is of a message that was sent and carries no more
retries than that message had failed transactions (`CopyInv`), that the handler
goes to "retry", "park" or "ack" only with cause (`HandlerInv`), and that the
same holds of what it has written to its channel (`WireInv`). The last one is
what `NeverLost` needs: a publish that the broker processes after the handler
has forgotten it must still be right. From it follow `TypeCorrect`,
`NothingLost`, `AppliedOnce`, `ParkingIsJustified` and `Refinement`, where a
step that moves a copy between places is a stutter, the ack of a message's last
copy is a release, and a stale retry that finds its way to the new connection
is a revival.

Without faults more is true, and `CleanInv` says it: as long as no fault has
happened a message is in one copy in one place (`Single`), that copy is of no
parked message, and of an applied one only until its ack (`Pending`), a message
is parked at most once and never as well as applied (`EndsOnce`), and nothing
stale or negatively acknowledged is about (`NoRemains`). From it follows
`RetryPathNeverDuplicates`.

*DLX routing.* With private exchanges the inductive invariant is that a message
is in one copy, in its own consumer's queues (`Isolation`), whose retry count is
the number of attempts made on it (`CopyInv`), and that it is parked only when
its attempts are spent (`BudgetInv`). From it follow `PrivateDlxIsolates` and
`PrivateDlxKeepsBudget`.

*Personal records.* The two copies disagree most of the time, so what is
inductive is what each may still hear. `IInv` adds: whatever Timing holds is
covered, by the canonical value, by a break on its way or by one about to be
enqueued (`LocalInv`, which is `BreakReachesDriver`); the same of every lap
already examined, so that an optimistic advance or a late refresh hides none
(`LapsInv`); an update in the queue or in retry is no faster than the canonical
value (`UpdatesInv`); what Driver stores or is told of is the time of a lap
(`DrivenInv`); and, as long as nothing was retried, the last update on
its way is the canonical value and, with none on its way, Timing differs from
Driver only by a faster time that is announced (`InOrderInv`). From it follow
`DetectedIsAnnounced`, `CanonicalIsFastest` and `CopiesConverge`, of the
specification without interruptions: with them the first is the finding above.

*Register-first.* A driver's id passes through a lookup, Identity's table, a
reply, an inbox row and a one-slot channel, any of which may be old when it is
read. `IInv` says what each may still hold. A lookup that belongs to the
`Resolve` under way carries its driver's address (`QueueInv`), and an answer to
it, wherever it is, that driver's id (`ReplyInv`, `ChannelInv`); the rows of Identity agree
with the history of minting, and a mailbox loses its row only by being
suppressed (`TableInv`); the drivers resolved so far have the ids of their
mailboxes (`SimInv`). That a recycled envelope id is never one a message still
carries is a pigeonhole argument over the finite set of ids. From it follow
`Typing`, `MailboxHasOneId`, `DriverGetsRightId` and `ErasureIsForGood`.

*Leaderboard and its screens.* The tables are compared with the set of events
applied, whatever their order: `StoreInv` is `BestsExact`, `StatusExact` and
`SeqDistinct` together with what they need of the sequence numbers (`SeqInv`),
of which sessions have a row (`KnownInv`), that no two have the same epoch
(`EpochInv`) and, as long as nothing was put off, that what is applied is the
feed up to the message at the head (`OrderInv`). With the epochs apart, a step
that adds a session puts it on top, and no other step moves the highest one.
`PushInv` adds where each pusher and each screen is, and what the three selects
rely on: only the hub's holder writes to a channel, so room made for the frame
is there when it is offered again (`HubInv`).
`CatchInv` follows one push with no other beside it: what the pusher has read,
or carries in its frame, is the board as stored, since a visible change begins
another push (`Carries`); that it does is where the reported rows come in. From
these follow `BestsAreExact`, `StatusIsExact`, `SeqsAreDistinct`,
`ScreensKeepNewest`, `ScreensCatchUp` and the action property
`BoardMovesOnFirstSight`.

*A simulated session.* The generators are recursive functions over the
crossings, and the library's induction theorems, which take an operator as a
parameter, are out of the prover's reach. The proofs use the least element
instead: of the places where a claim fails, a set of naturals, one is the first
(`LeastElement`), and the step before it refutes that. The claim is `FoldInv`:
after `n` crossings each driver's tracker is what the crossings seen so far make
it, its laps are honest and none is missing (`DriverInv`), and the same of the
outage rows (`OutageInv`) and the held scans (`HeldInv`). `CrossingsAre` shows
that the sort yields all crossings in the order of time. From them follow
`GeneratedSession` and `ReconciledSession`, which say of every roster and every
draw that the events of a session are the ones its crossings call for.

*A run of Timing.* The invariant ties the tables to the script of the session:
the log tells an initial part of it, what is left to emit is the rest, and
reconciled rows follow the end (`ScriptInv`); the event in hand is the last of
the log (`HandInv`); and the tables of scanners and held scans are what the log
so far calls for, up to the step in hand (`ScannerInv`, `HeldScanInv`). Of the
records, which a refresh may move either way between two laps, what is inductive
is that what is known covers them: no lap heard of, and no record held, is
faster than the fastest announced or confirmed, except a break between its two
transactions (`RecordInv`). With the theorems about sessions it gives `LapsAreHonest`,
`LapsAreCounted`, `SummariesAgree`, `ScansAreHeldFirst`, `OutagesAreRecorded`,
`ReconciledComesAfter` and `RecordsAreAnnounced`, whatever stops the run and
however often.

Checked by TLC only: the liveness properties (`EveryRowSettles`,
`EventuallyDrained`, `EventuallyConfirmed`, `EveryDriverResolves`,
`HeldOnRecord`, `ErasureSettles`), since liveness under fairness is beyond the
prover, and the five runs that end in a violation.

## Plan

What is left, in order.

1. `DriverRelay`: the Python relay, whose publish waits for no confirm and
   whose threads may overlap across cycles, against `AtLeastOncePublish`.
2. `Pipeline`: an outbox composed with a delivery, the abstract specifications
   as interfaces, and the proof that an event committed on one side is applied
   at most once on the other.

## Not modelled

Heartbeat (a ticker nothing depends on), logging, the loading of configuration
other than the simulator's knobs, envelope formatting and schema validation
(data conversion; validity appears as sets), the contract and its generated
types, the one-time queue migration, static files, deployment. Driver's profiles and session summaries, which no other service
reads back, and the Python library, which is next in the plan.
