------------------------------ MODULE Identity ------------------------------
(***************************************************************************)
(* The Identity service: the one owner of masterIds.  It takes lookups and *)
(* erasure requests off one queue and handles each in one transaction      *)
(* (services/identity/internal/consumer; libs/go-pitwall/erasure).         *)
(*                                                                         *)
(* A masterId is its place in the order of minting.  An envelope id is     *)
(* drawn from a small set and drawn again once no message carries it; the  *)
(* inbox row of an id that no message carries can no longer be observed    *)
(* and is dropped with the last copy.                                      *)
(***************************************************************************)
EXTENDS Naturals, Sequences, FiniteSets

CONSTANTS Addresses,    \* email addresses as drivers spell them
          Normalized,   \* NormalizeEmail: the mailbox of each address
          Malformed,    \* the addresses the contract's schema rejects
          MaxAttempts,  \* Policy.MaxAttempts
          MaxQueue,     \* bound on Identity's queue
          MaxReplies,   \* bound on the outbox, and on the queue of replies
          MaxFaults,    \* bound on failures and lost acks
          MaxErasures   \* bound on the erasure requests

ASSUME IdentityConstantsOK ==
  /\ IsFiniteSet(Addresses)
  /\ DOMAIN Normalized = Addresses
  /\ Malformed \subseteq Addresses
  /\ MaxAttempts \in Nat \ {0}
  /\ MaxQueue \in Nat \ {0}
  /\ MaxReplies \in Nat \ {0}
  /\ MaxFaults \in Nat
  /\ MaxErasures \in Nat

VARIABLES
  bound,       \* Identity's queue exists and is bound to frontend.events
  queue,       \* that queue
  seen,        \* Identity's inbox
  rows,        \* identities: the masterId of each mailbox
  minted,      \* history: the mailbox each masterId was minted for
  suppressed,  \* email_suppressions
  tombstones,  \* identity_tombstones
  held,        \* held_lookups, by request
  erased,      \* the masterIds whose privacy.erased is in the outbox
  outbox,      \* identity.resolved replies to publish
  parked,      \* parked erasure requests, by masterId
  asked,       \* erasure requests so far
  faults       \* faults so far

identityVars == <<bound, queue, seen, rows, minted, suppressed, tombstones,
                  held, erased, outbox, parked, asked, faults>>

Mailboxes == {Normalized[a] : a \in Addresses}
NoMaster == 0   \* no row; in an erasure request, a masterId nobody has
Masters == 0..Cardinality(Mailboxes)

Carried(q) == {q[i].id : i \in DOMAIN q}
FreshId(used) == CHOOSE i \in 1..(Cardinality(used) + 1) : i \notin used

IdentityInit ==
  /\ bound = FALSE
  /\ queue = <<>>
  /\ seen = {}
  /\ rows = [m \in Mailboxes |-> NoMaster]
  /\ minted = <<>>
  /\ suppressed = {}
  /\ tombstones = {}
  /\ held = {}
  /\ erased = {}
  /\ outbox = <<>>
  /\ parked = {}
  /\ asked = 0
  /\ faults = 0

Fault == faults < MaxFaults /\ faults' = faults + 1

(***************************************************************************)
(* The broker's side.  An exchange drops what no queue is bound for, and   *)
(* confirms it all the same.                                               *)
(***************************************************************************)
Bind ==
  /\ ~bound
  /\ bound' = TRUE
  /\ UNCHANGED <<queue, seen, rows, minted, suppressed, tombstones, held,
                 erased, outbox, parked, asked, faults>>

Submit(type, req, addr, master) ==
  /\ Len(queue) < MaxQueue
  /\ queue' = IF bound
              THEN Append(queue, [id |-> FreshId(Carried(queue)), type |-> type,
                                  req |-> req, addr |-> addr, master |-> master,
                                  tries |-> 0])
              ELSE queue

(* The erasure saga's requester: it knows the masterIds Identity minted,   *)
(* may ask twice for one, and may name one that was never minted.          *)
RequestErasure ==
  /\ asked < MaxErasures
  /\ asked' = asked + 1
  /\ \E m \in {NoMaster} \cup DOMAIN minted :
       Submit("erasure_requested", 0, CHOOSE a \in Addresses : TRUE, m)
  /\ UNCHANGED <<bound, seen, rows, minted, suppressed, tombstones, held,
                 erased, outbox, parked, faults>>

(***************************************************************************)
(* Handler.Process.  The message at hand is the head of the queue; it is   *)
(* gone once acked, and comes back when the ack is lost.                   *)
(***************************************************************************)
Msg == Head(queue)
Mailbox == Normalized[Msg.addr]

Arrived(type) == queue # <<>> /\ Msg.type = type
Fresh == Msg.id \notin seen

Settle(marked) ==
  /\ \/ queue' = Tail(queue) /\ UNCHANGED faults
     \/ queue' = queue /\ Fault
  /\ seen' = (seen \cup marked) \cap Carried(queue')

IgnoreDuplicate ==
  /\ queue # <<>>
  /\ ~Fresh
  /\ Settle({})
  /\ UNCHANGED <<bound, rows, minted, suppressed, tombstones, held, erased,
                 outbox, parked, asked>>

(* The mutant forgets the durable record of the hold.                      *)
HoldUnrecorded ==
  /\ Arrived("lookup_requested") /\ Fresh
  /\ Mailbox \in suppressed
  /\ Settle({Msg.id})
  /\ UNCHANGED <<bound, rows, minted, suppressed, tombstones, held, erased,
                 outbox, parked, asked>>

HoldLookup ==
  /\ Arrived("lookup_requested") /\ Fresh
  /\ Mailbox \in suppressed
  /\ held' = held \cup {Msg.req}
  /\ Settle({Msg.id})
  /\ UNCHANGED <<bound, rows, minted, suppressed, tombstones, erased, outbox,
                 parked, asked>>

ResolveOrMint ==
  IF rows[Mailbox] = NoMaster
  THEN /\ minted' = Append(minted, Mailbox)
       /\ rows' = [rows EXCEPT ![Mailbox] = Len(minted')]
  ELSE UNCHANGED <<minted, rows>>

(* usedIds: the envelope ids of the replies that still travel.  The mutant *)
(* replies only to the lookup that mints.                                  *)
Reply(usedIds) ==
  [id |-> FreshId(usedIds), req |-> Msg.req, master |-> rows'[Mailbox], tries |-> 0]

AnswerMintOnly(usedIds) ==
  /\ Arrived("lookup_requested") /\ Fresh
  /\ Mailbox \notin suppressed
  /\ Len(outbox) < MaxReplies
  /\ ResolveOrMint
  /\ outbox' = IF rows = rows' THEN outbox ELSE Append(outbox, Reply(usedIds))
  /\ Settle({Msg.id})
  /\ UNCHANGED <<bound, suppressed, tombstones, held, erased, parked, asked>>

AnswerLookup(usedIds) ==
  /\ Arrived("lookup_requested") /\ Fresh
  /\ Mailbox \notin suppressed
  /\ Len(outbox) < MaxReplies
  /\ ResolveOrMint
  /\ outbox' = Append(outbox, Reply(usedIds))
  /\ Settle({Msg.id})
  /\ UNCHANGED <<bound, suppressed, tombstones, held, erased, parked, asked>>

(* The slice of a masterId: LookupEmail, then DeleteSlice.  One that has   *)
(* no row leaves nothing to suppress.  The mutants delete the row without  *)
(* suppressing the mailbox, and suppress it without deleting the row.      *)
DeleteUnsuppressed(master) ==
  /\ rows' = [m \in Mailboxes |-> IF rows[m] = master THEN NoMaster ELSE rows[m]]
  /\ UNCHANGED suppressed

SuppressOnly(master) ==
  /\ suppressed' = suppressed \cup
       {m \in Mailboxes : rows[m] = master /\ master # NoMaster}
  /\ UNCHANGED rows

DeleteSlice(master) ==
  /\ suppressed' = suppressed \cup
       {m \in Mailboxes : rows[m] = master /\ master # NoMaster}
  /\ rows' = [m \in Mailboxes |-> IF rows[m] = master THEN NoMaster ELSE rows[m]]

Erase ==
  /\ Arrived("erasure_requested") /\ Fresh
  /\ DeleteSlice(Msg.master)
  /\ tombstones' = tombstones \cup {Msg.master}
  /\ erased' = erased \cup {Msg.master}
  /\ Settle({Msg.id})
  /\ UNCHANGED <<bound, minted, held, outbox, parked, asked>>

(* The transaction fails and rolls back; retryOrPark counts the attempts.  *)
(* The copy for the retry queue is published before the original is acked. *)
(* The mutant acks and forgets.                                            *)
Retried(msg) == [msg EXCEPT !.tries = @ + 1]

FailAndForget ==
  /\ queue # <<>> /\ Fault
  /\ queue' = Tail(queue)
  /\ seen' = seen \cap Carried(queue')
  /\ UNCHANGED <<bound, rows, minted, suppressed, tombstones, held, erased,
                 outbox, parked, asked>>

ProcessingFails ==
  /\ queue # <<>> /\ Fault
  /\ IF Msg.tries + 1 >= MaxAttempts
     THEN /\ parked' = IF Msg.type = "erasure_requested"
                       THEN parked \cup {Msg.master} ELSE parked
          /\ queue' = Tail(queue)
     ELSE /\ queue' = Append(Tail(queue), Retried(Msg))
          /\ UNCHANGED parked
  /\ seen' = seen \cap Carried(queue')
  /\ UNCHANGED <<bound, rows, minted, suppressed, tombstones, held, erased,
                 outbox, asked>>

IdentityNext(usedIds) ==
  \/ Bind
  \/ RequestErasure
  \/ IgnoreDuplicate
  \/ HoldLookup
  \/ AnswerLookup(usedIds)
  \/ Erase
  \/ ProcessingFails

(* Identity's consumer loop and its relay run for ever.                    *)
Handle(usedIds) ==
  \/ IgnoreDuplicate
  \/ HoldLookup
  \/ AnswerLookup(usedIds)
  \/ Erase
=============================================================================
