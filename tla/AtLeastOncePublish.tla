------------------------- MODULE AtLeastOncePublish -------------------------
(***************************************************************************)
(* What a transactional outbox promises, with no relay, connection or      *)
(* crash in sight: an event a service committed is owed to the bus until   *)
(* the broker holds at least one copy of it, or until it is rejected       *)
(* because it does not satisfy the contract.  Extra copies are allowed.    *)
(***************************************************************************)
EXTENDS Naturals

CONSTANTS Rows,   \* the outbox rows (envelope ids) that may ever be produced
          Valid   \* those whose payload satisfies /contract

VARIABLES produced,   \* rows committed by a producer
          owed,       \* produced rows that are neither retired nor rejected
          published   \* copies of each row the broker has accepted

vars == <<produced, owed, published>>

Init ==
  /\ produced \in SUBSET Rows
  /\ owed = produced
  /\ published = [r \in Rows |-> 0]

Produce(r) ==
  /\ r \notin produced
  /\ produced' = produced \cup {r}
  /\ owed' = owed \cup {r}
  /\ UNCHANGED published

Publish(r) ==
  /\ r \in produced \cap Valid
  /\ published' = [published EXCEPT ![r] = @ + 1]
  /\ UNCHANGED <<produced, owed>>

(* A row stops being owed only once the broker holds it ...                *)
Retire(r) ==
  /\ r \in owed
  /\ published[r] > 0
  /\ owed' = owed \ {r}
  /\ UNCHANGED <<produced, published>>

(* ... or because it can never be published.                               *)
Reject(r) ==
  /\ r \in owed \ Valid
  /\ owed' = owed \ {r}
  /\ UNCHANGED <<produced, published>>

Next ==
  \E r \in Rows : Produce(r) \/ Publish(r) \/ Retire(r) \/ Reject(r)

Spec == Init /\ [][Next]_vars
=============================================================================
