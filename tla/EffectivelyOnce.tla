-------------------------- MODULE EffectivelyOnce --------------------------
(***************************************************************************)
(* What a consumer promises over a broker that delivers at least once: a   *)
(* message that was sent stays queued until the consumer has applied it,   *)
(* ignored it or parked it, and it is applied at most once however often   *)
(* it is delivered.                                                        *)
(***************************************************************************)

CONSTANTS Handled,  \* messages the consumer has a handler for
          Ignored,  \* valid messages of a type it does not handle
          Poison    \* messages that fail validation or decoding

VARIABLES sent,     \* messages a producer has sent
          queued,   \* messages of which the queues hold a copy to process
          applied,  \* messages whose effect the consumer has committed
          parked    \* messages in the parking queue

vars == <<sent, queued, applied, parked>>

Msgs == Handled \cup Ignored \cup Poison

Init == sent = {} /\ queued = {} /\ applied = {} /\ parked = {}

(* A producer sends a message, or sends it again.                          *)
Send(m) ==
  /\ sent' = sent \cup {m}
  /\ queued' = queued \cup {m}
  /\ UNCHANGED <<applied, parked>>

Apply(m) ==
  /\ m \in (sent \cap Handled) \ applied
  /\ applied' = applied \cup {m}
  /\ UNCHANGED <<sent, queued, parked>>

Park(m) ==
  /\ m \in sent \ Ignored
  /\ parked' = parked \cup {m}
  /\ UNCHANGED <<sent, queued, applied>>

(* The last copy leaves the queues only once the message is dealt with.    *)
Release(m) ==
  /\ m \in queued
  /\ m \in applied \cup parked \cup Ignored
  /\ queued' = queued \ {m}
  /\ UNCHANGED <<sent, applied, parked>>

(* A delivery outlives its connection and is put back on the queues.       *)
Revive(m) ==
  /\ m \in sent
  /\ queued' = queued \cup {m}
  /\ UNCHANGED <<sent, applied, parked>>

Next ==
  \E m \in Msgs : Send(m) \/ Apply(m) \/ Park(m) \/ Release(m) \/ Revive(m)

Spec == Init /\ [][Next]_vars
=============================================================================
