----------------------------- MODULE MCDelivery -----------------------------
(* A message of each kind and one fault, so that a fault meets every       *)
(* combination of them in every state.  The invariants are proved for any  *)
(* number of faults in module DeliveryProofs.                              *)
EXTENDS Delivery
=============================================================================
