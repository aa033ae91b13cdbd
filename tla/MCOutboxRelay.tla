--------------------------- MODULE MCOutboxRelay ---------------------------
(* Three rows, the middle one left behind invalid by an earlier            *)
(* deployment; a batch of two, so that a drain never covers the table;     *)
(* three faults, so that the retry of a retry can itself be disturbed.     *)
EXTENDS OutboxRelay
=============================================================================
