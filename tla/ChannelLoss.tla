---------------------------- MODULE ChannelLoss ----------------------------
(***************************************************************************)
(* Module Delivery with one more fault: the broker closes the consumer's   *)
(* channel, or cancels its subscription, and leaves the connection up (an  *)
(* acknowledgement that took too long, a queue that was deleted).  The     *)
(* delivery stream ends and the pump returns (messaging/consumer.go), but  *)
(* the supervisor watches the connection only: the channel that establish  *)
(* returns closes when the connection does.                                *)
(***************************************************************************)
EXTENDS Delivery

ChannelClosed ==
  /\ conn = "up"
  /\ Fault
  /\ conn' = "mute"
  /\ ChannelGone

LossyNext == Next \/ ChannelClosed

LossySpec == Init /\ [][LossyNext]_vars /\ Fairness

(* A pump that ended is always followed by a new subscription: "this       *)
(* generation's connection dropped; supervisor reconnects".                *)
Resubscribes == conn # "up" ~> conn = "up"
=============================================================================
