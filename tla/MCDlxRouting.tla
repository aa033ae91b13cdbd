---------------------------- MODULE MCDlxRouting ----------------------------
(* Two consumers with a message each.  Private: every consumer names its   *)
(* own exchange, as Leaderboard, Identity and Driver do.  Shared: both of  *)
(* Timing's consumers name timing.dlx.                                     *)
EXTENDS DlxRouting, TLC

CONSTANTS resolved, prUpdated, resolvedQueue, prUpdatedQueue

MCQueues == {resolvedQueue, prUpdatedQueue}
MCMsgs == {resolved, prUpdated}
MCHomeOf == resolved :> resolvedQueue @@ prUpdated :> prUpdatedQueue
PrivateDlx == resolvedQueue :> "dlx1" @@ prUpdatedQueue :> "dlx2"
SharedDlx == [q \in MCQueues |-> "timing.dlx"]
=============================================================================
