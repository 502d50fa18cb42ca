----------------------------- MODULE MCPubHandler ----------------------------
(***************************************************************************)
(* PubHandler with a lidar that sends enough packets for two frames and    *)
(* one that sends fewer.                                                   *)
(***************************************************************************)
EXTENDS PubHandler, TLC

CONSTANTS l1, l2, MaxClock1, MaxClock2

MCMaxClock == (l1 :> MaxClock1) @@ (l2 :> MaxClock2)
==============================================================================
