--------------------------- MODULE MCClientLanes ---------------------------
(***************************************************************************)
(* ClientLanes with one long-lived lane and two streams at a time, so that *)
(* two bulk publishes, or one beside the lane's stream, use up the credit. *)
(***************************************************************************)
EXTENDS ClientLanes
=============================================================================
