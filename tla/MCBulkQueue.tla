---------------------------- MODULE MCBulkQueue ----------------------------
(* BulkQueue where some delivery is longer than the whole budget. *)
EXTENDS BulkQueue

ASSUME OversizedDelivery == \E size \in Sizes : size > Budget
=============================================================================
