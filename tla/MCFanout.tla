------------------------------ MODULE MCFanout ------------------------------
(* Fanout with interchangeable endpoints. *)
EXTENDS Fanout, TLC

Symmetry == Permutations(Peers)
=============================================================================
