------------------------------ MODULE MCRooms ------------------------------
(* Rooms and sessions on a small instance; endpoints are interchangeable.  *)
EXTENDS Rooms, TLC

Symmetry == Permutations(Peers)
=============================================================================
