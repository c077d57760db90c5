---------------------------- MODULE MCLifecycle ----------------------------
(* Lifecycle where more connections come than have a place. *)
EXTENDS Lifecycle

ASSUME PlacesRunOut == MaxConnections < MaxConns
=============================================================================
