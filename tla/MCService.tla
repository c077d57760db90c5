----------------------------- MODULE MCService -----------------------------
(* Service with a key for every start, so that a start never lacks one. *)
EXTENDS Service

ASSUME EnoughKeys == Cardinality(Keys) >= MaxStarts
=============================================================================
