------------------------------ MODULE Outbound ------------------------------
(***************************************************************************)
(* What the queues behind one Outbound handle have in common: the tasks    *)
(* that push to them and the sizes of the frames.  Outbox models the       *)
(* session, control and interactive queues, BulkQueue the bulk lane.       *)
(***************************************************************************)
EXTENDS Integers, Sequences, FiniteSets, Functions

CONSTANTS
  Pushers,  \* tasks that hold a MemberHandle of the connection
  Sizes     \* sizes of queued frames

ASSUME OutboundAssumption ==
  /\ IsFiniteSet(Pushers)
  /\ Sizes \subseteq Nat \ {0}
=============================================================================
