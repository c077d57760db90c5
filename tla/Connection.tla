----------------------------- MODULE Connection ----------------------------
(***************************************************************************)
(* The streams of one connection together: the session stream towards the  *)
(* client (SessionStream), and the readers of all others (FrameReaders).   *)
(* They share the connection: it may be lost under all of them, and the    *)
(* SFU closes it when a reader meets a bad length prefix, with what is in  *)
(* flight on the session stream.                                           *)
(***************************************************************************)
EXTENDS SessionStream, FrameReaders

CONSTANTS
  Quota(_, _),  \* bound: how many items are queued, with these contents, once
                \* this one is
  Drops(_)      \* bound: the receivers that the application may drop with them

vars == <<session, readers>>

Init == SessionInit /\ ReadersInit

\* The session stream alone.
Push(item) == Len(queued) < Quota(content, item) /\ Queue(item) /\ UNCHANGED readers
WriteNext == (WriteEvent \/ WriteChunk \/ WriteFails) /\ UNCHANGED readers
PumpNext == PumpStep /\ UNCHANGED readers

\* The application's ends of the two channels of its Inbox.
ReceiveNext == Receive /\ UNCHANGED readers
DropNext ==
  \/ "frames" \in Drops(content) /\ DropFrames /\ UNCHANGED readers
  \/ "deliveries" \in Drops(content) /\ DropDeliveries /\ UNCHANGED session

\* The connection is lost under all streams, or session_writer gives a stalled
\* client up and closes it.
LoseAll == (\E n \in 0 .. Len(wire) : Lose(n)) /\ Go
StallNext == Stall /\ Go

\* A reader closes the connection, with all but the first frames in flight.
Cut == IF lost THEN UNCHANGED session ELSE \E n \in 0 .. Len(wire) : Lose(n)

\* A reader's step; closing the connection ends the session stream too.
Read(s) == Step(s) /\ IF closed' # closed THEN Cut ELSE UNCHANGED session

Next ==
  \/ \E item \in Items : Push(item)
  \/ WriteNext
  \/ PumpNext
  \/ ReceiveNext
  \/ DropNext
  \/ LoseAll
  \/ StallNext
  \/ \E s \in Streams : Read(s)

Spec == Init /\ [][Next]_vars /\ SessionFairness
=============================================================================
