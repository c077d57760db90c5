---------------------------- MODULE ClientLanes ----------------------------
(***************************************************************************)
(* What SfuClient sends: concurrent calls of subscribe, announce, publish  *)
(* and publish_to on one connection (send_session, send_lane).  The        *)
(* session stream and the stream of each long-lived lane are behind a      *)
(* mutex; a long-lived lane's stream is opened by the first call and       *)
(* replaced after a write on it failed; a bulk publish has a stream of its *)
(* own.  A call may be dropped wherever it waits, and writing waits        *)
(* between the bytes of a frame.                                           *)
(*                                                                         *)
(* A frame is written in two halves, so a write can be left in its middle. *)
(***************************************************************************)
EXTENDS Naturals, Sequences, FiniteSets

CONSTANTS
  Kept,      \* the long-lived lanes: control and interactive
  Credit,    \* unidirectional streams the SFU lets the client have at a time
  MaxCalls   \* bound: calls in a behaviour

ASSUME ClientAssumption ==
  /\ Kept \cap {"session", "bulk"} = {}
  /\ IsFiniteSet(Kept)
  /\ MaxCalls \in Nat
  /\ Credit \in Nat
  /\ Credit > Cardinality(Kept)

Calls == 1 .. MaxCalls
Lanes == Kept \cup {"session", "bulk"}

\* A lane stream is named after the call that opened it.
SessionStream == 0
Streams == 0 .. MaxCalls
NoStream == MaxCalls + 1
Nobody == 0

\* On a stream, LaneByte is the lane's prefix and n a half of call n's frame.
LaneByte == 0

VARIABLES
  pc,       \* pc[n]: where call n is
  lane,     \* lane[n]: what it sends on
  stream,   \* stream[n]: the stream it writes or wrote on
  left,     \* left[n]: what it still has to write
  holder,   \* holder[l]: the call that holds the mutex of l
  slot,     \* SfuClient::lanes
  wire,     \* wire[s]: what was written on stream s
  status,   \* status[s]: whether the client still has stream s
  stopped,  \* streams the SFU stopped reading
  closed    \* the connection is closed

vars == <<pc, lane, stream, left, holder, slot, wire, status, stopped, closed>>
peerVars == <<stopped, closed>>
callVars == <<lane, stream, left>>

Init ==
  /\ pc = [n \in Calls |-> "unused"]
  /\ lane = [n \in Calls |-> "session"]
  /\ stream = [n \in Calls |-> NoStream]
  /\ left = [n \in Calls |-> 2]
  /\ holder = [l \in Kept \cup {"session"} |-> Nobody]
  /\ slot = [l \in Kept |-> NoStream]
  /\ wire = [s \in Streams |-> <<>>]
  /\ status = [s \in Streams |-> IF s = SessionStream THEN "open" ELSE "unused"]
  /\ stopped = {}
  /\ closed = FALSE

-----------------------------------------------------------------------------
\* The call is over, and its guard of the mutex dropped.
Return(n, how) ==
  /\ pc' = [pc EXCEPT ![n] = how]
  /\ holder' = [l \in DOMAIN holder |-> IF holder[l] = n THEN Nobody ELSE holder[l]]

\* Dropping a SendStream finishes it, or resets it if the SFU stopped it.
Drop(s) == status' = [status EXCEPT ![s] = "finished"]

\* A call begins.  send_lane looks whether the connection is open before
\* anything else, send_session once it has the mutex.
Call(n, l) ==
  /\ pc[n] = "unused"
  /\ \A m \in 1 .. n - 1 : pc[m] # "unused"
  /\ lane' = [lane EXCEPT ![n] = l]
  /\ pc' = [pc EXCEPT ![n] =
       CASE l # "session" /\ closed -> "failed"
         [] l = "bulk" -> "open"
         [] OTHER -> "lock"]
  /\ UNCHANGED <<stream, left, holder, slot, wire, status, peerVars>>

\* Faulty: the mutex covers the choice of the stream only.
MayLockAnyway(n) == TRUE

MayLock(n) == holder[lane[n]] = Nobody

LockSession(n) ==
  /\ pc[n] = "lock"
  /\ lane[n] = "session"
  /\ MayLock(n)
  /\ \/ /\ closed
        /\ Return(n, "failed")
        /\ UNCHANGED stream
     \/ /\ ~closed
        /\ holder' = [holder EXCEPT !["session"] = n]
        /\ stream' = [stream EXCEPT ![n] = SessionStream]
        /\ pc' = [pc EXCEPT ![n] = "write"]
  /\ UNCHANGED <<lane, left, slot, wire, status, peerVars>>

LockLane(n) ==
  /\ pc[n] = "lock"
  /\ lane[n] \in Kept
  /\ MayLock(n)
  /\ holder' = [holder EXCEPT ![lane[n]] = n]
  /\ stream' = [stream EXCEPT ![n] = slot[lane[n]]]
  /\ pc' = [pc EXCEPT ![n] = IF slot[lane[n]] = NoStream THEN "open" ELSE "write"]
  /\ UNCHANGED <<lane, left, slot, wire, status, peerVars>>

\* Lane streams that count against the SFU's limit.
Concurrent == {s \in Streams \ {SessionStream} : status[s] \in {"open", "finished"}}

OpenUni(n) ==
  /\ pc[n] = "open"
  /\ ~closed
  /\ Cardinality(Concurrent) < Credit
  /\ stream' = [stream EXCEPT ![n] = n]
  /\ status' = [status EXCEPT ![n] = "open"]
  /\ left' = [left EXCEPT ![n] = 3]
  /\ pc' = [pc EXCEPT ![n] = "write"]
  /\ UNCHANGED <<lane, holder, slot, wire, peerVars>>

OpenFails(n) ==
  /\ pc[n] = "open"
  /\ closed
  /\ Return(n, "failed")
  /\ UNCHANGED <<callVars, slot, wire, status, peerVars>>

Broken(n) == closed \/ stream[n] \in stopped

\* Faulty: the call returns after a part of its frame (write for write_all).
AtLastPartEarly(n) == left[n] \in {1, 2}

AtLastPart(n) == left[n] = 1

\* Some more of the lane byte and the frame.
Write(n) ==
  /\ pc[n] = "write"
  /\ ~Broken(n)
  /\ left[n] > 1
  /\ wire' = [wire EXCEPT ![stream[n]] = Append(@, IF left[n] = 3 THEN LaneByte ELSE n)]
  /\ left' = [left EXCEPT ![n] = @ - 1]
  /\ UNCHANGED <<pc, lane, stream, holder, slot, status, peerVars>>

\* Faulty: a bulk stream is not finished, and its handle kept.
EndsStreamNever(n) == FALSE

EndsStream(n) == lane[n] = "bulk"

\* The rest of it, and the call returns Ok: a bulk stream is finished, a new
\* stream of a long-lived lane put into its slot.
WriteLast(n) ==
  /\ pc[n] = "write"
  /\ ~Broken(n)
  /\ AtLastPart(n)
  /\ wire' = [wire EXCEPT ![stream[n]] = Append(@, n)]
  /\ left' = [left EXCEPT ![n] = @ - 1]
  /\ slot' = [l \in Kept |-> IF l = lane[n] THEN stream[n] ELSE slot[l]]
  /\ IF EndsStream(n) THEN Drop(stream[n]) ELSE UNCHANGED status
  /\ Return(n, "ok")
  /\ UNCHANGED <<lane, stream, peerVars>>

\* Faulty: the slot keeps a stream on which a write failed.
SlotAfterFailureKept(l, n) == slot[l]

SlotAfterFailure(l, n) == IF l = lane[n] THEN NoStream ELSE slot[l]

\* A write fails: its stream is given up, unless it is the session's.
WriteFails(n) ==
  /\ pc[n] = "write"
  /\ Broken(n)
  /\ slot' = [l \in Kept |-> SlotAfterFailure(l, n)]
  /\ IF lane[n] = "session" THEN UNCHANGED status ELSE Drop(stream[n])
  /\ Return(n, "failed")
  /\ UNCHANGED <<callVars, wire, peerVars>>

\* The call's future is dropped, and with it a stream it opened; a stream
\* that was in the slot stays there.
Cancel(n) ==
  /\ pc[n] \in {"lock", "open", "write"}
  /\ IF stream[n] = n THEN Drop(n) ELSE UNCHANGED status
  /\ Return(n, "cancelled")
  /\ UNCHANGED <<callVars, slot, wire, peerVars>>

-----------------------------------------------------------------------------
(***************************************************************************)
(* The SFU.                                                                *)
(***************************************************************************)
\* The reader of a stream is gone, and its RecvStream dropped.
Stop(s) ==
  /\ status[s] = "open"
  /\ s \notin stopped
  /\ ~closed
  /\ stopped' = stopped \cup {s}
  /\ UNCHANGED <<pc, callVars, holder, slot, wire, status, closed>>

\* A finished stream has been read to its end (or its reset arrived), and
\* another may be opened in its place.
Retire(s) ==
  /\ status[s] = "finished"
  /\ ~closed
  /\ status' = [status EXCEPT ![s] = "gone"]
  /\ UNCHANGED <<pc, callVars, holder, slot, wire, peerVars>>

CloseConn ==
  /\ ~closed
  /\ closed' = TRUE
  /\ UNCHANGED <<pc, callVars, holder, slot, wire, status, stopped>>

Next ==
  \/ \E n \in Calls :
       \/ \E l \in Lanes : Call(n, l)
       \/ LockSession(n)
       \/ LockLane(n)
       \/ OpenUni(n)
       \/ OpenFails(n)
       \/ Write(n)
       \/ WriteLast(n)
       \/ WriteFails(n)
       \/ Cancel(n)
  \/ \E s \in Streams : Stop(s) \/ Retire(s)
  \/ CloseConn

Spec == Init /\ [][Next]_vars

-----------------------------------------------------------------------------
\* Call n was dropped in the middle of its frame, on a stream it did not open.
Torn(n) == pc[n] = "cancelled" /\ left[n] = 1 /\ stream[n] # n

Occurs(n, s) == {i \in DOMAIN wire[s] : wire[s][i] = n}

\* What the SFU reads stays in step with what was sent: a lane stream begins
\* with its lane byte, and more is written after half a frame only if the
\* call that wrote the half was dropped there, on a stream that was in its
\* slot.  Concurrent calls, failed writes, replaced streams and calls dropped
\* on a stream they opened never mix two frames.
FramesStayWhole ==
  \A s \in Streams : \A i \in DOMAIN wire[s] :
    LET n == wire[s][i] IN
    /\ n = LaneByte <=> i = 1 /\ s # SessionStream
    /\ n # LaneByte /\ ~Torn(n) /\ Cardinality(Occurs(n, s)) = 1 => i = Len(wire[s])
    /\ \A j \in Occurs(n, s) : j \in i - 1 .. i + 1

\* A call that returned Ok has its whole frame on one stream, whatever failed
\* before; one that did not is nowhere on the wire as a whole.  No frame is
\* sent twice, and a bulk stream is finished behind its only frame.
OkMeansSent ==
  \A n \in Calls :
    /\ pc[n] = "ok" <=> \E s \in Streams : Cardinality(Occurs(n, s)) = 2
    /\ \A s, t \in Streams : Occurs(n, s) # {} /\ Occurs(n, t) # {} => s = t
    /\ pc[n] = "ok" /\ lane[n] = "bulk" =>
         wire[n] = <<LaneByte, n, n>> /\ status[n] \in {"finished", "gone"}

\* "replaced if a write on one fails": a lane stream the SFU stopped costs one
\* call at most, however many wait for the lane.
FailsOnce ==
  \A s \in Streams \ {SessionStream} :
    Cardinality({n \in Calls : pc[n] = "failed" /\ stream[n] = s}) <= 1

\* No call waits for ever.  Whoever holds a mutex is opening or writing, and
\* when the streams are used up, one of them is finished and needs only be
\* read, or is a bulk upload under way.  A call that writes waits for the SFU
\* alone, so nobody waits in a circle, also after a call that held a mutex or
\* a stream was dropped.
WaitsEnd ==
  \A n \in Calls :
    /\ pc[n] = "lock" => MayLock(n) \/ pc[holder[lane[n]]] \in {"open", "write"}
    /\ pc[n] = "open" =>
         \/ closed
         \/ Cardinality(Concurrent) < Credit
         \/ \E s \in Concurrent :
              \/ status[s] = "finished"
              \/ \E m \in Calls : pc[m] = "write" /\ lane[m] = "bulk" /\ stream[m] = s
=============================================================================
