------------------------------- MODULE Outbox -------------------------------
(***************************************************************************)
(* The session, control and interactive queues towards one connection and  *)
(* the byte budget they share (struct Budget, MemberHandle::reserve,       *)
(* push_session and deliver, session_writer and lane_writer).  Tasks of    *)
(* several rooms push at once: each atomic operation of a push is a step   *)
(* of its own.  A connection that would go over the budget is closed.      *)
(*                                                                         *)
(* A push that finds the overflowed flag set returns at once: it changes   *)
(* nothing and is not a step.                                              *)
(***************************************************************************)
EXTENDS Outbound

CONSTANTS
  Limit,     \* Limits::outbox_bytes
  MaxPushes  \* bound: pushes in a behaviour

ASSUME OutboxAssumption == Limit \in Nat /\ MaxPushes \in Nat

Lanes == {"control", "interactive"}
Writers == Lanes \cup {"session"}

VARIABLES
  queued,      \* Budget::queued
  overflowed,  \* Budget::overflowed
  chan,        \* chan[w]: sizes of the frames in the channel of writer w
  current,     \* current[w]: size of the frame w is writing, 0 if none
  running,     \* writers that have not returned
  abandoned,   \* bytes that were in the channels of writers when they returned
  push,        \* push[u]: the push task u is in the middle of
  refused,     \* tasks that had a frame refused by reserve
  pushes,      \* pushes begun
  connClosed,  \* conn.close_reason() is set
  handles      \* some Outbound handle is left

outboxVars ==
  <<queued, overflowed, chan, current, running, abandoned, push, refused, pushes, connClosed, handles>>

PushState ==
  [at : {"idle", "add", "send", "unsend", "release", "swap", "close"},
   to : Writers, size : Sizes \cup {0}]

NoPush == [at |-> "idle", to |-> "session", size |-> 0]

OutboxInit ==
  /\ queued = 0
  /\ overflowed = FALSE
  /\ chan = [w \in Writers |-> <<>>]
  /\ current = [w \in Writers |-> 0]
  /\ running = Writers
  /\ abandoned = 0
  /\ push = [u \in Pushers |-> NoPush]
  /\ refused = {}
  /\ pushes = 0
  /\ connClosed = FALSE
  /\ handles = TRUE

\* Bytes that are queued or being written.
InQueues == SumFunction([w \in Writers |-> SumFunction(chan[w]) + current[w]])

-----------------------------------------------------------------------------
(***************************************************************************)
(* MemberHandle::reserve and the send that follows it.                     *)
(***************************************************************************)
\* reserve reads the flag; it is clear.
Begin(u, w, size) ==
  /\ push[u].at = "idle"
  /\ handles
  /\ pushes < MaxPushes
  /\ ~overflowed
  /\ push' = [push EXCEPT ![u] = [at |-> "add", to |-> w, size |-> size]]
  /\ pushes' = pushes + 1
  /\ UNCHANGED <<queued, overflowed, chan, current, running, abandoned, refused, connClosed, handles>>

\* Faulty: compared without the frame's own size.
OverUncounted(size) == queued > Limit

\* The test on the value fetch_add returns.
Over(size) == queued > 0 /\ queued + size > Limit

Add(u) ==
  /\ push[u].at = "add"
  /\ queued' = queued + push[u].size
  /\ push' = [push EXCEPT ![u].at = IF Over(push[u].size) THEN "release" ELSE "send"]
  /\ UNCHANGED <<overflowed, chan, current, running, abandoned, refused, pushes, connClosed, handles>>

\* The channel takes the frame unless its writer is gone.
Send(u) ==
  /\ push[u].at = "send"
  /\ \/ /\ push[u].to \in running
        /\ chan' = [chan EXCEPT ![push[u].to] = Append(@, push[u].size)]
        /\ push' = [push EXCEPT ![u] = NoPush]
     \/ /\ push[u].to \notin running
        /\ push' = [push EXCEPT ![u].at = "unsend"]
        /\ UNCHANGED chan
  /\ UNCHANGED <<queued, overflowed, current, running, abandoned, refused, pushes, connClosed, handles>>

Unsend(u) ==
  /\ push[u].at = "unsend"
  /\ queued' = queued - push[u].size
  /\ push' = [push EXCEPT ![u] = NoPush]
  /\ UNCHANGED <<overflowed, chan, current, running, abandoned, refused, pushes, connClosed, handles>>

\* A refused frame gives its bytes back.
Release(u) ==
  /\ push[u].at = "release"
  /\ queued' = queued - push[u].size
  /\ push' = [push EXCEPT ![u].at = "swap"]
  /\ refused' = refused \cup {u}
  /\ UNCHANGED <<overflowed, chan, current, running, abandoned, pushes, connClosed, handles>>

\* Faulty: the connection is closed but the flag stays clear.
SwapUnflagged(u) ==
  /\ push[u].at = "swap"
  /\ push' = [push EXCEPT ![u] = IF overflowed THEN NoPush ELSE [@ EXCEPT !.at = "close"]]
  /\ UNCHANGED <<queued, overflowed, chan, current, running, abandoned, refused, pushes, connClosed, handles>>

\* Only the task that sets the flag closes the connection.
Swap(u) ==
  /\ push[u].at = "swap"
  /\ overflowed' = TRUE
  /\ push' = [push EXCEPT ![u] = IF overflowed THEN NoPush ELSE [@ EXCEPT !.at = "close"]]
  /\ UNCHANGED <<queued, chan, current, running, abandoned, refused, pushes, connClosed, handles>>

\* Faulty: the overflow is recorded, the connection left open.
CloseSlowForgotten(u) ==
  /\ push[u].at = "close"
  /\ push' = [push EXCEPT ![u] = NoPush]
  /\ UNCHANGED <<queued, overflowed, chan, current, running, abandoned, refused, pushes, connClosed, handles>>

CloseSlow(u) ==
  /\ push[u].at = "close"
  /\ connClosed' = TRUE
  /\ push' = [push EXCEPT ![u] = NoPush]
  /\ UNCHANGED <<queued, overflowed, chan, current, running, abandoned, refused, pushes, handles>>

-----------------------------------------------------------------------------
(***************************************************************************)
(* The writers.  A write ends because the stream took the frame, because   *)
(* the stream or the connection is gone (Closed), or because it made no    *)
(* progress for stall_timeout (Stalled).  Its bytes are released each time.*)
(***************************************************************************)
Recv(w) ==
  /\ w \in running
  /\ current[w] = 0
  /\ chan[w] # <<>>
  /\ current' = [current EXCEPT ![w] = Head(chan[w])]
  /\ chan' = [chan EXCEPT ![w] = Tail(@)]
  /\ UNCHANGED <<queued, overflowed, running, abandoned, push, refused, pushes, connClosed, handles>>

EndWrite(w) ==
  /\ current[w] # 0
  /\ queued' = queued - current[w]
  /\ current' = [current EXCEPT ![w] = 0]
  /\ UNCHANGED <<overflowed, push, refused, pushes, handles>>

\* The writer returns: its channel goes with everything in it, and nobody
\* releases those bytes.
Return(w) ==
  /\ abandoned' = abandoned + SumFunction(chan[w])
  /\ running' = running \ {w}
  /\ chan' = [chan EXCEPT ![w] = <<>>]

Written(w) ==
  /\ ~connClosed
  /\ EndWrite(w)
  /\ UNCHANGED <<chan, running, abandoned, connClosed>>

\* The client may stop a stream at any time.  A lane is reopened on the next
\* DELIVER, the session stream is not.
WriteClosed(w) ==
  /\ EndWrite(w)
  /\ UNCHANGED connClosed
  /\ \/ w \in Lanes /\ ~connClosed /\ UNCHANGED <<chan, running, abandoned>>
     \/ w \notin Lanes /\ Return(w)
     \/ connClosed /\ Return(w)

WriteStalled(w) ==
  /\ EndWrite(w)
  /\ connClosed' = TRUE
  /\ Return(w)

\* Faulty: the writer waits for the connection to close.
FinishOnClose(w) ==
  /\ w \in running
  /\ ~handles /\ connClosed
  /\ current[w] = 0 /\ chan[w] = <<>>
  /\ Return(w)
  /\ UNCHANGED <<queued, overflowed, current, push, refused, pushes, connClosed, handles>>

\* recv returns None: no handle is left and the channel is empty.
FinishStream(w) ==
  /\ w \in running
  /\ ~handles
  /\ current[w] = 0 /\ chan[w] = <<>>
  /\ Return(w)
  /\ UNCHANGED <<queued, overflowed, current, push, refused, pushes, connClosed, handles>>

-----------------------------------------------------------------------------
\* The client or the transport closes the connection.
CloseConn ==
  /\ ~connClosed
  /\ connClosed' = TRUE
  /\ UNCHANGED <<queued, overflowed, chan, current, running, abandoned, push, refused, pushes, handles>>

\* The last handle is dropped (the session's, or that of a lane reader that
\* outlived it): no task is in the middle of a push.
DropHandles ==
  /\ handles
  /\ \A u \in Pushers : push[u].at = "idle"
  /\ handles' = FALSE
  /\ UNCHANGED <<queued, overflowed, chan, current, running, abandoned, push, refused, pushes, connClosed>>

\* serve_connection gives up waiting for the writers and aborts them.
AbortWriters ==
  /\ ~handles
  /\ running # {}
  /\ running' = {}
  /\ abandoned' = abandoned + InQueues
  /\ chan' = [w \in Writers |-> <<>>]
  /\ current' = [w \in Writers |-> 0]
  /\ UNCHANGED <<queued, overflowed, push, refused, pushes, connClosed, handles>>

PushStep(u) == Add(u) \/ Send(u) \/ Unsend(u) \/ Release(u) \/ Swap(u) \/ CloseSlow(u)

WriterStep(w) == Recv(w) \/ Written(w) \/ WriteClosed(w) \/ WriteStalled(w) \/ FinishStream(w)

OutboxNext ==
  \/ \E u \in Pushers : PushStep(u) \/ \E w \in Writers, s \in Sizes : Begin(u, w, s)
  \/ \E w \in Writers : WriterStep(w)
  \/ CloseConn
  \/ DropHandles
  \/ AbortWriters

\* A push never waits, and every await of a writer with work is bounded by
\* stall_timeout.
OutboxFairness ==
  /\ \A u \in Pushers : WF_outboxVars(PushStep(u))
  /\ \A w \in Writers : WF_outboxVars(WriterStep(w))

OutboxSpec == OutboxInit /\ [][OutboxNext]_outboxVars /\ OutboxFairness

-----------------------------------------------------------------------------
\* Bytes that tasks in the middle of a push have counted in queued.
InFlight(states) ==
  SumFunction([u \in {v \in Pushers : push[v].at \in states} |-> push[u].size])

\* Budget::queued counts exactly the frames that are queued, being written
\* or being pushed, however pushes and writers interleave, plus what writers
\* that returned left in their channels: no other path loses or repeats a
\* release.  And concurrent pushes together never queue more than the budget:
\* only a frame that is alone may be larger ("An empty budget always takes
\* one frame").
QueuesWithinBudget ==
  /\ queued = InQueues + InFlight({"send", "unsend", "release"}) + abandoned
  /\ InQueues + InFlight({"send"}) > Limit =>
       Cardinality({u \in Pushers : push[u].at = "send"})
         + SumFunction([w \in Writers |-> Len(chan[w]) + IF current[w] = 0 THEN 0 ELSE 1]) = 1

\* Once a frame of a task was refused, no later frame of that task is queued
\* on any of the three queues: what a client receives from one sender never
\* has a gap in the middle, it ends.
NoGapAfterRefusal ==
  [][\A u \in Pushers : u \in refused => push'[u].at # "send"]_outboxVars

\* A connection whose queues went over the budget is closed.
OverflowCloses == overflowed ~> connClosed

\* Once the last handle is gone the writers drain their queues and finish.
WritersFinish == ~handles ~> (running = {} /\ InQueues = 0)

\* What Limits::outbox_bytes promises: "An empty budget always takes one
\* frame".  An open connection is refused a frame only while another one is
\* queued, being written or being pushed.
EmptyBudgetTakesOne ==
  [][\A u \in Pushers : (~connClosed /\ push[u].at = "add" /\ push'[u].at = "release") =>
       InQueues + InFlight({"send", "unsend", "release"}) > 0]_outboxVars
=============================================================================
