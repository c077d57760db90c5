----------------------------- MODULE BulkQueue -----------------------------
(***************************************************************************)
(* The bulk lane towards one connection: the queue of waiting deliveries   *)
(* with its byte budget (struct BulkQueue), the dispatcher that puts each  *)
(* delivery on a stream of its own (bulk_dispatcher), the stream tasks     *)
(* (send_bulk), and the Notify that wakes the dispatcher.                  *)
(*                                                                         *)
(* A push or a close changes the queue under its lock and notifies after   *)
(* unlocking, so each is two steps, and other tasks run in between.  A     *)
(* push that returns early (queue closed, or no room beside the deliveries *)
(* on streams) changes nothing and is not a step.                          *)
(***************************************************************************)
EXTENDS Outbound

CONSTANTS
  Closer,      \* the task that drops the last Outbound handle
  Budget,      \* Limits::bulk_outbox_bytes
  MaxStreams,  \* Limits::max_bulk_streams, at least 1
  MaxBytes     \* bound: bytes a behaviour queues in all

ASSUME BulkAssumption ==
  /\ Closer \notin Pushers
  /\ Budget \in Nat
  /\ MaxStreams \in Nat \ {0}
  /\ MaxBytes \in Nat

VARIABLES
  waiting,        \* BulkState::waiting
  waiting_bytes,  \* BulkState::waiting_bytes
  bytes,          \* BulkState::bytes
  closed,         \* BulkState::closed
  accepted,       \* bytes queued so far; stamps the deliveries
  notifying,      \* tasks that still owe a notify_one
  permit,         \* the permit stored in the Notify
  pc,             \* where bulk_dispatcher is
  sending,        \* deliveries whose stream task is in send_bulk
  finishing       \* deliveries whose stream task is past done()

bulkVars == <<waiting, waiting_bytes, bytes, closed, accepted, notifying, permit,
              pc, sending, finishing>>

\* A delivery is its size and the number of bytes queued before it, which
\* tells deliveries apart and orders them by age.
Delivery == [at : Nat, size : Sizes]

Shape ==
  /\ waiting \in Seq(Delivery)
  /\ waiting_bytes \in Int
  /\ bytes \in Int
  /\ closed \in BOOLEAN
  /\ accepted \in Nat
  /\ notifying \in SUBSET (Pushers \cup {Closer})
  /\ permit \in BOOLEAN
  /\ pc \in {"acquire", "check", "poll", "parked", "woken", "draining", "done"}
  /\ sending \in SUBSET Delivery
  /\ finishing \in SUBSET Delivery

BulkInit ==
  /\ waiting = <<>>
  /\ waiting_bytes = 0
  /\ bytes = 0
  /\ closed = FALSE
  /\ accepted = 0
  /\ notifying = {}
  /\ permit = FALSE
  /\ pc = "acquire"
  /\ sending = {}
  /\ finishing = {}

-----------------------------------------------------------------------------
(***************************************************************************)
(* BulkQueue::push.                                                        *)
(***************************************************************************)
\* Faulty: only what is waiting counts against the budget.
RoomBesideWaiting(size) == TRUE

\* The deliveries on streams leave room for one of this size.
RoomBesideStreams(size) ==
  LET on_streams == bytes - waiting_bytes
  IN  ~(on_streams > 0 /\ on_streams + size > Budget)

\* The bytes of the k oldest waiting deliveries: they were queued back to
\* back, up to the stamp of the next one.
Freed(k) ==
  IF k = 0 THEN 0
  ELSE IF k = Len(waiting) THEN accepted - waiting[1].at
  ELSE waiting[k + 1].at - waiting[1].at

\* The loop that drops the oldest waiting delivery ends after k rounds.
FitsAfter(k, size) ==
  \/ k = Len(waiting)
  \/ bytes - Freed(k) <= 0
  \/ bytes - Freed(k) + size <= Budget

DropsOldest(k, size) == FitsAfter(k, size) /\ \A j \in 0 .. k - 1 : ~FitsAfter(j, size)

\* Faulty: the newest waiting deliveries make room.
KeptOldest(k) == SubSeq(waiting, 1, Len(waiting) - k)

Kept(k) == SubSeq(waiting, k + 1, Len(waiting))

Push(u, size) ==
  /\ u \notin notifying
  /\ ~closed
  /\ accepted + size <= MaxBytes
  /\ RoomBesideStreams(size)
  /\ \E k \in 0 .. Len(waiting) :
     /\ DropsOldest(k, size)
     /\ waiting' = Append(Kept(k), [at |-> accepted, size |-> size])
     /\ waiting_bytes' = waiting_bytes - Freed(k) + size
     /\ bytes' = bytes - Freed(k) + size
  /\ accepted' = accepted + size
  /\ notifying' = notifying \cup {u}
  /\ UNCHANGED <<closed, permit, pc, sending, finishing>>

\* BulkQueue::close, called when the last handle is dropped: no push runs.
Close ==
  /\ ~closed
  /\ notifying = {}
  /\ closed' = TRUE
  /\ notifying' = {Closer}
  /\ UNCHANGED <<waiting, waiting_bytes, bytes, accepted, permit, pc, sending, finishing>>

\* Faulty: Notify::notify_waiters, which stores no permit.
NotifyWaiters(u) ==
  /\ u \in notifying
  /\ notifying' = notifying \ {u}
  /\ pc' = IF pc = "parked" THEN "woken" ELSE pc
  /\ UNCHANGED <<waiting, waiting_bytes, bytes, closed, accepted, permit, sending, finishing>>

\* Notify::notify_one wakes the waiting task or stores the one permit.
NotifyOne(u) ==
  /\ u \in notifying
  /\ notifying' = notifying \ {u}
  /\ pc' = IF pc = "parked" THEN "woken" ELSE pc
  /\ permit' = (permit \/ pc # "parked")
  /\ UNCHANGED <<waiting, waiting_bytes, bytes, closed, accepted, sending, finishing>>

-----------------------------------------------------------------------------
(***************************************************************************)
(* bulk_dispatcher and BulkQueue::next.                                    *)
(***************************************************************************)
\* Permits of the slots semaphore: the dispatcher holds one from Acquire on.
FreeSlots == MaxStreams - Cardinality(sending) - Cardinality(finishing)

Acquire ==
  /\ pc = "acquire"
  /\ FreeSlots > 0
  /\ pc' = "check"
  /\ UNCHANGED <<waiting, waiting_bytes, bytes, closed, accepted, notifying, permit, sending, finishing>>

\* Under the lock: take the oldest delivery and spawn its stream task.
Take ==
  /\ pc = "check"
  /\ waiting # <<>>
  /\ waiting' = Tail(waiting)
  /\ waiting_bytes' = waiting_bytes - Head(waiting).size
  /\ sending' = sending \cup {Head(waiting)}
  /\ pc' = "acquire"
  /\ UNCHANGED <<bytes, closed, accepted, notifying, permit, finishing>>

\* Under the lock: nothing waits, so stop or go and wait for a notification.
FindEmpty ==
  /\ pc = "check"
  /\ waiting = <<>>
  /\ pc' = IF closed THEN "draining" ELSE "poll"
  /\ UNCHANGED <<waiting, waiting_bytes, bytes, closed, accepted, notifying, permit, sending, finishing>>

\* ready.await: the first poll takes the stored permit or parks the task.
Poll ==
  /\ pc = "poll"
  /\ pc' = IF permit THEN "check" ELSE "parked"
  /\ permit' = FALSE
  /\ UNCHANGED <<waiting, waiting_bytes, bytes, closed, accepted, notifying, sending, finishing>>

Wake ==
  /\ pc = "woken"
  /\ pc' = "check"
  /\ UNCHANGED <<waiting, waiting_bytes, bytes, closed, accepted, notifying, permit, sending, finishing>>

\* The last join: the dispatcher waits for the streams that are still open.
Finish ==
  /\ pc = "draining"
  /\ sending = {} /\ finishing = {}
  /\ pc' = "done"
  /\ UNCHANGED <<waiting, waiting_bytes, bytes, closed, accepted, notifying, permit, sending, finishing>>

-----------------------------------------------------------------------------
(***************************************************************************)
(* A stream task: send_bulk ends (acknowledged, failed or stalled), done() *)
(* takes the lock, and then the slot is dropped.                           *)
(***************************************************************************)
Done(d) ==
  /\ d \in sending
  /\ bytes' = bytes - d.size
  /\ sending' = sending \ {d}
  /\ finishing' = finishing \cup {d}
  /\ UNCHANGED <<waiting, waiting_bytes, closed, accepted, notifying, permit, pc>>

DropSlot(d) ==
  /\ d \in finishing
  /\ finishing' = finishing \ {d}
  /\ UNCHANGED <<waiting, waiting_bytes, bytes, closed, accepted, notifying, permit, pc, sending>>

Dispatch == Acquire \/ Take \/ FindEmpty \/ Poll \/ Wake \/ Finish

BulkNext ==
  \/ \E u \in Pushers, size \in Sizes : Push(u, size)
  \/ Close
  \/ \E u \in Pushers \cup {Closer} : NotifyOne(u)
  \/ Dispatch
  \/ \E d \in sending : Done(d)
  \/ \E d \in finishing : DropSlot(d)

\* Tasks that can run do run, and every await of send_bulk is bounded by
\* stall_timeout, so each stream task ends.
BulkFairness ==
  /\ WF_bulkVars(Dispatch)
  /\ WF_bulkVars(\E u \in Pushers \cup {Closer} : NotifyOne(u))
  /\ WF_bulkVars(\E d \in sending : Done(d))
  /\ WF_bulkVars(\E d \in finishing : DropSlot(d))

BulkSpec == BulkInit /\ [][BulkNext]_bulkVars /\ BulkFairness

-----------------------------------------------------------------------------
SumOfSizes(S) == SumFunction([d \in S |-> d.size])

\* BulkState's counters are exact: waiting_bytes are the bytes in waiting, and
\* bytes are those plus the bytes on streams that are not yet acknowledged
\* (push computes on_streams as their difference and would underflow
\* otherwise).  And they stay within the budget; only a delivery that is
\* alone may exceed it ("An empty budget always takes one"), and no more than
\* max_bulk_streams stream tasks are alive.
WithinBudget ==
  /\ waiting_bytes = SumOfSizes({waiting[i] : i \in 1 .. Len(waiting)})
  /\ bytes = waiting_bytes + SumOfSizes(sending)
  /\ bytes > Budget => Len(waiting) + Cardinality(sending) = 1
  /\ Cardinality(sending) + Cardinality(finishing) <= MaxStreams

\* push drops the oldest first, and next takes the oldest first: what waits
\* is always an unbroken run of deliveries that ends with the newest one
\* queued, and waiting_bytes is its length in bytes.
NewestSurvive ==
  /\ \A i \in 1 .. Len(waiting) :
       waiting[i].at + waiting[i].size =
         IF i = Len(waiting) THEN accepted ELSE waiting[i + 1].at
  /\ waiting_bytes = IF waiting = <<>> THEN 0 ELSE accepted - waiting[1].at

\* The dispatcher is never parked beside a delivery, or a close, that nobody
\* is about to notify it of: next() creates its Notified future before it
\* looks, push and close notify after they unlock, and a notification sent
\* in between is stored.
NoLostWakeup ==
  pc = "parked" /\ (waiting # <<>> \/ closed) => notifying # {}

\* Every queued delivery gets a stream or is dropped for a newer one, even
\* if every stream before it stalls.
DeliveriesMoveOn ==
  \A n \in 0 .. MaxBytes :
    (\E i \in 1 .. Len(waiting) : waiting[i].at = n)
      ~> ~(\E i \in 1 .. Len(waiting) : waiting[i].at = n)

\* Closing the queue ends the dispatcher, with the queue drained ("the
\* writers drain and finish").
ClosingEndsDispatcher == closed ~> (pc = "done" /\ waiting = <<>> /\ bytes = 0)
=============================================================================
