--------------------------- MODULE SessionStream ---------------------------
(***************************************************************************)
(* The session stream towards a client, from the queue of its writer to    *)
(* the client's inbox.  session_writer cuts each SNAPSHOT into chunks      *)
(* (encode_snapshot), MORE set on all but the last, and writes every other *)
(* item as one frame; the client's pump_frames merges the chunks per topic *)
(* and hands a snapshot out with its last chunk.  The connection may be    *)
(* lost at any point, with what is in flight; the application may receive  *)
(* what is handed out late or never, or drop its receiver, which ends the  *)
(* pump and with it the stream.                                            *)
(*                                                                         *)
(* Frames are those of Proto, in flight in their wire form.                *)
(***************************************************************************)
EXTENDS Proto

CONSTANTS
  Topics,
  Events,      \* the JOINED, LEFT, PRESENCE and ERROR frames
  Roster,      \* ids of a room's members, in the order of its map
  Blobs,       \* their announced blobs
  MaxMembers,  \* MAX_MEMBERS_PER_TOPIC
  MaxEntries,  \* Limits::snapshot_chunk_entries
  MaxBody,     \* Limits::snapshot_chunk_bytes
  InboxLen,    \* capacity of the channel Inbox::frames
  Window,      \* bound: frames in flight (the QUIC receive window)
  MaxItems     \* bound: items queued in a behaviour

ASSUME StreamAssumption ==
  /\ {MaxMembers, MaxEntries, MaxBody, InboxLen, Window, MaxItems} \subseteq Nat
  /\ Roster \in Seq(Ids) /\ Len(Roster) <= MaxMembers
  /\ Blobs \subseteq Seq(Nat)
  /\ \A t \in Topics : IsTopic(t)
  /\ \A e \in Events : IsFrame(e) /\ e.tag \in {JOINED, LEFT, PRESENCE, ERROR}

VARIABLES
  queued,     \* every item queued for the session so far
  written,    \* how many of them session_writer has written
  start,      \* members of the next item that are already written
  writing,    \* session_writer has not returned
  wire,       \* frames in flight, oldest first
  lost,       \* the connection is gone
  pumping,    \* pump_frames has not ended
  partial,    \* partial[t]: pump_frames' members of t so far
  inbox,      \* what pump_frames handed out
  drawn,      \* how much of it the application has received
  receiving   \* the application holds Inbox::frames

application == <<drawn, receiving>>
session == <<queued, written, start, writing, wire, lost, pumping, partial, inbox, application>>

\* A member list is a part of the roster with a blob each.
Members ==
  UNION {{[i \in 1 .. n |-> [id |-> Roster[i], blob |-> blobs[i]]] : blobs \in [1 .. n -> Blobs]} :
           n \in 0 .. Len(Roster)}
Items == {Snapshot(t, FALSE, ms) : t \in Topics, ms \in Members} \cup Events

SessionInit ==
  /\ queued = <<>>
  /\ written = 0
  /\ start = 0
  /\ writing = TRUE
  /\ wire = <<>>
  /\ lost = FALSE
  /\ pumping = TRUE
  /\ partial = [t \in Topics |-> <<>>]
  /\ inbox = <<>>
  /\ drawn = 0
  /\ receiving = TRUE

-----------------------------------------------------------------------------
(***************************************************************************)
(* encode_snapshot.                                                        *)
(***************************************************************************)
\* Faulty: the configured limit is not clamped to what the count field holds.
EntryLimitUnclamped == IF MaxEntries = 0 THEN 1 ELSE MaxEntries

EntryLimit == Min({CountMax, Max({1, MaxEntries})})

\* SNAPSHOT_HEAD_LEN and the sum of snapshot_entry_len.
Body(ms) == Width + 2 + FoldFunction(LAMBDA m, sum : Width + 1 + Len(m.blob) + sum, 0, ms)

\* The chunk that starts after member from ends with the last member that
\* fits beside the others; its first member is taken whatever its length.
ChunkEnd(ms, from) ==
  Max({from} \cup {e \in from + 1 .. Min({Len(ms), from + EntryLimit}) :
                     e = from + 1 \/ Body(SubSeq(ms, from + 1, e)) <= MaxBody})

\* Faulty: MORE is set as long as a chunk is full.
MoreAfterFull(ms, from, end) == end - from = EntryLimit

More(ms, from, end) == end < Len(ms)

-----------------------------------------------------------------------------
(***************************************************************************)
(* The stream.                                                             *)
(***************************************************************************)
\* MemberHandle::push_session queued an item; the channel of a writer that has
\* returned takes none.
Queue(item) ==
  /\ writing /\ Len(queued) < MaxItems
  /\ queued' = Append(queued, item)
  /\ UNCHANGED <<written, start, writing, wire, lost, pumping, partial, inbox, application>>

\* session_writer has an item to write, and the window has room for a frame.
Busy == writing /\ written < Len(queued)
MayWrite == Busy /\ ~lost /\ Len(wire) < Window

WriteEvent ==
  /\ MayWrite
  /\ queued[written + 1].tag # SNAPSHOT
  /\ wire' = Append(wire, Encode(queued[written + 1]))
  /\ written' = written + 1
  /\ UNCHANGED <<queued, start, writing, lost, pumping, partial, inbox, application>>

WriteChunk ==
  /\ MayWrite
  /\ queued[written + 1].tag = SNAPSHOT
  /\ LET item == queued[written + 1]
         end == ChunkEnd(item.members, start)
         more == More(item.members, start, end)
     IN  /\ wire' = Append(wire, EncodeChunk(item.topic, more, SubSeq(item.members, start + 1, end)))
         /\ start' = IF more THEN end ELSE 0
         /\ written' = IF more THEN written ELSE written + 1
  /\ UNCHANGED <<queued, writing, lost, pumping, partial, inbox, application>>

\* A write fails on a lost connection, and on a stream that the client stopped
\* by dropping its end: session_writer returns, the connection stays as it is.
WriteFails ==
  /\ Busy
  /\ lost \/ ~pumping
  /\ writing' = FALSE
  /\ UNCHANGED <<queued, written, start, wire, lost, pumping, partial, inbox, application>>

\* The connection is lost, with the frames after the first n in flight.
Lose(n) ==
  /\ ~lost
  /\ lost' = TRUE
  /\ wire' = SubSeq(wire, 1, n)
  /\ UNCHANGED <<queued, written, start, writing, pumping, partial, inbox, application>>

\* A write made no progress for stall_timeout: the connection is closed.
MayStall == Busy /\ ~lost /\ Len(wire) >= Window
Stall == MayStall /\ \E n \in 0 .. Len(wire) : Lose(n)

WriterStep == WriteEvent \/ WriteChunk \/ WriteFails \/ Stall

-----------------------------------------------------------------------------
(***************************************************************************)
(* pump_frames.                                                            *)
(***************************************************************************)
Oversized(ms) == Len(ms) > 2 * MaxMembers

\* Whether the frame leads to a frame for the application: what does not
\* decode, a DELIVER, a chunk before the last and an oversized snapshot do not.
HandsOut(frame) ==
  IF frame.tag = SNAPSHOT THEN ~frame.more /\ ~Oversized(partial[frame.topic] \o frame.members)
  ELSE frame.tag \notin {Malformed.tag, DELIVER}

\* A chunk's members are added to those of its topic, which are handed out
\* with the last chunk, or dropped if they are too many.
Merge(chunk) ==
  LET t == chunk.topic
      ms == partial[t] \o chunk.members
  IN  /\ partial' = [partial EXCEPT ![t] = IF chunk.more /\ ~Oversized(ms) THEN ms ELSE <<>>]
      /\ inbox' = IF HandsOut(chunk) THEN Append(inbox, Snapshot(t, FALSE, ms)) ELSE inbox

\* read_frame returns a frame; a bad length prefix would end the pump.
Arrived == wire # <<>> /\ Peek(Head(wire)) = "frame"
Arriving == ServerDecode(FrameTag(Head(wire)), FrameBody(Head(wire)))

\* tx.send waits while the channel is full and fails once the receiver is
\* gone.  A frame whose send waits is the head of wire.
Full == Len(inbox) - drawn >= InboxLen
MayHandOut == receiving /\ ~Full
Undeliverable == Arrived /\ HandsOut(Arriving) /\ ~receiving

Pump ==
  /\ pumping /\ Arrived
  /\ HandsOut(Arriving) => MayHandOut
  /\ wire' = Tail(wire)
  /\ IF Arriving.tag = SNAPSHOT THEN Merge(Arriving)
     ELSE /\ inbox' = IF HandsOut(Arriving) THEN Append(inbox, Arriving) ELSE inbox
          /\ UNCHANGED partial
  /\ UNCHANGED <<queued, written, start, writing, lost, pumping, application>>

\* The frame in hand cannot be handed out, or all that arrived on a lost
\* connection is read.  The stream's end is dropped, which stops it.
PumpEnds ==
  /\ pumping
  /\ Undeliverable \/ (lost /\ wire = <<>>)
  /\ pumping' = FALSE
  /\ wire' = SubSeq(wire, 2, Len(wire))
  /\ partial' = [t \in Topics |-> <<>>]
  /\ UNCHANGED <<queued, written, start, writing, lost, inbox, application>>

PumpStep == Pump \/ PumpEnds

\* The application: it receives a frame, or drops the receiver.
Receive ==
  /\ receiving /\ drawn < Len(inbox)
  /\ drawn' = drawn + 1
  /\ UNCHANGED <<queued, written, start, writing, wire, lost, pumping, partial, inbox, receiving>>

DropFrames ==
  /\ receiving
  /\ receiving' = FALSE
  /\ UNCHANGED <<queued, written, start, writing, wire, lost, pumping, partial, inbox, drawn>>

\* The writer and the pump are tasks that Tokio runs while they can go on: a
\* write progresses, fails or reaches the stall timeout, and the transport
\* moves what was written on a connection that is not lost.  Nothing is assumed
\* of the application.  This is weak fairness with ENABLED written out.
MayPump ==
  /\ pumping
  /\ \/ Arrived /\ (HandsOut(Arriving) => ~receiving \/ ~Full)
     \/ lost /\ wire = <<>>
SessionFairness ==
  /\ []<>~Busy \/ []<><<WriterStep>>_session
  /\ []<>~MayPump \/ []<><<PumpStep>>_session

-----------------------------------------------------------------------------
\* The client's inbox is what the room queued, in that order, each snapshot
\* whole: no cut into chunks, and no loss of the connection between two of
\* them, shows in what pump_frames hands out.  What it has of a snapshot is
\* always the beginning of the next item it is to hand out, so no topic keeps
\* members of an earlier one and the guard against oversized snapshots drops
\* nothing.
SnapshotsArriveWhole ==
  /\ IsPrefix(inbox, [i \in DOMAIN queued |-> Said(queued[i])])
  /\ \A t \in Topics : partial[t] # <<>> =>
       LET next == queued[Len(inbox) + 1] IN
       next.tag = SNAPSHOT /\ next.topic = t /\ IsPrefix(partial[t], next.members)

\* Whatever the lengths of the entries and the limits, the loop of
\* encode_snapshot ends, and no client holds session_writer up: every queued
\* item is written, unless the connection is lost, to the stall timeout among
\* others, or the application has dropped its receiver.  If moreover the
\* application does not leave the channel full for ever, every item reaches it.
QueuedArrives ==
  /\ \A n \in 1 .. MaxItems : Len(queued) >= n ~> written >= n \/ lost \/ ~receiving
  /\ []<>~Full => \A n \in 1 .. MaxItems : Len(queued) >= n ~> Len(inbox) >= n \/ lost \/ ~receiving
=============================================================================
