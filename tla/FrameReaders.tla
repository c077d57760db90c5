--------------------------- MODULE FrameReaders ----------------------------
(***************************************************************************)
(* Reading the streams of a connection: the SFU's read_loop on the session *)
(* stream and read_lane on the lane streams a client opens, the client's   *)
(* pump_lane on the lane streams the SFU opens (pump_frames is             *)
(* SessionStream's).  One task reads each, and a bad length prefix that    *)
(* the SFU meets on one of them closes the connection under all others.    *)
(*                                                                         *)
(* A stream is a lane byte (none on the session stream) and items: wire    *)
(* forms of frames, bodies that no frame has, and length prefixes out of   *)
(* range.  It may be cut off anywhere.                                     *)
(***************************************************************************)
EXTENDS Proto

CONSTANTS
  Session,   \* the session stream, read by the SFU
  Up,        \* streams the client opened, the session stream among them
  Down,      \* lane streams the SFU opened
  Contents   \* what the streams of a behaviour carry: functions from those that
             \* carry something to [byte |-> the lane byte, items |-> what was sent,
             \* cut |-> how many of the last bytes do not arrive]

\* A frame's length and tag before its body, or a length out of range.
IsItem(item) ==
  \/ Len(item) >= 2 /\ item[1] = Len(item) - 1
  \/ Len(item) = 1 /\ BadLength(item[1])

ASSUME ReadersAssumption ==
  /\ Session \in Up /\ Up \cap Down = {}
  /\ \A c \in Contents : \A s \in DOMAIN c :
       /\ s \in Up \cup Down
       /\ c[s].items \in Seq(Seq(Nat)) /\ \A i \in DOMAIN c[s].items : IsItem(c[s].items[i])
       /\ c[s].cut \in 0 .. Len(FlattenSeq(c[s].items))

VARIABLES
  content,     \* the streams' Contents
  input,       \* input[s]: the bytes of s that are still to be read
  state,       \* state[s]: where its reader is
  taken,       \* taken[s]: what it made of the frames it did not skip
  skipped,     \* skipped[s]: how many it answered with ERROR or counted as skipped
  closed,      \* the connection was closed with close::PROTOCOL
  gone,        \* the connection, or the session the readers belong to, has ended
  delivering  \* the application holds Inbox::deliveries

readers == <<content, input, state, taken, skipped, closed, gone, delivering>>

Streams == DOMAIN content

\* read_lane_byte at the end of the stream, and Lane::from_byte.
NoByte == 256
LaneOf(byte) ==
  CASE byte = 1 -> "control" [] byte = 2 -> "interactive" [] byte = 3 -> "bulk"
    [] byte = NoByte -> "absent" [] OTHER -> "unknown"
NoLane == {"unknown", "absent"}
Lane(s) == IF s = Session THEN "session" ELSE LaneOf(content[s].byte)

\* The bytes of all items.
Whole(s) == FlattenSeq(content[s].items)

\* A reader is before the lane byte, at a frame, after the one frame of a
\* bulk stream, or over: at the stream's end or an error of its own, having
\* stopped the stream, with a DELIVER that nobody receives ("left"), or failed
\* with the connection.
ReadersInit ==
  /\ content \in Contents
  /\ input = [s \in Streams |-> SubSeq(Whole(s), 1, Len(Whole(s)) - content[s].cut)]
  /\ state = [s \in Streams |-> IF s = Session THEN "frame" ELSE "byte"]
  /\ taken = [s \in Streams |-> <<>>]
  /\ skipped = [s \in Streams |-> 0]
  /\ closed = FALSE
  /\ gone = FALSE
  /\ delivering = TRUE

-----------------------------------------------------------------------------
\* read_lane_byte.  The SFU stops a stream with an unknown lane; the client
\* counts it and drops it.
ReadByte(s) ==
  /\ state[s] = "byte"
  /\ state' = [state EXCEPT ![s] =
       CASE Lane(s) \notin NoLane -> "frame"
         [] Lane(s) = "unknown" /\ s \in Up -> "stopped"
         [] OTHER -> "ended"]
  /\ skipped' = [skipped EXCEPT ![s] = IF Lane(s) = "unknown" /\ s \in Down THEN 1 ELSE 0]
  /\ UNCHANGED <<content, input, taken, closed, gone, delivering>>

\* The DELIVER of a PUBLISH or PUBLISH_TO: a new header, and the topic and
\* payload bytes of the frame's body (decode_lane_frame, Deliver::new).
Forward(frame, body) == Framed(DELIVER, Topic(body) \o frame.data)

\* Whether the frame belongs on the stream: handle_frame, decode_lane_frame
\* and pump_lane.
Takes(s, frame) ==
  /\ frame # Malformed
  /\ IF s \in Down THEN frame.tag = DELIVER ELSE IsLaneFrame(frame) <=> s # Session

\* Where the reader is once it has dealt with a frame.  The SFU stops a bulk
\* stream for a frame it does not take, the client leaves it after any.
NextState(s, ok) ==
  CASE Lane(s) # "bulk" -> "frame"
    [] Lane(s) = "bulk" /\ s \in Down -> "ended"
    [] OTHER -> IF ok THEN "after" ELSE "stopped"

\* decode, on either side of the connection.
Decode(s, tag, body) == IF s \in Up THEN ClientDecode(tag, body) ELSE ServerDecode(tag, body)

\* read_frame, decode, and what the reader does with the frame; a DELIVER needs
\* the application's receiver.
ReadFrame(s) ==
  /\ state[s] = "frame"
  /\ Peek(input[s]) = "frame"
  /\ LET body == FrameBody(input[s])
         frame == Decode(s, FrameTag(input[s]), body)
         ok == Takes(s, frame)
     IN  /\ ok => s \in Up \/ delivering
         /\ state' = [state EXCEPT ![s] = NextState(s, ok)]
         /\ taken' = IF ~ok THEN taken
                     ELSE [taken EXCEPT ![s] = Append(@, IF s \in Up \ {Session} THEN Forward(frame, body)
                                                         ELSE frame)]
         /\ skipped' = [skipped EXCEPT ![s] = IF ok \/ NextState(s, ok) = "stopped" THEN @ ELSE @ + 1]
  /\ input' = [input EXCEPT ![s] = After(FrameLen(input[s]), input[s])]
  /\ UNCHANGED <<content, closed, gone, delivering>>

\* pump_lane has read a DELIVER and tx.send fails: it ends, counting nothing.
LoseDelivery(s) ==
  /\ state[s] = "frame" /\ s \in Down /\ ~delivering
  /\ Peek(input[s]) = "frame"
  /\ Takes(s, Decode(s, FrameTag(input[s]), FrameBody(input[s])))
  /\ state' = [state EXCEPT ![s] = "left"]
  /\ input' = [input EXCEPT ![s] = After(FrameLen(input[s]), input[s])]
  /\ UNCHANGED <<content, taken, skipped, closed, gone, delivering>>

\* The application drops Inbox::deliveries.
DropDeliveries ==
  /\ delivering
  /\ delivering' = FALSE
  /\ UNCHANGED <<content, input, state, taken, skipped, closed, gone>>

\* Faulty: the error of a bulk stream's reader is not looked at.
ClosesUnlessBulk(s) == s \in Up /\ Lane(s) # "bulk"

\* The SFU closes the connection on a FrameLengthError (accept_lanes,
\* serve_connection); the client's pump_lane only ends.
Closes(s) == s \in Up

\* read_frame found no frame.  The end of the session stream is the end of
\* the session, which takes the lane readers with it.
EndOfFrames(s) ==
  /\ state[s] = "frame"
  /\ Peek(input[s]) # "frame"
  /\ state' = [state EXCEPT ![s] = "ended"]
  /\ closed' = (closed \/ (Peek(input[s]) = "length" /\ Closes(s)))
  /\ gone' = (gone \/ s = Session)
  /\ UNCHANGED <<content, input, taken, skipped, delivering>>

\* "One frame per bulk stream: the next thing must be its end."
ReadAfter(s) ==
  /\ state[s] = "after"
  /\ state' = [state EXCEPT ![s] = IF input[s] # <<>> THEN "stopped" ELSE "ended"]
  /\ UNCHANGED <<content, input, taken, skipped, closed, gone, delivering>>

\* The connection is lost.
Go ==
  /\ gone' = TRUE
  /\ UNCHANGED <<content, input, state, taken, skipped, closed, delivering>>

\* A read fails on a connection that is closed or gone; an aborted reader.
Fail(s) ==
  /\ closed \/ gone
  /\ state[s] \in {"byte", "frame", "after"}
  /\ state' = [state EXCEPT ![s] = "failed"]
  /\ UNCHANGED <<content, input, taken, skipped, closed, gone, delivering>>

Step(s) == ReadByte(s) \/ ReadFrame(s) \/ LoseDelivery(s) \/ EndOfFrames(s) \/ ReadAfter(s) \/ Fail(s)

-----------------------------------------------------------------------------
\* Items that arrived whole, before the first bad length prefix.
Intact(s) ==
  LET items == content[s].items
      Bytes(n) == Len(FlattenSeq(SubSeq(items, 1, n)))
  IN  Max({n \in 0 .. Len(items) :
             /\ Bytes(n) <= Bytes(Len(items)) - content[s].cut
             /\ \A i \in 1 .. n : ~BadLength(items[i][1])})

\* The ways to take an item's body apart, and the frames among them that are
\* encoded as the item.
Readings(item) ==
  LET tag == FrameTag(item)
      body == FrameBody(item)
      Part(i, j) == SubSeq(body, i + 1, j)
      Split(i, j) == CASE tag \in {SUBSCRIBE, UNSUBSCRIBE} -> Plain(tag, Part(0, i))
                       [] tag \in {JOINED, LEFT} -> About(tag, Part(0, i), Part(i, j))
                       [] tag \in {PUBLISH_TO, PRESENCE} -> To(tag, Part(0, i), Part(i, j), Part(j, Len(body)))
                       [] OTHER -> With(tag, Part(0, i), Part(i, Len(body)))
  IN  {Split(i, j) : i, j \in 0 .. Len(body)}
Meant(item) == {f \in Readings(item) : IsFrame(f) /\ Encode(f) = item}

\* What the peer means by an item, as the reader is to take it: a sequence of
\* at most one.
Values(s, item) ==
  LET meant == Meant(item) IN
  CASE s = Session -> {f \in meant : f.tag \in {SUBSCRIBE, UNSUBSCRIBE, ANNOUNCE}}
    [] s \in Down -> {f \in meant : f.tag = DELIVER}
    [] OTHER -> {Encode(With(DELIVER, f.topic, f.data)) : f \in {g \in meant : IsLaneFrame(g)}}
Meaning(s, item) ==
  IF Values(s, item) = {} THEN <<>> ELSE <<CHOOSE v \in Values(s, item) : TRUE>>

\* What is to be taken from a stream: of the items that arrived whole, those
\* that are frames of the stream's kind; on a bulk stream of the first only.
Expected(s) ==
  CASE Lane(s) \in NoLane -> 0
    [] Lane(s) = "bulk" -> Min({1, Intact(s)})
    [] OTHER -> Intact(s)
Wanted(s) == FlattenSeq([i \in 1 .. Expected(s) |-> Meaning(s, content[s].items[i])])

\* Every reader takes what the peer sent and the stream is for, as it was sent
\* and in that order, a DELIVER with the publisher's topic and payload, and
\* has taken all of it when it comes to the stream's end: malformed frames,
\* unknown lanes, trailing bytes, a cut and what other streams carry cost
\* nothing.
TakesWhatIsWanted ==
  \A s \in Streams :
    /\ IsPrefix(taken[s], Wanted(s))
    /\ state[s] \in {"ended", "stopped"} => taken[s] = Wanted(s)

\* What arrives of a stream after its first n items.
Beyond(s, n) ==
  SubSeq(Whole(s), Len(FlattenSeq(SubSeq(content[s].items, 1, n))) + 1, Len(Whole(s)) - content[s].cut)

\* A frame that was read and not taken has been reported: by an ERROR, by the
\* client's skipped counter, or by stopping its bulk stream.  The one exception
\* is a DELIVER that a client's reader has in hand once the application has
\* dropped its receiver: that reader ends right behind it, having accounted for
\* every frame before.  The SFU closes the connection with close::PROTOCOL for
\* a bad length prefix, on whichever stream, and for nothing else.
NoFrameVanishes ==
  /\ \A s \in Streams : Lane(s) \notin NoLane =>
       LET n == Len(taken[s]) + skipped[s] IN
       /\ state[s] = "ended" => n = Expected(s)
       /\ state[s] = "left" =>
            /\ s \in Down /\ ~delivering
            /\ n < Expected(s) /\ input[s] = Beyond(s, n + 1)
            /\ Meaning(s, content[s].items[n + 1]) # <<>>
  /\ closed <=> \E s \in Streams \cap Up : state[s] = "ended" /\ Peek(input[s]) = "length" /\ Lane(s) \notin NoLane
=============================================================================
