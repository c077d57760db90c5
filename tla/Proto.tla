------------------------------- MODULE Proto -------------------------------
(***************************************************************************)
(* The frames of the protocol and their wire form (proto.rs).              *)
(*                                                                         *)
(* A byte is a number.  Topics and endpoint ids are Width bytes long; the  *)
(* fields of fixed width (the length prefix, the entry count and blob      *)
(* length of a SNAPSHOT) are one number each.                              *)
(***************************************************************************)
EXTENDS Sequences, FiniteSetsExt

CONSTANTS
  Width,       \* bytes of a topic or an endpoint id
  Ids,         \* the byte strings that are endpoint ids
  CountMax,    \* u16::MAX, the largest entry count a SNAPSHOT can state
  MaxFrameLen  \* MAX_FRAME_LEN

ASSUME ProtoAssumption ==
  /\ {Width, CountMax, MaxFrameLen} \subseteq Nat \ {0}
  /\ \A id \in Ids : id \in Seq(Nat) /\ Len(id) = Width

SUBSCRIBE == 33
UNSUBSCRIBE == 34
ANNOUNCE == 35
PUBLISH == 36
PUBLISH_TO == 37
SNAPSHOT == 49
JOINED == 50
LEFT == 51
PRESENCE == 52
DELIVER == 53
ERROR == 63

Zero == [i \in 1 .. Width |-> 0]
NoTopic == <<>>

\* Frames without a payload, and with a blob, payload or reason; an ERROR
\* that is not about a topic has NoTopic.
Plain(tag, topic) == [tag |-> tag, topic |-> topic]
About(tag, topic, id) == [tag |-> tag, topic |-> topic, id |-> id]
With(tag, topic, data) == [tag |-> tag, topic |-> topic, data |-> data]
To(tag, topic, id, data) == [tag |-> tag, topic |-> topic, id |-> id, data |-> data]
Snapshot(topic, more, members) ==
  [tag |-> SNAPSHOT, topic |-> topic, more |-> more, members |-> members]

\* The types ClientFrame and ServerFrame, without SNAPSHOT.
IsTopic(t) == t \in Seq(Nat) /\ Len(t) = Width
IsFrame(f) ==
  /\ IsTopic(f.topic) \/ (f.tag = ERROR /\ f.topic = NoTopic)
  /\ \/ f.tag \in {SUBSCRIBE, UNSUBSCRIBE} /\ f = Plain(f.tag, f.topic)
     \/ f.tag \in {JOINED, LEFT} /\ f.id \in Ids /\ f = About(f.tag, f.topic, f.id)
     \/ f.tag \in {ANNOUNCE, PUBLISH, DELIVER, ERROR} /\ f.data \in Seq(Nat)
          /\ f = With(f.tag, f.topic, f.data)
     \/ f.tag \in {PUBLISH_TO, PRESENCE} /\ f.id \in Ids /\ f.data \in Seq(Nat)
          /\ f = To(f.tag, f.topic, f.id, f.data)

IsLaneFrame(f) == f.tag \in {PUBLISH, PUBLISH_TO}

-----------------------------------------------------------------------------
\* As in SequencesExt, which brings the theorems of the library with it: every
\* proof about the frames would carry them.
FlattenSeq(seqs) ==
  IF Len(seqs) = 0 THEN seqs
  ELSE LET joined[i \in 1 .. Len(seqs)] == IF i = 1 THEN seqs[i] ELSE joined[i - 1] \o seqs[i]
       IN  joined[Len(seqs)]

IsPrefix(s, t) == Len(s) <= Len(t) /\ SubSeq(s, 1, Len(s)) = SubSeq(t, 1, Len(s))

-----------------------------------------------------------------------------
(***************************************************************************)
(* encode.                                                                 *)
(***************************************************************************)
Entry(member) == member.id \o <<Len(member.blob)>> \o member.blob

\* frame_header and the body.
Framed(tag, body) == <<1 + Len(body), tag>> \o body

\* encode_snapshot_chunk; the count is written as a u16.
EncodeChunk(topic, more, members) ==
  Framed(SNAPSHOT, topic \o <<IF more THEN 1 ELSE 0, Len(members) % (CountMax + 1)>>
                         \o FlattenSeq([i \in DOMAIN members |-> Entry(members[i])]))

\* Every frame but SNAPSHOT.
Encode(f) ==
  Framed(f.tag,
    CASE f.tag \in {SUBSCRIBE, UNSUBSCRIBE} -> f.topic
      [] f.tag \in {JOINED, LEFT} -> f.topic \o f.id
      [] f.tag \in {ANNOUNCE, PUBLISH, DELIVER} -> f.topic \o f.data
      [] f.tag \in {PUBLISH_TO, PRESENCE} -> f.topic \o f.id \o f.data
      [] f.tag = ERROR -> (IF f.topic = NoTopic THEN Zero ELSE f.topic) \o f.data)

-----------------------------------------------------------------------------
(***************************************************************************)
(* decode.                                                                 *)
(***************************************************************************)
Malformed == [tag |-> 0]

After(n, body) == SubSeq(body, n + 1, Len(body))

\* take_topic, then take_id.
Topic(body) == SubSeq(body, 1, Width)
Id(body) == SubSeq(body, Width + 1, 2 * Width)
HasTopic(body) == Len(body) >= Width
HasId(body) == Len(body) >= 2 * Width /\ Id(body) \in Ids

\* Faulty: what follows the frame's fields is ignored.
EndsAtLoose(body, n) == Len(body) >= n

\* "trailing bytes in frame"
EndsAt(body, n) == Len(body) = n

ClientDecode(tag, body) ==
  CASE tag \in {SUBSCRIBE, UNSUBSCRIBE} /\ EndsAt(body, Width) -> Plain(tag, Topic(body))
    [] tag \in {ANNOUNCE, PUBLISH} /\ HasTopic(body) -> With(tag, Topic(body), After(Width, body))
    [] tag = PUBLISH_TO /\ HasId(body) -> To(tag, Topic(body), Id(body), After(2 * Width, body))
    [] OTHER -> Malformed

\* One turn of SNAPSHOT's loop: acc is what is left of the body, and the
\* members so far; ok is FALSE once an entry is cut short.
TakeEntry(acc) ==
  LET rest == acc.rest
      len == rest[Width + 1]
      ok == /\ acc.ok
            /\ Len(rest) >= Width + 1
            /\ SubSeq(rest, 1, Width) \in Ids
            /\ Len(rest) >= Width + 1 + len
  IN  [ok |-> ok,
       rest |-> IF ok THEN After(Width + 1 + len, rest) ELSE rest,
       members |-> IF ok THEN Append(acc.members, [id |-> SubSeq(rest, 1, Width),
                                                   blob |-> SubSeq(rest, Width + 2, Width + 1 + len)])
                   ELSE acc.members]

SnapshotDecode(body) ==
  IF Len(body) < Width + 2 THEN Malformed ELSE
  LET turn[n \in 0 .. body[Width + 2]] ==
        IF n = 0 THEN [ok |-> TRUE, rest |-> After(Width + 2, body), members |-> <<>>]
        ELSE TakeEntry(turn[n - 1])
      all == turn[body[Width + 2]]
  IN  IF all.ok /\ EndsAt(all.rest, 0)
      THEN Snapshot(Topic(body), body[Width + 1] % 2 = 1, all.members) ELSE Malformed

\* The reasons of ERRORs are ASCII, which from_utf8_lossy keeps.
ServerDecode(tag, body) ==
  CASE tag = SNAPSHOT -> SnapshotDecode(body)
    [] tag \in {JOINED, LEFT} /\ HasId(body) /\ EndsAt(body, 2 * Width) ->
         About(tag, Topic(body), Id(body))
    [] tag = PRESENCE /\ HasId(body) -> To(tag, Topic(body), Id(body), After(2 * Width, body))
    [] tag = DELIVER /\ HasTopic(body) -> With(tag, Topic(body), After(Width, body))
    [] tag = ERROR /\ HasTopic(body) ->
         With(tag, IF Topic(body) = Zero THEN NoTopic ELSE Topic(body), After(Width, body))
    [] OTHER -> Malformed

\* What the wire can say of a frame: an ERROR about the zero topic is one
\* about no topic.
Said(f) == IF f.tag = ERROR /\ f.topic = Zero THEN With(ERROR, NoTopic, f.data) ELSE f

-----------------------------------------------------------------------------
(***************************************************************************)
(* read_frame, on the bytes a stream still has.  A stream that ends inside *)
(* the length prefix reads like one that ends before it.                   *)
(***************************************************************************)
BadLength(len) == len \notin 1 .. MaxFrameLen

\* Bytes of the frame at the head of the stream, its length prefix included.
FrameLen(bytes) == bytes[1] + 1

\* What read_frame returns: "frame", "end", a FrameLengthError, or another
\* error ("truncated").
Peek(bytes) ==
  CASE bytes = <<>> -> "end"
    [] bytes # <<>> /\ BadLength(bytes[1]) -> "length"
    [] bytes # <<>> /\ ~BadLength(bytes[1]) /\ Len(bytes) < FrameLen(bytes) -> "truncated"
    [] OTHER -> "frame"

FrameTag(bytes) == bytes[2]
FrameBody(bytes) == SubSeq(bytes, 3, FrameLen(bytes))
=============================================================================
