--------------------------- MODULE ReadersProofs ----------------------------
(***************************************************************************)
(* Proofs about the readers of a connection's streams (FrameReaders,       *)
(* within Connection), for any number of streams and any contents.         *)
(*                                                                         *)
(* Decode inverts encode (SessionProofs), so an item means at most one     *)
(* frame, and that is the one its reader makes of it (ReadMeaning).        *)
(*                                                                         *)
(* The invariant gives each reader a number n: it has dealt with the first *)
(* n items, what it has still to read is what arrives after them, and what *)
(* it has taken is what they mean (Progress).  At n = Intact there is no   *)
(* further frame to read, and before there is (NextFrame); so a reader     *)
(* that comes to an end has dealt with all it was to (At).  ReadersInv     *)
(* also says what closed the connection.                                   *)
(***************************************************************************)
EXTENDS SessionProofs

-----------------------------------------------------------------------------
(***************************************************************************)
(* The readers.                                                            *)
(***************************************************************************)
\* What the items of a stream mean.
Meanings(s) == [i \in 1 .. Intact(s) |-> Meaning(s, content[s].items[i])]

\* The bytes of the first n items, and those that follow them and arrive.
Bytes(s, n) == Len(First(content[s].items, n))
Arrives(s) == Len(Whole(s)) - content[s].cut
Rest(s, n) == SubSeq(Whole(s), Bytes(s, n) + 1, Arrives(s))

\* The reader of s has dealt with n items.
Counted(s, n) == Len(taken[s]) + skipped[s] = n

\* The reader of s has read item n + 1 too, and not delivered it.
Left(s, n) ==
  /\ Lane(s) \notin NoLane /\ s \in Down /\ ~delivering
  /\ n < Expected(s) /\ Counted(s, n)
  /\ input[s] = Rest(s, n + 1) /\ Meanings(s)[n + 1] # <<>>

At(s, n) ==
  CASE state[s] = "byte" -> n = 0 /\ s # Session
    [] state[s] = "frame" -> Lane(s) \notin NoLane /\ (Lane(s) = "bulk" => n = 0) /\ Counted(s, n)
    [] state[s] = "after" -> Lane(s) = "bulk" /\ n = 1 /\ Counted(s, n)
    [] state[s] = "ended" -> n = Expected(s) /\ (Lane(s) \notin NoLane => Counted(s, n))
    [] state[s] = "stopped" -> n = Expected(s)
    [] state[s] = "left" -> Left(s, n)
    [] OTHER -> n <= Expected(s)

Progress(s, n) ==
  /\ n \in 0 .. Intact(s)
  /\ state[s] # "left" => input[s] = Rest(s, n)
  /\ taken[s] = First(Meanings(s), n)
  /\ At(s, n)

ClosedRight ==
  closed <=> \E s \in Streams \cap Up : state[s] = "ended" /\ Peek(input[s]) = "length" /\ Lane(s) \notin NoLane

States == {"byte", "frame", "after", "ended", "stopped", "left", "failed"}

ReadersInv ==
  /\ content \in Contents
  /\ DOMAIN input = Streams /\ DOMAIN taken = Streams
  /\ state \in [Streams -> States]
  /\ skipped \in [Streams -> Nat]
  /\ \A s \in Streams : \E n \in Nat : Progress(s, n)
  /\ ClosedRight

-----------------------------------------------------------------------------
\* The frames among an item's readings are the ones it encodes.
LEMMA Reads ==
  ASSUME NEW item, NEW i \in 0 .. Len(FrameBody(item)), NEW j \in 0 .. Len(FrameBody(item))
  PROVE  LET tag == FrameTag(item)
             body == FrameBody(item)
             Part(k, l) == SubSeq(body, k + 1, l)
         IN  /\ tag \in {SUBSCRIBE, UNSUBSCRIBE} => Plain(tag, Part(0, i)) \in Readings(item)
             /\ tag = PUBLISH_TO => To(tag, Part(0, i), Part(i, j), Part(j, Len(body))) \in Readings(item)
             /\ tag \in {ANNOUNCE, PUBLISH, DELIVER} => With(tag, Part(0, i), Part(i, Len(body))) \in Readings(item)
<1> DEFINE tag == FrameTag(item)
           body == FrameBody(item)
           Part(k, l) == SubSeq(body, k + 1, l)
           Split(k, l) == CASE tag \in {SUBSCRIBE, UNSUBSCRIBE} -> Plain(tag, Part(0, k))
                            [] tag \in {JOINED, LEFT} -> About(tag, Part(0, k), Part(k, l))
                            [] tag \in {PUBLISH_TO, PRESENCE} -> To(tag, Part(0, k), Part(k, l), Part(l, Len(body)))
                            [] OTHER -> With(tag, Part(0, k), Part(k, Len(body)))
<1>1. Readings(item) = {Split(k, l) : k, l \in 0 .. Len(body)}
  BY DEF Readings
<1>2. Split(i, j) = CASE tag \in {SUBSCRIBE, UNSUBSCRIBE} -> Plain(tag, Part(0, i))
                      [] tag \in {JOINED, LEFT} -> About(tag, Part(0, i), Part(i, j))
                      [] tag \in {PUBLISH_TO, PRESENCE} -> To(tag, Part(0, i), Part(i, j), Part(j, Len(body)))
                      [] OTHER -> With(tag, Part(0, i), Part(i, Len(body)))
  OBVIOUS
<1> HIDE DEF Split
<1>3. Split(i, j) \in Readings(item)
  <2> HIDE DEF body
  <2>1. i \in 0 .. Len(body) /\ j \in 0 .. Len(body)
    BY DEF body
  <2> QED
    BY <1>1, <2>1
<1> HIDE DEF tag, body, Part
<1>4. /\ tag \in {SUBSCRIBE, UNSUBSCRIBE} => Split(i, j) = Plain(tag, Part(0, i))
      /\ tag = PUBLISH_TO => Split(i, j) = To(tag, Part(0, i), Part(i, j), Part(j, Len(body)))
      /\ tag \in {ANNOUNCE, PUBLISH, DELIVER} => Split(i, j) = With(tag, Part(0, i), Part(i, Len(body)))
  BY <1>2 DEF SUBSCRIBE, UNSUBSCRIBE, ANNOUNCE, PUBLISH, PUBLISH_TO, JOINED, LEFT, PRESENCE, DELIVER, ERROR
<1> QED
  BY <1>3, <1>4, Zenon DEF tag, body, Part

LEMMA MeantFrames ==
  ASSUME NEW f, IsFrame(f), f.tag \in ClientTags \cup {DELIVER}
  PROVE  f \in Meant(Encode(f))
<1> DEFINE item == Encode(f)
           body == BodyOf(f)
<1>1. f.tag \in Nat /\ body \in Seq(Nat)
  BY ClientCodec, DeliverCodec, Zenon
<1>2. item = Framed(f.tag, body)
  BY EncodeIs, Zenon
<1>3. FrameTag(item) = f.tag /\ FrameBody(item) = body
  <2> HIDE DEF body, item
  <2> QED
    BY <1>1, <1>2, FramedFacts, Zenon
<1>4. Len(body) \in Nat /\ 0 + 1 = 1 /\ 2 * Width = Width + Width /\ Len(body) \in 0 .. Len(body)
  BY <1>1, WidthNat
<1>5. CASE f.tag \in {SUBSCRIBE, UNSUBSCRIBE}
  <2>1. IsTopic(f.topic) /\ f = Plain(f.tag, f.topic)
    BY <1>5 DEF SUBSCRIBE, UNSUBSCRIBE, ANNOUNCE, PUBLISH, PUBLISH_TO, JOINED, LEFT, PRESENCE, DELIVER, ERROR, IsFrame
  <2>2. body = f.topic
    BY <1>5, BodyIs, Zenon
  <2>3. SubSeq(body, 0 + 1, Len(body)) = f.topic
    BY <1>1, <1>4, <2>2
  <2> HIDE DEF item, body
  <2>4. Plain(FrameTag(item), SubSeq(FrameBody(item), 0 + 1, Len(body))) \in Readings(item)
    BY <1>3, <1>4, <1>5, Reads, Zenon
  <2>5. f \in Readings(item)
    BY <1>3, <2>1, <2>3, <2>4, Zenon
  <2> QED
    BY <2>5, Zenon DEF Meant, item
<1>6. CASE f.tag \in {ANNOUNCE, PUBLISH, DELIVER}
  <2>1. IsTopic(f.topic) /\ f.data \in Seq(Nat) /\ f = With(f.tag, f.topic, f.data)
    BY <1>6 DEF SUBSCRIBE, UNSUBSCRIBE, ANNOUNCE, PUBLISH, PUBLISH_TO, JOINED, LEFT, PRESENCE, DELIVER, ERROR, IsFrame
  <2>2. body = f.topic \o f.data
    BY <1>6, BodyIs, Zenon
  <2>3. HasTopic(body) /\ Topic(body) = f.topic /\ After(Width, body) = f.data
    <3> DEFINE x == f.topic \o f.data
    <3>1. HasTopic(x) /\ Topic(x) = f.topic /\ After(Width, x) = f.data
      BY <2>1, TopicThen
    <3> HIDE DEF x
    <3> QED
      BY <2>2, <3>1, Zenon DEF x
  <2> HIDE DEF item, body
  <2>4. Width \in 0 .. Len(body)
    BY <1>4, <2>3, WidthNat DEF HasTopic
  <2>5. SubSeq(body, 0 + 1, Width) = f.topic /\ SubSeq(body, Width + 1, Len(body)) = f.data
    BY <1>4, <2>3, Zenon DEF Topic, After
  <2>6. With(FrameTag(item), SubSeq(FrameBody(item), 0 + 1, Width), SubSeq(FrameBody(item), Width + 1, Len(FrameBody(item)))) \in Readings(item)
    BY <1>3, <1>6, <2>4, Reads, Zenon
  <2>7. f \in Readings(item)
    BY <1>3, <2>1, <2>5, <2>6, Zenon
  <2> QED
    BY <2>7, Zenon DEF Meant, item
<1>7. CASE f.tag = PUBLISH_TO
  <2>1. IsTopic(f.topic) /\ f.id \in Ids /\ f.data \in Seq(Nat) /\ f = To(f.tag, f.topic, f.id, f.data)
    BY <1>7 DEF SUBSCRIBE, UNSUBSCRIBE, ANNOUNCE, PUBLISH, PUBLISH_TO, JOINED, LEFT, PRESENCE, DELIVER, ERROR, IsFrame
  <2>2. body = f.topic \o f.id \o f.data
    BY <1>7, BodyIs, Zenon
  <2>3. HasId(body) /\ Topic(body) = f.topic /\ Id(body) = f.id /\ After(2 * Width, body) = f.data
    <3> DEFINE x == f.topic \o f.id \o f.data
    <3>1. HasId(x) /\ Topic(x) = f.topic /\ Id(x) = f.id /\ After(2 * Width, x) = f.data
      BY <2>1, TopicIdThen
    <3> HIDE DEF x
    <3> QED
      BY <2>2, <3>1, Zenon DEF x
  <2> HIDE DEF item, body
  <2>4. Width \in 0 .. Len(body) /\ 2 * Width \in 0 .. Len(body)
    BY <1>4, <2>3, WidthNat DEF HasId
  <2>5. /\ SubSeq(body, 0 + 1, Width) = f.topic /\ SubSeq(body, Width + 1, 2 * Width) = f.id
        /\ SubSeq(body, 2 * Width + 1, Len(body)) = f.data
    BY <1>4, <2>3, Zenon DEF Topic, Id, After
  <2>6. To(FrameTag(item), SubSeq(FrameBody(item), 0 + 1, Width), SubSeq(FrameBody(item), Width + 1, 2 * Width),
           SubSeq(FrameBody(item), 2 * Width + 1, Len(FrameBody(item)))) \in Readings(item)
    BY <1>3, <1>7, <2>4, Reads, Zenon
  <2>7. f \in Readings(item)
    BY <1>3, <2>1, <2>5, <2>6, Zenon
  <2> QED
    BY <2>7, Zenon DEF Meant, item
<1> QED
  BY <1>5, <1>6, <1>7, Zenon DEF ClientTags

-----------------------------------------------------------------------------
\* The client's frames that an item encodes are what the SFU decodes it to,
\* and the DELIVERs what the client does.
LEMMA UpMeant ==
  ASSUME NEW tag \in Nat, NEW body \in Seq(Nat), NEW C \in SUBSET ClientTags
  PROVE  LET d == ClientDecode(tag, body) IN
         {f \in Meant(Framed(tag, body)) : f.tag \in C} = IF d # Malformed /\ d.tag \in C THEN {d} ELSE {}
<1> DEFINE d == ClientDecode(tag, body)
           item == Framed(tag, body)
           M == {f \in Meant(item) : f.tag \in C}
<1>1. ASSUME NEW f \in M PROVE f = d /\ d # Malformed
  <2>1. IsFrame(f) /\ Encode(f) = item /\ f.tag \in ClientTags
    BY <1>1, Zenon DEF Meant
  <2>2. f.tag \in Nat /\ BodyOf(f) \in Seq(Nat) /\ ClientDecode(f.tag, BodyOf(f)) = f
    BY <2>1, ClientCodec
  <2>3. Framed(f.tag, BodyOf(f)) = Framed(tag, body)
    BY <2>1, EncodeIs, Zenon
  <2>4. f.tag = tag /\ BodyOf(f) = body
    <3>1. FrameTag(Framed(tag, body)) = tag /\ FrameBody(Framed(tag, body)) = body
      BY FramedFacts
    <3>2. FrameTag(Framed(f.tag, BodyOf(f))) = f.tag /\ FrameBody(Framed(f.tag, BodyOf(f))) = BodyOf(f)
      <4> DEFINE g == f.tag
                 b == BodyOf(f)
      <4>1. g \in Nat /\ b \in Seq(Nat)
        BY <2>2
      <4> HIDE DEF g, b
      <4>2. FrameTag(Framed(g, b)) = g /\ FrameBody(Framed(g, b)) = b
        BY <4>1, FramedFacts, Zenon
      <4> QED
        BY <4>2, Zenon DEF g, b
    <3> QED
      BY <2>3, <3>1, <3>2, Zenon
  <2>5. f # Malformed
    <3>1. f.tag # 0
      BY <2>1 DEF ClientTags, SUBSCRIBE, UNSUBSCRIBE, ANNOUNCE, PUBLISH, PUBLISH_TO
    <3>2. Malformed.tag = 0
      BY DEF Malformed
    <3> QED
      BY <3>1, <3>2, Zenon
  <2> QED
    BY <2>2, <2>4, <2>5, Zenon
<1>2. ASSUME d # Malformed, d.tag \in C PROVE d \in M
  <2>1. tag \in ClientTags /\ d.tag = tag /\ IsFrame(d) /\ BodyOf(d) = body
    BY <1>2, ClientSound, Zenon
  <2> HIDE DEF d
  <2>2. Encode(d) = item
    BY <2>1, EncodeIs, Zenon
  <2>3. d \in Meant(Encode(d))
    BY <2>1, MeantFrames, Zenon
  <2> QED
    BY <1>2, <2>2, <2>3, Zenon
<1> HIDE DEF d, M
<1>3. M = IF d # Malformed /\ d.tag \in C THEN {d} ELSE {}
  <2>1. CASE d # Malformed /\ d.tag \in C
    BY <1>1, <1>2, <2>1
  <2>2. CASE ~(d # Malformed /\ d.tag \in C)
    <3>1. ASSUME NEW f \in M PROVE FALSE
      <4>1. f.tag \in C
        BY <3>1, Zenon DEF M
      <4> QED
        BY <1>1, <2>2, <4>1, Zenon
    <3>2. M = {}
      BY <3>1, Zenon
    <3> QED
      BY <2>2, <3>2, Zenon
  <2> QED
    BY <2>1, <2>2, Zenon
<1> QED
  BY <1>3, Zenon DEF M, d

LEMMA DownMeant ==
  ASSUME NEW tag \in Nat, NEW body \in Seq(Nat)
  PROVE  LET d == ServerDecode(tag, body) IN
         {f \in Meant(Framed(tag, body)) : f.tag = DELIVER} = IF d # Malformed /\ d.tag = DELIVER THEN {d} ELSE {}
<1> DEFINE d == ServerDecode(tag, body)
           item == Framed(tag, body)
           M == {f \in Meant(item) : f.tag = DELIVER}
<1>1. ASSUME NEW f \in M PROVE f = d /\ d # Malformed
  <2>1. IsFrame(f) /\ Encode(f) = item /\ f.tag = DELIVER
    BY <1>1, Zenon DEF Meant
  <2>2. f.tag \in Nat /\ BodyOf(f) \in Seq(Nat) /\ ServerDecode(f.tag, BodyOf(f)) = Said(f)
    BY <2>1, DeliverCodec
  <2>3. Framed(f.tag, BodyOf(f)) = Framed(tag, body)
    BY <2>1, EncodeIs, Zenon
  <2>4. f.tag = tag /\ BodyOf(f) = body
    <3>1. FrameTag(Framed(tag, body)) = tag /\ FrameBody(Framed(tag, body)) = body
      BY FramedFacts
    <3>2. FrameTag(Framed(f.tag, BodyOf(f))) = f.tag /\ FrameBody(Framed(f.tag, BodyOf(f))) = BodyOf(f)
      <4> DEFINE g == f.tag
                 b == BodyOf(f)
      <4>1. g \in Nat /\ b \in Seq(Nat)
        BY <2>2
      <4> HIDE DEF g, b
      <4>2. FrameTag(Framed(g, b)) = g /\ FrameBody(Framed(g, b)) = b
        BY <4>1, FramedFacts, Zenon
      <4> QED
        BY <4>2, Zenon DEF g, b
    <3> QED
      BY <2>3, <3>1, <3>2, Zenon
  <2>5. f # Malformed
    <3>1. f.tag # 0
      BY <2>1 DEF DELIVER
    <3>2. Malformed.tag = 0
      BY DEF Malformed
    <3> QED
      BY <3>1, <3>2, Zenon
  <2>6. Said(f) = f
    BY <2>1 DEF Said, DELIVER, ERROR
  <2> QED
    BY <2>2, <2>4, <2>5, <2>6, Zenon
<1>2. ASSUME d # Malformed, d.tag = DELIVER PROVE d \in M
  <2>1. tag = DELIVER /\ IsFrame(d) /\ BodyOf(d) = body
    BY <1>2, DeliverSound, Zenon
  <2> HIDE DEF d
  <2>2. Encode(d) = item
    BY <1>2, <2>1, EncodeIs, Zenon
  <2>3. d \in Meant(Encode(d))
    BY <1>2, <2>1, MeantFrames, Zenon
  <2> QED
    BY <1>2, <2>2, <2>3, Zenon
<1> HIDE DEF d, M
<1>3. M = IF d # Malformed /\ d.tag = DELIVER THEN {d} ELSE {}
  <2>1. CASE d # Malformed /\ d.tag = DELIVER
    BY <1>1, <1>2, <2>1
  <2>2. CASE ~(d # Malformed /\ d.tag = DELIVER)
    <3>1. ASSUME NEW f \in M PROVE FALSE
      <4>1. f.tag = DELIVER
        BY <3>1, Zenon DEF M
      <4> QED
        BY <1>1, <2>2, <4>1, Zenon
    <3>2. M = {}
      BY <3>1, Zenon
    <3> QED
      BY <2>2, <3>2, Zenon
  <2> QED
    BY <2>1, <2>2, Zenon
<1> QED
  BY <1>3, Zenon DEF M, d

\* What a reader makes of an item is what the item means on its stream.
Kept(s, tag, body) ==
  IF s \in Up \ {Session} THEN Forward(Decode(s, tag, body), body) ELSE Decode(s, tag, body)

LEMMA ReadMeaning ==
  ASSUME NEW s \in Up \cup Down, NEW tag \in Nat, NEW body \in Seq(Nat)
  PROVE  Meaning(s, Framed(tag, body)) =
           IF Takes(s, Decode(s, tag, body)) THEN <<Kept(s, tag, body)>> ELSE <<>>
<1> DEFINE item == Framed(tag, body)
           d == Decode(s, tag, body)
           ok == Takes(s, d)
           x == Kept(s, tag, body)
<1>0. Session \in Up /\ Up \cap Down = {}
  BY ReadersAssumption, Zenon
<1>1. Meaning(s, item) = IF Values(s, item) = {} THEN <<>> ELSE <<CHOOSE v \in Values(s, item) : TRUE>>
  BY Zenon DEF Meaning
<1>2. Values(s, item) = IF ok THEN {x} ELSE {}
  <2>1. CASE s = Session
    <3> DEFINE C == {SUBSCRIBE, UNSUBSCRIBE, ANNOUNCE}
    <3>1. Values(s, item) = {f \in Meant(item) : f.tag \in C}
      <4>1. s \notin Down
        BY <1>0, <2>1, Zenon
      <4> QED
        BY <2>1, <4>1, Zenon DEF Values
    <3>2. d = ClientDecode(tag, body) /\ x = d
      BY <1>0, <2>1, Zenon DEF Decode, Kept
    <3>3. C \in SUBSET ClientTags
      BY DEF ClientTags
    <3>4. Values(s, item) = IF d # Malformed /\ d.tag \in C THEN {d} ELSE {}
      BY <3>1, <3>2, <3>3, UpMeant, Zenon
    <3>5. d # Malformed => d.tag \in ClientTags
      BY <3>2, ClientSound, Zenon
    <3> HIDE DEF d
    <3>6. ok <=> d # Malformed /\ d.tag \in C
      <4>1. s \notin Down
        BY <1>0, <2>1, Zenon
      <4>2. ok <=> d # Malformed /\ ~IsLaneFrame(d)
        BY <2>1, <4>1, Zenon DEF Takes
      <4>3. ASSUME d.tag \in ClientTags PROVE ~IsLaneFrame(d) <=> d.tag \in C
        BY <4>3 DEF ClientTags, IsLaneFrame, SUBSCRIBE, UNSUBSCRIBE, ANNOUNCE, PUBLISH, PUBLISH_TO
      <4> QED
        BY <3>5, <4>2, <4>3, Zenon
    <3> QED
      BY <3>2, <3>4, <3>6, Zenon
  <2>2. CASE s \in Down
    <3>1. s # Session /\ s \notin Up
      BY <1>0, <2>2, Zenon
    <3>2. Values(s, item) = {f \in Meant(item) : f.tag = DELIVER}
      BY <2>2, <3>1, Zenon DEF Values
    <3>3. d = ServerDecode(tag, body) /\ x = d
      BY <3>1, Zenon DEF Decode, Kept
    <3>4. Values(s, item) = IF d # Malformed /\ d.tag = DELIVER THEN {d} ELSE {}
      BY <3>2, <3>3, DownMeant, Zenon
    <3>5. ok <=> d # Malformed /\ d.tag = DELIVER
      BY <2>2, Zenon DEF Takes
    <3> HIDE DEF ok, d, x
    <3> QED
      BY <3>3, <3>4, <3>5, Zenon
  <2>3. CASE s \in Up /\ s # Session /\ s \notin Down
    <3> DEFINE C == {PUBLISH, PUBLISH_TO}
               D(f) == Encode(With(DELIVER, f.topic, f.data))
    <3>1. Values(s, item) = {D(f) : f \in {g \in Meant(item) : g.tag \in C}}
      BY <2>3, Zenon DEF Values, IsLaneFrame
    <3>2. d = ClientDecode(tag, body) /\ x = Forward(d, body)
      BY <2>3, Zenon DEF Decode, Kept
    <3>3. C \in SUBSET ClientTags
      BY DEF ClientTags
    <3>4. {g \in Meant(item) : g.tag \in C} = IF d # Malformed /\ d.tag \in C THEN {d} ELSE {}
      BY <3>2, <3>3, UpMeant, Zenon
    <3>5. ok <=> d # Malformed /\ d.tag \in C
      BY <2>3, Zenon DEF Takes, IsLaneFrame
    <3>6. ASSUME ok PROVE D(d) = x
      <4>1. tag \in ClientTags /\ d.tag = tag
        BY <3>2, <3>5, <3>6, ClientSound, Zenon
      <4>2. d.topic = Topic(body)
        <5>1. CASE tag = PUBLISH
          <6>1. HasTopic(body)
            BY <3>2, <3>5, <3>6, <5>1 DEF ClientDecode, SUBSCRIBE, UNSUBSCRIBE, ANNOUNCE, PUBLISH, PUBLISH_TO
          <6>2. d = With(tag, Topic(body), After(Width, body))
            BY <3>2, <5>1, <6>1 DEF ClientDecode, SUBSCRIBE, UNSUBSCRIBE, ANNOUNCE, PUBLISH, PUBLISH_TO
          <6> QED
            BY <6>2 DEF With
        <5>2. CASE tag = PUBLISH_TO
          <6>1. HasId(body)
            BY <3>2, <3>5, <3>6, <5>2 DEF ClientDecode, SUBSCRIBE, UNSUBSCRIBE, ANNOUNCE, PUBLISH, PUBLISH_TO
          <6>2. d = To(tag, Topic(body), Id(body), After(2 * Width, body))
            BY <3>2, <5>2, <6>1 DEF ClientDecode, SUBSCRIBE, UNSUBSCRIBE, ANNOUNCE, PUBLISH, PUBLISH_TO
          <6> QED
            BY <6>2 DEF To
        <5> QED
          BY <3>5, <3>6, <4>1, <5>1, <5>2, Zenon
      <4> DEFINE w == With(DELIVER, d.topic, d.data)
      <4>3. w.tag = DELIVER /\ w.topic = d.topic /\ w.data = d.data
        BY DEF With
      <4> HIDE DEF w, d
      <4>4. BodyOf(w) = Topic(body) \o d.data
        BY <4>2, <4>3, BodyIs, Zenon
      <4>5. Encode(w) = Forward(d, body)
        BY <4>3, <4>4, EncodeIs, Zenon DEF Forward
      <4> QED
        BY <3>2, <4>5, Zenon DEF w
    <3> HIDE DEF D, ok, d, x, C, item
    <3>7. CASE ok
      <4>1. {g \in Meant(item) : g.tag \in C} = {d}
        BY <3>4, <3>5, <3>7, Zenon
      <4>2. {D(f) : f \in {d}} = {D(d)}
        OBVIOUS
      <4> QED
        BY <3>1, <3>6, <3>7, <4>1, <4>2, Zenon
    <3>8. CASE ~ok
      <4>1. {g \in Meant(item) : g.tag \in C} = {}
        BY <3>4, <3>5, <3>8, Zenon
      <4>2. {D(f) : f \in {}} = {}
        OBVIOUS
      <4> QED
        BY <3>1, <3>8, <4>1, <4>2, Zenon
    <3> QED
      BY <3>7, <3>8, Zenon
  <2>4. s = Session \/ s \in Down \/ (s \in Up /\ s # Session /\ s \notin Down)
    BY Zenon
  <2> QED
    BY <2>1, <2>2, <2>3, <2>4, Zenon
<1> HIDE DEF ok, x, d
<1>3. {x} # {} /\ (CHOOSE v \in {x} : TRUE) = x
  BY Zenon
<1>4. Meaning(s, item) = IF ok THEN <<x>> ELSE <<>>
  BY <1>1, <1>2, <1>3, Zenon
<1> QED
  BY <1>4, Zenon DEF ok, x, d

-----------------------------------------------------------------------------
(***************************************************************************)
(* Where the items of a stream lie.                                        *)
(***************************************************************************)
LEMMA ContentFacts ==
  ASSUME content \in Contents, NEW s \in Streams
  PROVE  /\ s \in Up \cup Down
         /\ content[s].items \in Seq(Seq(Nat))
         /\ Len(content[s].items) \in Nat
         /\ \A i \in 1 .. Len(content[s].items) : content[s].items[i] \in Seq(Nat) /\ IsItem(content[s].items[i])
         /\ content[s].cut \in Nat /\ content[s].cut <= Len(Whole(s)) /\ Len(Whole(s)) \in Nat
         /\ Whole(s) \in Seq(Nat) /\ Whole(s) = First(content[s].items, Len(content[s].items))
<1> DEFINE items == content[s].items
           cut == content[s].cut
<1>1. /\ s \in Up \cup Down
      /\ items \in Seq(Seq(Nat)) /\ \A i \in DOMAIN items : IsItem(items[i])
      /\ cut \in 0 .. Len(FlattenSeq(items))
  BY ReadersAssumption, Zenon DEF Streams
<1> HIDE DEF items, cut
<1>2. Len(items) \in Nat /\ DOMAIN items = 1 .. Len(items) /\ \A i \in 1 .. Len(items) : items[i] \in Seq(Nat)
  BY <1>1
<1>3. First(items, Len(items)) = FlattenSeq(items)
  BY <1>1, FirstAll, Zenon
<1>4. First(items, Len(items)) \in Seq(Nat)
  <2>1. Firsts(Nat, items)
    BY <1>1, FirstSteps, Zenon
  <2>2. Len(items) \in 0 .. Len(items)
    BY <1>2
  <2> QED
    BY <2>1, <2>2, Zenon DEF Firsts
<1>5. Whole(s) = FlattenSeq(items)
  BY Zenon DEF Whole, items
<1> DEFINE w == FlattenSeq(items)
<1>6. w \in Seq(Nat) /\ cut \in 0 .. Len(w)
  BY <1>1, <1>3, <1>4, Zenon
<1> HIDE DEF w
<1>7. Len(w) \in Nat
  BY <1>6
<1>8. cut \in Nat /\ cut <= Len(w)
  BY <1>6, <1>7
<1> QED
  BY <1>1, <1>2, <1>3, <1>5, <1>6, <1>7, <1>8, Zenon DEF w, items, cut

\* The bytes of the first n items.
LEMMA BytesFacts ==
  ASSUME NEW items \in Seq(Seq(Nat))
  PROVE  LET B(n) == Len(First(items, n)) IN
         /\ B(0) = 0
         /\ \A n \in 0 .. Len(items) : B(n) \in Nat
         /\ \A n \in 1 .. Len(items) : B(n) = B(n - 1) + Len(items[n])
         /\ \A n \in 0 .. Len(items) : \A m \in n .. Len(items) : B(n) <= B(m)
<1> DEFINE B(n) == Len(First(items, n))
<1>1. Firsts(Nat, items)
  BY FirstSteps, Zenon
<1>2. First(items, 0) = <<>>
  BY <1>1, Zenon DEF Firsts
<1>3. \A n \in 0 .. Len(items) : First(items, n) \in Seq(Nat)
  BY <1>1, Zenon DEF Firsts
<1>4. ASSUME NEW n \in 1 .. Len(items) PROVE B(n) = B(n - 1) + Len(items[n])
  <2>1. First(items, n) = First(items, n - 1) \o items[n]
    BY <1>1, Zenon DEF Firsts
  <2>2. n - 1 \in 0 .. Len(items) /\ items[n] \in Seq(Nat)
    OBVIOUS
  <2>3. First(items, n - 1) \in Seq(Nat)
    BY <1>3, <2>2, Zenon
  <2> DEFINE a == First(items, n - 1)
             c == items[n]
  <2> HIDE DEF a, c
  <2>4. Len(a \o c) = Len(a) + Len(c)
    <3>1. a \in Seq(Nat) /\ c \in Seq(Nat)
      BY <2>2, <2>3 DEF a, c
    <3>2. Halved(Nat, a \o c, a, c)
      BY <3>1, Halves, Zenon
    <3> QED
      BY <3>2, Zenon DEF Halved
  <2> QED
    BY <2>1, <2>4, Zenon DEF a, c
<1>5. ASSUME NEW n \in 0 .. Len(items), NEW m \in n .. Len(items) PROVE B(n) <= B(m)
  <2>1. Grows(Nat, items, n, m)
    BY FirstGrows, Zenon
  <2>2. PICK z \in Seq(Nat) : First(items, m) = First(items, n) \o z
    BY <2>1, Zenon DEF Grows
  <2> DEFINE a == First(items, n)
  <2>3. a \in Seq(Nat)
    BY <1>3
  <2> HIDE DEF a
  <2>4. Halved(Nat, a \o z, a, z)
    BY <2>3, Halves, Zenon
  <2>5. Len(a \o z) = Len(a) + Len(z) /\ Len(a) \in Nat /\ Len(z) \in Nat
    <3>1. Len(a \o z) = Len(a) + Len(z)
      BY <2>4, Zenon DEF Halved
    <3>2. Len(a) \in Nat /\ Len(z) \in Nat
      BY <2>3
    <3> QED
      BY <3>1, <3>2
  <2> DEFINE l == Len(a \o z)
  <2>6. Len(a) <= l
    <3>1. l = Len(a) + Len(z) /\ Len(a) \in Nat /\ Len(z) \in Nat
      BY <2>5
    <3> HIDE DEF l
    <3> QED
      BY <3>1
  <2> QED
    BY <2>2, <2>6, Zenon DEF a
<1>6. \A n \in 0 .. Len(items) : B(n) \in Nat
  BY <1>3, LenProperties
<1>7. Len(<<>>) = 0
  OBVIOUS
<1> QED
  BY <1>2, <1>4, <1>5, <1>6, <1>7, Zenon

\* Intact is the largest number of items that arrive whole.
LEMMA IntactFacts ==
  ASSUME content \in Contents, NEW s \in Streams
  PROVE  LET items == content[s].items IN
         /\ Intact(s) \in 0 .. Len(items)
         /\ Bytes(s, Intact(s)) <= Arrives(s)
         /\ \A i \in 1 .. Intact(s) : ~BadLength(items[i][1])
         /\ Intact(s) < Len(items) =>
              Bytes(s, Intact(s) + 1) > Arrives(s) \/ BadLength(items[Intact(s) + 1][1])
         /\ \A n \in 0 .. Intact(s) : Bytes(s, n) <= Arrives(s)
         /\ Arrives(s) \in Nat
         /\ Bytes(s, Len(items)) = Len(Whole(s))
<1> DEFINE items == content[s].items
           cut == content[s].cut
           N == Len(items)
           B(n) == Len(First(items, n))
           A == B(N) - cut
           S == {n \in 0 .. N : B(n) <= A /\ \A i \in 1 .. n : ~BadLength(items[i][1])}
<1>1. items \in Seq(Seq(Nat)) /\ N \in Nat /\ cut \in Nat /\ cut <= B(N) /\ B(N) = Len(Whole(s))
  BY ContentFacts, Zenon
<1> HIDE DEF items, cut
<1>2. /\ B(0) = 0
      /\ \A n \in 0 .. N : B(n) \in Nat
      /\ \A n \in 0 .. N : \A m \in n .. N : B(n) <= B(m)
  BY <1>1, BytesFacts, Zenon
<1>3. Intact(s) = Max(S)
  BY Zenon DEF Intact, First, items, cut
<1>4. \A n : Bytes(s, n) = B(n)
  BY DEF Bytes, items
<1>5. Arrives(s) = A
  BY <1>1, Zenon DEF Arrives, cut
<1> HIDE DEF B
<1>6. A \in Nat
  <2>1. B(N) \in Nat
    BY <1>1, <1>2
  <2> QED
    BY <1>1, <2>1
<1> HIDE DEF A
<1> HIDE DEF N
<1>7. 0 \in S
  BY <1>1, <1>2, <1>6
<1>8. S \in SUBSET Nat /\ \A y \in S : y <= N
  BY <1>1
<1>9. Max(S) \in S /\ \A y \in S : Max(S) >= y
  <2> HIDE DEF S
  <2> QED
    BY <1>1, <1>7, <1>8, MaxOfSet, Zenon
<1> DEFINE I == Max(S)
<1>10. I \in S /\ \A y \in S : I >= y
  BY <1>9, Zenon
<1> HIDE DEF I
<1>11. I \in 0 .. N /\ B(I) <= A /\ \A i \in 1 .. I : ~BadLength(items[i][1])
  BY <1>10, Zenon
<1>12. I < N => B(I + 1) > A \/ BadLength(items[I + 1][1])
  <2> SUFFICES ASSUME I < N, ~(B(I + 1) > A), ~BadLength(items[I + 1][1]) PROVE FALSE
    OBVIOUS
  <2>1. I + 1 \in 0 .. N /\ I \in Nat /\ N \in Nat
    BY <1>1, <1>11
  <2>2. B(I + 1) <= A
    BY <1>2, <1>6, <2>1
  <2>3. ASSUME NEW i \in 1 .. I + 1 PROVE ~BadLength(items[i][1])
    <3>1. i \in 1 .. I \/ i = I + 1
      BY <2>1
    <3> QED
      BY <1>11, <3>1, Zenon
  <2>4. I + 1 \in S
    BY <2>1, <2>2, <2>3, Zenon
  <2> QED
    BY <1>10, <2>1, <2>4
<1>13. \A n \in 0 .. I : B(n) <= A
  <2> SUFFICES ASSUME NEW n \in 0 .. I PROVE B(n) <= A
    OBVIOUS
  <2>1. n \in 0 .. N /\ I \in n .. N /\ I \in 0 .. N
    BY <1>1, <1>11
  <2>2. B(n) <= B(I) /\ B(n) \in Nat /\ B(I) \in Nat
    BY <1>2, <2>1
  <2> QED
    BY <1>6, <1>11, <2>2
<1>14. Intact(s) = I
  BY <1>3, Zenon DEF I
<1> QED
  BY <1>1, <1>4, <1>5, <1>6, <1>11, <1>12, <1>13, <1>14, Zenon DEF items, N

\* A frame at the head of what is still to be read.
HeadFrame(x, item, r) ==
  /\ Peek(x) = "frame"
  /\ FrameTag(x) \in Nat /\ FrameBody(x) \in Seq(Nat)
  /\ item = Framed(FrameTag(x), FrameBody(x))
  /\ After(FrameLen(x), x) = r

LEMMA AtFrame ==
  ASSUME NEW item \in Seq(Nat), IsItem(item), ~BadLength(item[1]), NEW r \in Seq(Nat)
  PROVE  HeadFrame(item \o r, item, r)
<1> DEFINE x == item \o r
           l == Len(item)
           tag == item[2]
           body == SubSeq(item, 3, l)
<1>1. l \in Nat /\ l >= 2 /\ item[1] = l - 1
  BY DEF IsItem
<1>2. /\ x \in Seq(Nat) /\ Len(x) = l + Len(r)
      /\ SubSeq(x, l + 1, Len(x)) = r
  <2>1. Halved(Nat, x, item, r)
    BY Halves, Zenon
  <2> QED
    BY <2>1, Zenon DEF Halved
<1>3. x[1] = item[1] /\ x[2] = item[2] /\ Len(r) \in Nat
  <2>1. \A i \in 1 .. Len(item) + Len(r) : x[i] = IF i <= Len(item) THEN item[i] ELSE r[i - Len(item)]
    BY ConcatProperties, Zenon
  <2>2. Len(r) \in Nat
    OBVIOUS
  <2> HIDE DEF x
  <2> QED
    BY <1>1, <2>1, <2>2
<1>4. tag \in Nat /\ body \in Seq(Nat) /\ Len(body) = l - 2
  <2>1. 3 \in Nat /\ 1 <= 3 /\ 3 <= l + 1 /\ l <= Len(item)
    BY <1>1
  <2>2. Sliced(Nat, item, 3, l)
    BY <1>1, <2>1, Slices, Zenon
  <2>3. body \in Seq(Nat) /\ Len(body) = l - 3 + 1
    BY <2>2, Zenon DEF Sliced
  <2>4. tag \in Nat
    BY <1>1
  <2> HIDE DEF body, tag
  <2> QED
    BY <1>1, <2>3, <2>4
<1>5. SubSeq(x, 3, l) = body
  <2>1. 3 \in Nat /\ 1 <= 3 /\ 3 <= l + 1 /\ l <= Len(item)
    BY <1>1
  <2> QED
    BY <1>1, <2>1, InFirst, Zenon
<1>6. item = Framed(tag, body)
  <2> DEFINE h == <<1 + Len(body), tag>>
  <2>1. h \in Seq(Nat) /\ Len(h) = 2 /\ h[1] = l - 1 /\ h[2] = tag
    BY <1>1, <1>4
  <2>2. 2 \in 0 .. Len(item)
    BY <1>1
  <2>3. SubSeq(item, 1, 2) \o SubSeq(item, 2 + 1, Len(item)) = item
    BY <2>2, Joined, Zenon
  <2>4. SubSeq(item, 1, 2) = h
    <3> DEFINE g == SubSeq(item, 1, 2)
    <3>1. g \in Seq(Nat) /\ Len(g) = 2 /\ g[1] = item[1] /\ g[2] = item[2]
      BY <1>1
    <3> HIDE DEF g, h
    <3>2. \A i \in 1 .. Len(g) : g[i] = h[i]
      BY <1>1, <2>1, <3>1
    <3>3. g = h
      BY <2>1, <3>1, <3>2, SeqEqual, Zenon
    <3> QED
      BY <3>3 DEF g
  <2>5. 2 + 1 = 3
    OBVIOUS
  <2> HIDE DEF h, body
  <2> QED
    BY <2>3, <2>4, <2>5, Zenon DEF Framed, h, body
<1> HIDE DEF x, body
<1>7. FrameLen(x) = l
  BY <1>1, <1>3 DEF FrameLen
<1>8. Peek(x) = "frame"
  <2>1. x # <<>>
    BY <1>1, <1>2, <1>3
  <2>2. ~BadLength(x[1]) /\ ~(Len(x) < FrameLen(x))
    BY <1>1, <1>2, <1>3, <1>7
  <2> QED
    BY <2>1, <2>2, Zenon DEF Peek
<1>9. FrameTag(x) = tag /\ FrameBody(x) = body /\ After(FrameLen(x), x) = r
  BY <1>2, <1>3, <1>5, <1>7, Zenon DEF FrameTag, FrameBody, After
<1> QED
  BY <1>4, <1>6, <1>8, <1>9, Zenon DEF HeadFrame, x

\* What arrives after the first n items.
LEMMA RestFacts ==
  ASSUME content \in Contents, NEW s \in Streams, NEW n \in Nat, n < Len(content[s].items), Bytes(s, n) <= Arrives(s)
  PROVE  LET item == content[s].items[n + 1] IN
         /\ Rest(s, n) \in Seq(Nat)
         /\ Len(Rest(s, n)) = Arrives(s) - Bytes(s, n)
         /\ Bytes(s, n + 1) = Bytes(s, n) + Len(item)
         /\ Bytes(s, n) \in Nat /\ Arrives(s) \in Nat /\ Len(item) \in Nat /\ Len(item) >= 1
         /\ Bytes(s, n) < Arrives(s) => Rest(s, n)[1] = item[1]
         /\ Bytes(s, n + 1) <= Arrives(s) => Rest(s, n) = item \o Rest(s, n + 1) /\ Rest(s, n + 1) \in Seq(Nat)
<1> DEFINE items == content[s].items
           N == Len(items)
           w == Whole(s)
           A == Arrives(s)
           item == items[n + 1]
           a == First(items, n)
<1>1. /\ items \in Seq(Seq(Nat)) /\ N \in Nat /\ w \in Seq(Nat) /\ w = First(items, N)
      /\ \A i \in 1 .. N : items[i] \in Seq(Nat) /\ IsItem(items[i])
      /\ Len(w) \in Nat /\ content[s].cut \in Nat
  BY ContentFacts, Zenon
<1>2. A \in Nat /\ A = Len(w) - content[s].cut
  BY IntactFacts, Zenon DEF Arrives
<1> HIDE DEF items, w, A
<1>3. n + 1 \in 1 .. N /\ n \in 0 .. N /\ n + 1 \in 0 .. N /\ N \in n + 1 .. N /\ (n + 1) - 1 = n
  BY <1>1 DEF items
<1>4. item \in Seq(Nat) /\ IsItem(item)
  BY <1>1, <1>3, Zenon
<1>5. Len(item) \in Nat /\ Len(item) >= 1
  BY <1>4 DEF IsItem
<1>6. a \in Seq(Nat) /\ First(items, n + 1) = a \o item
  <2>1. Firsts(Nat, items)
    BY <1>1, FirstSteps, Zenon
  <2> QED
    BY <1>3, <2>1, Zenon DEF Firsts
<1>7. PICK z \in Seq(Nat) : w = a \o item \o z
  <2>1. Grows(Nat, items, n + 1, N)
    BY <1>1, <1>3, FirstGrows, Zenon
  <2> QED
    BY <1>1, <1>6, <2>1, Zenon DEF Grows
<1> HIDE DEF item, a, N
<1>8. Bytes(s, n) = Len(a) /\ Bytes(s, n + 1) = Len(a) + Len(item) /\ Len(a) \in Nat
  <2>1. Bytes(s, n) = Len(a) /\ Bytes(s, n + 1) = Len(a \o item)
    BY <1>6, Zenon DEF Bytes, a, items
  <2>2. Halved(Nat, a \o item, a, item)
    BY <1>4, <1>6, Halves, Zenon
  <2>3. Len(a) \in Nat
    BY <1>6
  <2> QED
    BY <2>1, <2>2, <2>3, Zenon DEF Halved
<1> DEFINE b == Len(a)
           c == b + Len(item)
<1>9. Thirded(Nat, w, a, item, z)
  BY <1>4, <1>6, <1>7, Thirds, Zenon
<1>10. Len(w) = c + Len(z) /\ SubSeq(w, b + 1, c) = item /\ Len(z) \in Nat
  BY <1>9 DEF Thirded
<1>11. Rest(s, n) = SubSeq(w, b + 1, A) /\ Rest(s, n + 1) = SubSeq(w, c + 1, A)
  BY <1>8, Zenon DEF Rest, w, A
<1>12. b \in Nat /\ c \in Nat /\ c >= b + 1 /\ b <= A /\ A <= Len(w)
  <2>1. b <= A
    BY <1>8 DEF A
  <2> QED
    BY <1>1, <1>2, <1>5, <1>8, <2>1, SMTT(20)
<1> HIDE DEF b, c
<1>13. SubSeq(w, b + 1, A) \in Seq(Nat) /\ Len(SubSeq(w, b + 1, A)) = A - b
  <2>1. b + 1 \in Nat /\ 1 <= b + 1 /\ b + 1 <= A + 1 /\ A - (b + 1) + 1 = A - b
    BY <1>2, <1>12, SMTT(20)
  <2>2. Sliced(Nat, w, b + 1, A)
    BY <1>1, <1>2, <1>12, <2>1, Slices, Zenon
  <2> QED
    BY <2>1, <2>2, Zenon DEF Sliced
<1>14. ASSUME b < A PROVE SubSeq(w, b + 1, A)[1] = item[1]
  <2>1. SubSeq(w, b + 1, A)[1] = w[b + 1]
    BY <1>1, <1>2, <1>12, <1>14, SMTT(20)
  <2>2. SubSeq(w, b + 1, c)[1] = w[b + 1]
    <3>1. b + 1 \in Nat /\ 1 <= b + 1 /\ b + 1 <= c + 1 /\ c <= Len(w) /\ 1 \in 1 .. c - (b + 1) + 1 /\ b + 1 + 1 - 1 = b + 1
      BY <1>10, <1>12
    <3>2. Sliced(Nat, w, b + 1, c)
      BY <1>1, <1>12, <3>1, Slices, Zenon
    <3>3. SubSeq(w, b + 1, c)[1] = w[b + 1 + 1 - 1]
      BY <3>1, <3>2, Zenon DEF Sliced
    <3> QED
      BY <3>1, <3>3, Zenon
  <2> QED
    BY <1>10, <2>1, <2>2, Zenon
<1>15. ASSUME c <= A PROVE SubSeq(w, b + 1, A) = item \o SubSeq(w, c + 1, A) /\ SubSeq(w, c + 1, A) \in Seq(Nat)
  <2>1. SubSeq(w, b + 1, c) \o SubSeq(w, c + 1, A) = SubSeq(w, b + 1, A)
    <3>1. b + 1 \in 1 .. Len(w) + 1 /\ c \in (b + 1) - 1 .. Len(w) /\ A \in c .. Len(w)
      BY <1>1, <1>2, <1>12, <1>15, SMTT(20)
    <3> QED
      BY <1>1, <3>1, ConcatAdjacentSubSeq, Zenon
  <2>2. SubSeq(w, c + 1, A) \in Seq(Nat)
    <3>1. c + 1 \in Nat /\ 1 <= c + 1 /\ c + 1 <= A + 1
      BY <1>2, <1>12, <1>15
    <3>2. Sliced(Nat, w, c + 1, A)
      BY <1>1, <1>2, <1>12, <3>1, Slices, Zenon
    <3> QED
      BY <3>2, Zenon DEF Sliced
  <2> QED
    BY <1>10, <2>1, <2>2, Zenon
<1>16. Bytes(s, n) = b /\ Bytes(s, n + 1) = c /\ Bytes(s, n + 1) = b + Len(item)
  BY <1>8, Zenon DEF b, c
<1> QED
  BY <1>2, <1>5, <1>11, <1>12, <1>13, <1>14, <1>15, <1>16, Zenon DEF A, item, items

\* The readers find the items that arrive whole, each of them a frame, and
\* then no further frame.
LEMMA NextFrame ==
  ASSUME content \in Contents, NEW s \in Streams, NEW n \in 0 .. Intact(s)
  PROVE  /\ n < Intact(s) => HeadFrame(Rest(s, n), content[s].items[n + 1], Rest(s, n + 1))
         /\ n = Intact(s) => Peek(Rest(s, n)) # "frame"
<1> DEFINE items == content[s].items
           N == Len(items)
           I == Intact(s)
           A == Arrives(s)
           item == items[n + 1]
           x == Rest(s, n)
<1>1. /\ N \in Nat /\ \A i \in 1 .. N : items[i] \in Seq(Nat) /\ IsItem(items[i])
      /\ Len(Whole(s)) \in Nat
  BY ContentFacts, Zenon
<1>2. /\ I \in 0 .. N /\ A \in Nat
      /\ \A i \in 1 .. I : ~BadLength(items[i][1])
      /\ I < N => Bytes(s, I + 1) > A \/ BadLength(items[I + 1][1])
      /\ \A k \in 0 .. I : Bytes(s, k) <= A
      /\ Bytes(s, N) = Len(Whole(s))
  BY IntactFacts, Zenon
<1> HIDE DEF items, N, I, A
<1>3. n \in Nat /\ n <= N /\ n \in 0 .. I
  BY <1>1, <1>2 DEF I
<1>4. Bytes(s, n) <= A
  BY <1>2, <1>3, Zenon
<1>5. ASSUME n < N
      PROVE  /\ x \in Seq(Nat) /\ Len(x) = A - Bytes(s, n)
             /\ Bytes(s, n + 1) = Bytes(s, n) + Len(item)
             /\ Bytes(s, n) \in Nat /\ Len(item) \in Nat /\ Len(item) >= 1
             /\ Bytes(s, n) < A => x[1] = item[1]
             /\ Bytes(s, n + 1) <= A => x = item \o Rest(s, n + 1) /\ Rest(s, n + 1) \in Seq(Nat)
             /\ item \in Seq(Nat) /\ IsItem(item)
  <2>1. n + 1 \in 1 .. N
    BY <1>1, <1>3, <1>5
  <2>2. n < Len(content[s].items) /\ Bytes(s, n) <= Arrives(s)
    BY <1>4, <1>5 DEF N, items, A
  <2> QED
    BY <1>1, <1>3, <2>1, <2>2, RestFacts, Zenon DEF items, A
<1> HIDE DEF item, x
<1>6. ASSUME n < I PROVE HeadFrame(x, item, Rest(s, n + 1))
  <2>1. n < N /\ n + 1 \in 0 .. I /\ n + 1 \in 1 .. I
    BY <1>1, <1>2, <1>3, <1>6
  <2>2. Bytes(s, n + 1) <= A /\ ~BadLength(item[1])
    BY <1>2, <2>1, Zenon DEF item
  <2>3. x = item \o Rest(s, n + 1) /\ Rest(s, n + 1) \in Seq(Nat) /\ item \in Seq(Nat) /\ IsItem(item)
    BY <1>5, <2>1, <2>2, Zenon
  <2>4. HeadFrame(item \o Rest(s, n + 1), item, Rest(s, n + 1))
    BY <2>2, <2>3, AtFrame, Zenon
  <2> QED
    BY <2>3, <2>4, Zenon
<1>7. ASSUME n = I PROVE Peek(x) # "frame"
  <2>1. CASE n = N
    <3>1. x = SubSeq(Whole(s), Len(Whole(s)) + 1, A)
      BY <1>2, <2>1, Zenon DEF x, Rest, A
    <3>2. A <= Len(Whole(s))
      BY <1>1, ContentFacts DEF A, Arrives
    <3>3. Len(Whole(s)) + 1 \in Int /\ A \in Int /\ A < Len(Whole(s)) + 1
      BY <1>1, <1>2, <3>2
    <3>4. x = <<>>
      BY <3>1, <3>3, SubSeqEmpty, Zenon
    <3>5. Peek(x) = "end"
      BY <3>4 DEF Peek
    <3> QED
      BY <3>5
  <2>2. CASE n < N
    <3>1. x \in Seq(Nat) /\ Len(x) = A - Bytes(s, n) /\ Bytes(s, n) \in Nat
      BY <1>5, <2>2, Zenon
    <3>2. CASE Bytes(s, n) = A
      <4>1. Len(x) = 0
        BY <1>2, <3>1, <3>2
      <4>2. x = <<>>
        BY <3>1, <4>1
      <4> QED
        BY <4>2 DEF Peek
    <3>3. CASE Bytes(s, n) < A
      <4>1. Len(x) # 0 /\ x # <<>>
        BY <1>2, <3>1, <3>3
      <4>2. x[1] = item[1]
        BY <1>5, <2>2, <3>3, Zenon
      <4>3. CASE BadLength(item[1])
        <5>1. Peek(x) = "length"
          BY <4>1, <4>2, <4>3 DEF Peek
        <5> QED
          BY <5>1
      <4>4. CASE ~BadLength(item[1])
        <5>1. Bytes(s, n + 1) > A
          BY <1>2, <1>7, <2>2, <4>4, Zenon DEF item
        <5>2. Bytes(s, n + 1) = Bytes(s, n) + Len(item) /\ Len(item) \in Nat /\ IsItem(item)
          BY <1>5, <2>2, Zenon
        <5>3. item[1] + 1 = Len(item)
          BY <4>4, <5>2 DEF IsItem
        <5>4. Len(x) < Len(item)
          BY <1>2, <3>1, <5>1, <5>2
        <5>5. Len(x) < FrameLen(x)
          BY <4>2, <5>3, <5>4, Zenon DEF FrameLen
        <5>6. Peek(x) = "truncated"
          <6>1. x # <<>> /\ ~BadLength(x[1])
            BY <4>1, <4>2, <4>4, Zenon
          <6> QED
            BY <5>5, <6>1, Zenon DEF Peek
        <5> QED
          BY <5>6
      <4> QED
        BY <4>3, <4>4
    <3> QED
      BY <1>2, <1>4, <3>1, <3>2, <3>3
  <2> QED
    BY <1>1, <1>3, <2>1, <2>2
<1> QED
  BY <1>6, <1>7, Zenon DEF I, x, item, items

-----------------------------------------------------------------------------
\* What a reader can keep of the frames of its stream.
Keeps(s) == {Kept(s, p[1], p[2]) : p \in Nat \X Seq(Nat)}

\* The meaning of an item is what the reader makes of the frame it is in.
LEMMA MeaningOf ==
  ASSUME content \in Contents, NEW s \in Streams, NEW n \in Nat, n < Intact(s)
  PROVE  LET tag == FrameTag(Rest(s, n))
             body == FrameBody(Rest(s, n))
         IN  /\ Meanings(s)[n + 1] = IF Takes(s, Decode(s, tag, body)) THEN <<Kept(s, tag, body)>> ELSE <<>>
             /\ Kept(s, tag, body) \in Keeps(s)
<1> DEFINE tag == FrameTag(Rest(s, n))
           body == FrameBody(Rest(s, n))
           item == content[s].items[n + 1]
<1>1. s \in Up \cup Down /\ Intact(s) \in Nat
  BY ContentFacts, IntactFacts
<1>2. n \in 0 .. Intact(s) /\ n + 1 \in 1 .. Intact(s)
  BY <1>1
<1>3. tag \in Nat /\ body \in Seq(Nat) /\ item = Framed(tag, body)
  BY <1>2, NextFrame, Zenon DEF HeadFrame
<1>4. Meanings(s)[n + 1] = Meaning(s, item)
  BY <1>2, Zenon DEF Meanings
<1> HIDE DEF tag, body, item
<1>5. Meaning(s, item) = IF Takes(s, Decode(s, tag, body)) THEN <<Kept(s, tag, body)>> ELSE <<>>
  BY <1>1, <1>3, ReadMeaning, Zenon
<1>6. Kept(s, tag, body) \in Keeps(s)
  <2> DEFINE p == <<tag, body>>
  <2>1. p \in Nat \X Seq(Nat) /\ p[1] = tag /\ p[2] = body
    BY <1>3
  <2> HIDE DEF p
  <2> QED
    BY <2>1, Zenon DEF Keeps
<1> QED
  BY <1>4, <1>5, <1>6, Zenon DEF tag, body

LEMMA MeaningsFacts ==
  ASSUME content \in Contents, NEW s \in Streams
  PROVE  /\ Meanings(s) \in Seq(Seq(Keeps(s))) /\ Len(Meanings(s)) = Intact(s) /\ Intact(s) \in Nat
         /\ Firsts(Keeps(s), Meanings(s))
<1> DEFINE I == Intact(s)
           M == Meanings(s)
           K == Keeps(s)
<1>1. I \in Nat
  BY IntactFacts
<1>2. \A i \in 1 .. I : M[i] \in Seq(K)
  <2> SUFFICES ASSUME NEW i \in 1 .. I PROVE M[i] \in Seq(K)
    BY Zenon
  <2> DEFINE n == i - 1
             v == Kept(s, FrameTag(Rest(s, n)), FrameBody(Rest(s, n)))
  <2>1. n \in Nat /\ n < I /\ n + 1 = i
    BY <1>1
  <2> HIDE DEF n
  <2>2. M[n + 1] \in {<<v>>, <<>>} /\ v \in K
    BY <2>1, MeaningOf, Zenon
  <2> HIDE DEF v, K
  <2>3. <<v>> \in Seq(K) /\ <<>> \in Seq(K)
    BY <2>2
  <2> QED
    BY <2>1, <2>2, <2>3, Zenon
<1>3. M = [i \in 1 .. I |-> M[i]]
  BY Zenon DEF Meanings
<1> HIDE DEF M, K, I
<1>4. M \in Seq(Seq(K)) /\ Len(M) = I
  <2>1. M \in [1 .. I -> Seq(K)]
    BY <1>2, <1>3
  <2> DEFINE S == Seq(K)
  <2> HIDE DEF S
  <2>2. M \in [1 .. I -> S]
    BY <2>1 DEF S
  <2>3. M \in Seq(S) /\ Len(M) = I
    BY <1>1, <2>2
  <2> QED
    BY <2>3 DEF S
<1>5. Firsts(K, M)
  BY <1>4, FirstSteps, Zenon
<1> QED
  BY <1>1, <1>4, <1>5, Zenon DEF M, K, I

\* How far a reader is to get.
LEMMA ExpectedFacts ==
  ASSUME content \in Contents, NEW s \in Streams
  PROVE  /\ Expected(s) \in Nat /\ Expected(s) <= Intact(s) /\ Intact(s) \in Nat
         /\ Lane(s) \in NoLane => Expected(s) = 0
         /\ Lane(s) = "bulk" => Expected(s) = IF Intact(s) = 0 THEN 0 ELSE 1
         /\ Lane(s) \notin NoLane /\ Lane(s) # "bulk" => Expected(s) = Intact(s)
<1>1. Intact(s) \in Nat
  BY IntactFacts
<1> DEFINE I == Intact(s)
           m == Min({1, I})
<1>2. m \in {1, I} /\ m <= 1 /\ m <= I
  BY <1>1, MinOfTwo, 1 \in Nat, Zenon
<1>3. /\ Lane(s) \in NoLane => Expected(s) = 0
      /\ Lane(s) = "bulk" => Expected(s) = m
      /\ Lane(s) \notin NoLane /\ Lane(s) # "bulk" => Expected(s) = I
  <2>1. "bulk" \notin NoLane
    BY DEF NoLane
  <2> HIDE DEF m, I
  <2> QED
    BY <2>1, Zenon DEF Expected, m, I
<1> HIDE DEF m, I
<1>4. I \in Nat
  BY <1>1 DEF I
<1>5. m = IF I = 0 THEN 0 ELSE 1
  BY <1>2, <1>4
<1>6. Expected(s) \in Nat /\ Expected(s) <= I
  <2>1. CASE Lane(s) \in NoLane
    BY <1>3, <1>4, <2>1
  <2>2. CASE Lane(s) = "bulk"
    BY <1>2, <1>3, <1>4, <1>5, <2>2
  <2>3. CASE Lane(s) \notin NoLane /\ Lane(s) # "bulk"
    BY <1>3, <1>4, <2>3
  <2> QED
    BY <2>1, <2>2, <2>3, Zenon
<1> QED
  BY <1>3, <1>4, <1>5, <1>6, Zenon DEF I

-----------------------------------------------------------------------------
(***************************************************************************)
(* The steps of the readers.                                               *)
(***************************************************************************)
\* A stream's content does not change.
LEMMA ContentStays ==
  ASSUME content' = content, NEW s
  PROVE  /\ Lane(s)' = Lane(s) /\ Intact(s)' = Intact(s) /\ Expected(s)' = Expected(s)
         /\ Meanings(s)' = Meanings(s)
         /\ \A n : Rest(s, n)' = Rest(s, n)
<1>1. Lane(s)' = Lane(s)
  BY Zenon DEF Lane
<1>2. Whole(s)' = Whole(s)
  BY Zenon DEF Whole
<1>3. Intact(s)' = Intact(s)
  BY Zenon DEF Intact
<1>4. Expected(s)' = Expected(s)
  BY <1>1, <1>3, Zenon DEF Expected
<1>5. Meanings(s)' = Meanings(s)
  BY <1>3, Zenon DEF Meanings
<1>6. ASSUME NEW n PROVE Rest(s, n)' = Rest(s, n)
  BY <1>2, Zenon DEF Rest, Bytes, Arrives
<1> QED
  BY <1>1, <1>3, <1>4, <1>5, <1>6, Zenon

\* A reader that did nothing is where it was.
LEMMA OtherStays ==
  ASSUME content' = content, NEW s, NEW n, Progress(s, n),
         input'[s] = input[s], taken'[s] = taken[s], skipped'[s] = skipped[s], state'[s] = state[s],
         delivering' => delivering
  PROVE  Progress(s, n)'
<1>1. /\ Lane(s)' = Lane(s) /\ Intact(s)' = Intact(s) /\ Expected(s)' = Expected(s)
      /\ Meanings(s)' = Meanings(s) /\ Rest(s, n)' = Rest(s, n) /\ Rest(s, n + 1)' = Rest(s, n + 1)
  BY ContentStays, Zenon
<1>2. Counted(s, n)' <=> Counted(s, n)
  BY Zenon DEF Counted
<1>3. Left(s, n) => Left(s, n)'
  BY <1>1, <1>2, Zenon DEF Left
<1>4. At(s, n)'
  <2>1. At(s, n)
    BY Zenon DEF Progress
  <2> QED
    BY <1>1, <1>2, <1>3, <2>1 DEF At
<1> QED
  BY <1>1, <1>4, Zenon DEF Progress

\* The reader met a bad length prefix.
Broke(s) == state[s] = "ended" /\ Peek(input[s]) = "length" /\ Lane(s) \notin NoLane

\* A step of one reader touches no other.
Alone(s) ==
  /\ content' = content /\ delivering' = delivering
  /\ DOMAIN input' = Streams /\ DOMAIN taken' = Streams
  /\ state' \in [Streams -> States]
  /\ skipped' \in [Streams -> Nat]
  /\ \A r \in Streams \ {s} : /\ input'[r] = input[r] /\ taken'[r] = taken[r]
                              /\ skipped'[r] = skipped[r] /\ state'[r] = state[r]

LEMMA OneReader ==
  ASSUME ReadersInv, NEW s \in Streams, NEW n \in Nat, Alone(s), Progress(s, n)',
         state[s] # "ended", closed' <=> closed \/ (s \in Up /\ Broke(s)')
  PROVE  ReadersInv'
<1>1. content' = content /\ Streams' = Streams
  BY Zenon DEF Alone, Streams
<1>2. ASSUME NEW r \in Streams PROVE \E m \in Nat : Progress(r, m)'
  <2>1. CASE r = s
    BY <2>1, Zenon
  <2>2. CASE r # s
    <3>1. PICK m \in Nat : Progress(r, m)
      BY Zenon DEF ReadersInv
    <3>2. input'[r] = input[r] /\ taken'[r] = taken[r] /\ skipped'[r] = skipped[r] /\ state'[r] = state[r]
      BY <2>2, Zenon DEF Alone
    <3>3. delivering' => delivering
      BY Zenon DEF Alone
    <3>4. Progress(r, m)'
      BY <1>1, <3>1, <3>2, <3>3, OtherStays, Zenon
    <3> QED
      BY <3>4, Zenon
  <2> QED
    BY <2>1, <2>2, Zenon
<1>3. ClosedRight'
  <2>1. closed <=> \E r \in Streams \cap Up : Broke(r)
    BY Zenon DEF ReadersInv, ClosedRight, Broke
  <2>2. ~Broke(s)
    BY Zenon DEF Broke
  <2>3. ASSUME NEW r \in Streams \ {s} PROVE Broke(r)' <=> Broke(r)
    <3>1. Lane(r)' = Lane(r)
      BY <1>1, ContentStays, Zenon
    <3>2. input'[r] = input[r] /\ state'[r] = state[r]
      BY Zenon DEF Alone
    <3> QED
      BY <3>1, <3>2, Zenon DEF Broke
  <2>4. closed' <=> \E r \in Streams \cap Up : Broke(r)'
    BY <2>1, <2>2, <2>3, Zenon
  <2> QED
    BY <1>1, <2>4, Zenon DEF ClosedRight, Broke
<1>4. /\ content' \in Contents
      /\ DOMAIN input' = Streams /\ DOMAIN taken' = Streams
      /\ state' \in [Streams -> States]
      /\ skipped' \in [Streams -> Nat]
  BY <1>1, Zenon DEF Alone, ReadersInv
<1> QED
  BY <1>1, <1>2, <1>3, <1>4, Zenon DEF ReadersInv

-----------------------------------------------------------------------------
LEMMA ByteKeeps ==
  ASSUME ReadersInv, NEW s \in Streams, ReadByte(s)
  PROVE  ReadersInv'
<1>1. /\ state[s] = "byte" /\ content' = content /\ delivering' = delivering /\ input' = input /\ taken' = taken /\ closed' = closed
      /\ content \in Contents /\ DOMAIN input = Streams /\ DOMAIN taken = Streams
      /\ state \in [Streams -> States]
      /\ skipped \in [Streams -> Nat]
  BY Zenon DEF ReadByte, ReadersInv
<1> DEFINE y == CASE Lane(s) \notin NoLane -> "frame"
                  [] Lane(s) = "unknown" /\ s \in Up -> "stopped"
                  [] OTHER -> "ended"
           z == IF Lane(s) = "unknown" /\ s \in Down THEN 1 ELSE 0
<1>2. state' = [state EXCEPT ![s] = y] /\ skipped' = [skipped EXCEPT ![s] = z]
  BY Zenon DEF ReadByte
<1>3. y \in {"frame", "stopped", "ended"} /\ z \in Nat
  OBVIOUS
<1>4. Lane(s) \notin NoLane => y = "frame" /\ z = 0
  BY DEF NoLane
<1>5. Lane(s) \in NoLane => y \in {"stopped", "ended"}
  BY DEF NoLane
<1> HIDE DEF y, z
<1>6. Alone(s) /\ state'[s] = y /\ skipped'[s] = z
  BY <1>1, <1>2, <1>3 DEF Alone, States
<1>7. PICK n \in Nat : Progress(s, n)
  BY Zenon DEF ReadersInv
<1>8. n = 0 /\ n \in 0 .. Intact(s) /\ input[s] = Rest(s, n) /\ taken[s] = First(Meanings(s), n)
  <2>1. At(s, n)
    BY <1>7, Zenon DEF Progress
  <2>2. n = 0
    BY <1>1, <2>1 DEF At
  <2> QED
    BY <1>1, <1>7, <2>2, Zenon DEF Progress
<1>9. taken[s] = <<>>
  <2>1. First(Meanings(s), 0) = <<>>
    BY <1>1, MeaningsFacts, Zenon DEF Firsts
  <2> QED
    BY <1>8, <2>1, Zenon
<1>10. /\ Lane(s)' = Lane(s) /\ Intact(s)' = Intact(s) /\ Expected(s)' = Expected(s)
       /\ Meanings(s)' = Meanings(s) /\ Rest(s, n)' = Rest(s, n)
  BY <1>1, ContentStays, Zenon
<1>11. Lane(s) \in NoLane => Expected(s) = 0
  BY <1>1, ExpectedFacts, Zenon
<1>12. At(s, n)'
  <2>1. CASE Lane(s) \notin NoLane
    <3>1. Len(taken'[s]) = 0
      BY <1>1, <1>9
    <3>2. Counted(s, n)'
      BY <1>4, <1>6, <1>8, <2>1, <3>1 DEF Counted
    <3> QED
      BY <1>4, <1>6, <1>8, <1>10, <2>1, <3>2, SMTT(20) DEF At
  <2>2. CASE Lane(s) \in NoLane
    BY <1>5, <1>6, <1>8, <1>10, <1>11, <2>2 DEF At
  <2> QED
    BY <2>1, <2>2, Zenon
<1>13. Progress(s, n)'
  BY <1>1, <1>8, <1>10, <1>12, Zenon DEF Progress
<1>14. ~Broke(s)'
  BY <1>4, <1>6, <1>10 DEF Broke
<1> QED
  BY <1>1, <1>6, <1>13, <1>14, OneReader

LEMMA EndKeeps ==
  ASSUME ReadersInv, NEW s \in Streams, EndOfFrames(s)
  PROVE  ReadersInv'
<1>1. /\ state[s] = "frame" /\ content' = content /\ input' = input /\ taken' = taken /\ skipped' = skipped
      /\ delivering' = delivering
      /\ content \in Contents /\ DOMAIN input = Streams /\ DOMAIN taken = Streams
      /\ state \in [Streams -> States]
      /\ skipped \in [Streams -> Nat]
      /\ Peek(input[s]) # "frame"
      /\ state' = [state EXCEPT ![s] = "ended"]
      /\ closed' = (closed \/ (Peek(input[s]) = "length" /\ s \in Up))
  BY Zenon DEF EndOfFrames, ReadersInv, Closes
<1>2. Alone(s) /\ state'[s] = "ended"
  BY <1>1 DEF Alone, States
<1>3. PICK n \in Nat : Progress(s, n)
  BY Zenon DEF ReadersInv
<1>4. n \in 0 .. Intact(s) /\ input[s] = Rest(s, n) /\ taken[s] = First(Meanings(s), n) /\ At(s, n)
  BY <1>1, <1>3, Zenon DEF Progress
<1>5. Lane(s) \notin NoLane /\ (Lane(s) = "bulk" => n = 0) /\ Counted(s, n)
  BY <1>1, <1>4 DEF At
<1>6. n = Intact(s)
  <2>1. n < Intact(s) => Peek(Rest(s, n)) = "frame"
    BY <1>1, <1>4, NextFrame, Zenon DEF HeadFrame
  <2>2. ~(n < Intact(s))
    BY <1>1, <1>4, <2>1, Zenon
  <2>3. Intact(s) \in Nat
    BY <1>1, ExpectedFacts, Zenon
  <2> QED
    BY <1>4, <2>2, <2>3
<1>7. n = Expected(s)
  BY <1>1, <1>5, <1>6, ExpectedFacts
<1>8. /\ Lane(s)' = Lane(s) /\ Intact(s)' = Intact(s) /\ Expected(s)' = Expected(s)
      /\ Meanings(s)' = Meanings(s) /\ Rest(s, n)' = Rest(s, n)
  BY <1>1, ContentStays, Zenon
<1>9. Counted(s, n)'
  BY <1>1, <1>5, Zenon DEF Counted
<1>10. At(s, n)'
  BY <1>2, <1>7, <1>8, <1>9 DEF At
<1>11. Progress(s, n)'
  BY <1>1, <1>4, <1>8, <1>10, Zenon DEF Progress
<1>12. Broke(s)' <=> Peek(input[s]) = "length"
  BY <1>1, <1>2, <1>5, <1>8, Zenon DEF Broke
<1>13. closed' <=> closed \/ (s \in Up /\ Broke(s)')
  BY <1>1, <1>12, Zenon
<1>14. state[s] # "ended"
  BY <1>1
<1> QED
  BY <1>2, <1>11, <1>13, <1>14, OneReader, Zenon

LEMMA AfterKeeps ==
  ASSUME ReadersInv, NEW s \in Streams, ReadAfter(s)
  PROVE  ReadersInv'
<1> DEFINE y == IF input[s] # <<>> THEN "stopped" ELSE "ended"
<1>1. /\ state[s] = "after" /\ content' = content /\ input' = input /\ taken' = taken /\ skipped' = skipped
      /\ delivering' = delivering
      /\ content \in Contents /\ DOMAIN input = Streams /\ DOMAIN taken = Streams
      /\ state \in [Streams -> States]
      /\ skipped \in [Streams -> Nat]
      /\ state' = [state EXCEPT ![s] = y]
      /\ closed' = closed
  BY Zenon DEF ReadAfter, ReadersInv
<1>2. y \in {"stopped", "ended"} /\ (y = "ended" => input[s] = <<>>)
  BY Zenon
<1> HIDE DEF y
<1>3. Alone(s) /\ state'[s] = y
  BY <1>1, <1>2 DEF Alone, States
<1>4. PICK n \in Nat : Progress(s, n)
  BY Zenon DEF ReadersInv
<1>5. n \in 0 .. Intact(s) /\ input[s] = Rest(s, n) /\ taken[s] = First(Meanings(s), n) /\ At(s, n)
  BY <1>1, <1>4, Zenon DEF Progress
<1>6. Lane(s) = "bulk" /\ n = 1 /\ Counted(s, n)
  BY <1>1, <1>5 DEF At
<1>7. n = Expected(s)
  <2>1. Intact(s) \in Nat /\ Expected(s) = IF Intact(s) = 0 THEN 0 ELSE 1
    BY <1>1, <1>6, ExpectedFacts, Zenon
  <2> QED
    BY <1>5, <1>6, <2>1
<1>8. /\ Lane(s)' = Lane(s) /\ Intact(s)' = Intact(s) /\ Expected(s)' = Expected(s)
      /\ Meanings(s)' = Meanings(s) /\ Rest(s, n)' = Rest(s, n)
  BY <1>1, ContentStays, Zenon
<1>9. Counted(s, n)'
  BY <1>1, <1>6, Zenon DEF Counted
<1>10. At(s, n)'
  BY <1>2, <1>3, <1>7, <1>8, <1>9 DEF At
<1>11. Progress(s, n)'
  BY <1>1, <1>5, <1>8, <1>10, Zenon DEF Progress
<1>12. ~Broke(s)'
  <2>1. Peek(<<>>) = "end"
    BY DEF Peek
  <2>2. "end" # "length"
    OBVIOUS
  <2> QED
    BY <1>1, <1>2, <1>3, <2>1, <2>2, Zenon DEF Broke
<1>13. closed' <=> closed \/ (s \in Up /\ Broke(s)')
  BY <1>1, <1>12, Zenon
<1>14. state[s] # "ended"
  BY <1>1
<1> QED
  BY <1>3, <1>11, <1>13, <1>14, OneReader, Zenon

\* A reader has not gone further than it should.
LEMMA NotTooFar ==
  ASSUME ReadersInv, NEW s \in Streams, NEW n \in Nat, Progress(s, n)
  PROVE  n <= Expected(s)
<1>1. content \in Contents /\ n \in 0 .. Intact(s) /\ At(s, n)
  BY Zenon DEF ReadersInv, Progress
<1>2. /\ Expected(s) \in Nat /\ Intact(s) \in Nat
      /\ Lane(s) = "bulk" => Expected(s) = IF Intact(s) = 0 THEN 0 ELSE 1
      /\ Lane(s) \notin NoLane /\ Lane(s) # "bulk" => Expected(s) = Intact(s)
  BY <1>1, ExpectedFacts, Zenon
<1>3. CASE state[s] = "byte"
  BY <1>1, <1>2, <1>3 DEF At
<1>4. CASE state[s] = "frame"
  BY <1>1, <1>2, <1>4 DEF At
<1>5. CASE state[s] = "after"
  BY <1>1, <1>2, <1>5 DEF At
<1>6. CASE state[s] = "left"
  BY <1>1, <1>2, <1>6 DEF At, Left
<1>7. CASE state[s] \notin {"byte", "frame", "after", "left"}
  BY <1>1, <1>2, <1>7 DEF At
<1> QED
  BY <1>3, <1>4, <1>5, <1>6, <1>7, Zenon

LEMMA FailKeeps ==
  ASSUME ReadersInv, NEW s \in Streams, Fail(s)
  PROVE  ReadersInv'
<1>1. /\ state[s] \in {"byte", "frame", "after"}
      /\ content' = content /\ input' = input /\ taken' = taken /\ skipped' = skipped
      /\ delivering' = delivering
      /\ content \in Contents /\ DOMAIN input = Streams /\ DOMAIN taken = Streams
      /\ state \in [Streams -> States]
      /\ skipped \in [Streams -> Nat]
      /\ state' = [state EXCEPT ![s] = "failed"]
      /\ closed' = closed
  BY Zenon DEF Fail, ReadersInv
<1>2. Alone(s) /\ state'[s] = "failed"
  BY <1>1 DEF Alone, States
<1>3. PICK n \in Nat : Progress(s, n)
  BY Zenon DEF ReadersInv
<1>4. n \in 0 .. Intact(s) /\ input[s] = Rest(s, n) /\ taken[s] = First(Meanings(s), n)
  BY <1>1, <1>3, Zenon DEF Progress
<1>5. n <= Expected(s)
  BY <1>3, NotTooFar, Zenon
<1>6. /\ Intact(s)' = Intact(s) /\ Expected(s)' = Expected(s)
      /\ Meanings(s)' = Meanings(s) /\ Rest(s, n)' = Rest(s, n)
  BY <1>1, ContentStays, Zenon
<1>7. At(s, n)'
  BY <1>2, <1>5, <1>6 DEF At
<1>8. Progress(s, n)'
  BY <1>1, <1>4, <1>6, <1>7, Zenon DEF Progress
<1>9. ~Broke(s)' /\ state[s] # "ended"
  BY <1>1, <1>2 DEF Broke
<1> QED
  BY <1>1, <1>2, <1>8, <1>9, OneReader, Zenon

LEMMA FrameKeeps ==
  ASSUME ReadersInv, NEW s \in Streams, ReadFrame(s)
  PROVE  ReadersInv'
<1> DEFINE x == input[s]
           tag == FrameTag(x)
           body == FrameBody(x)
           ok == Takes(s, Decode(s, tag, body))
           v == Kept(s, tag, body)
           y == NextState(s, ok)
           z == IF ok \/ y = "stopped" THEN skipped[s] ELSE skipped[s] + 1
<1>1. /\ state[s] = "frame" /\ content' = content /\ closed' = closed /\ delivering' = delivering
      /\ content \in Contents /\ DOMAIN input = Streams /\ DOMAIN taken = Streams
      /\ state \in [Streams -> States]
      /\ skipped \in [Streams -> Nat]
      /\ Peek(x) = "frame"
      /\ input' = [input EXCEPT ![s] = After(FrameLen(x), x)]
  BY Zenon DEF ReadFrame, ReadersInv
<1>2. /\ state' = [state EXCEPT ![s] = y]
      /\ taken' = IF ~ok THEN taken ELSE [taken EXCEPT ![s] = Append(taken[s], v)]
      /\ skipped' = [skipped EXCEPT ![s] = z]
  BY DEF ReadFrame, Kept
<1>3. s \in Up \cup Down /\ Up \cap Down = {}
  BY <1>1, ContentFacts, ReadersAssumption, Zenon
<1>4. /\ Lane(s) # "bulk" => y = "frame"
      /\ Lane(s) = "bulk" /\ s \in Down => y = "ended"
      /\ Lane(s) = "bulk" /\ s \notin Down => y = IF ok THEN "after" ELSE "stopped"
  <2> HIDE DEF ok
  <2> QED
    BY DEF NextState
<1>5. y \in {"frame", "ended", "after", "stopped"} /\ (y = "ended" => s \in Down)
  BY <1>4
<1>6. PICK n \in Nat : Progress(s, n)
  BY Zenon DEF ReadersInv
<1>7. n \in 0 .. Intact(s) /\ x = Rest(s, n) /\ taken[s] = First(Meanings(s), n) /\ At(s, n)
  BY <1>1, <1>6, Zenon DEF Progress
<1>8. Lane(s) \notin NoLane /\ (Lane(s) = "bulk" => n = 0) /\ Counted(s, n)
  BY <1>1, <1>7 DEF At
<1>9. Intact(s) \in Nat /\ n < Intact(s) /\ n + 1 \in 0 .. Intact(s) /\ n + 1 \in 1 .. Intact(s)
  <2>1. n = Intact(s) => Peek(Rest(s, n)) # "frame"
    BY <1>1, <1>7, NextFrame, Zenon
  <2>2. n # Intact(s)
    BY <1>1, <1>7, <2>1, Zenon
  <2>3. Intact(s) \in Nat
    BY <1>1, ExpectedFacts, Zenon
  <2> QED
    BY <1>7, <2>2, <2>3
<1>10. After(FrameLen(x), x) = Rest(s, n + 1)
  BY <1>1, <1>7, <1>9, NextFrame, Zenon DEF HeadFrame
<1>11. Meanings(s)[n + 1] = (IF ok THEN <<v>> ELSE <<>>) /\ v \in Keeps(s)
  BY <1>1, <1>7, <1>9, MeaningOf, Zenon
<1>12. /\ First(Meanings(s), n) \in Seq(Keeps(s))
       /\ First(Meanings(s), n + 1) = First(Meanings(s), n) \o Meanings(s)[n + 1]
  <2>1. Firsts(Keeps(s), Meanings(s)) /\ Len(Meanings(s)) = Intact(s)
    BY <1>1, MeaningsFacts, Zenon
  <2>2. n + 1 \in 1 .. Len(Meanings(s)) /\ n \in 0 .. Len(Meanings(s)) /\ (n + 1) - 1 = n
    BY <1>7, <1>9, <2>1
  <2> QED
    BY <2>1, <2>2, Zenon DEF Firsts
<1> HIDE DEF x, tag, body, ok, v, y
<1>13. skipped[s] \in Nat /\ z \in Nat
  BY <1>1
<1> HIDE DEF z
<1>14. Alone(s) /\ state'[s] = y /\ skipped'[s] = z /\ input'[s] = Rest(s, n + 1)
  <2>1. /\ DOMAIN input' = Streams /\ \A r \in Streams \ {s} : input'[r] = input[r]
        /\ input'[s] = Rest(s, n + 1)
    BY <1>1, <1>10
  <2>2. /\ DOMAIN taken' = Streams /\ \A r \in Streams \ {s} : taken'[r] = taken[r]
    BY <1>1, <1>2
  <2>3. /\ state' \in [Streams -> States] /\ state'[s] = y
        /\ \A r \in Streams \ {s} : state'[r] = state[r]
    BY <1>1, <1>2, <1>5 DEF States
  <2>4. /\ skipped' \in [Streams -> Nat] /\ skipped'[s] = z
        /\ \A r \in Streams \ {s} : skipped'[r] = skipped[r]
    BY <1>1, <1>2, <1>13
  <2> QED
    BY <1>1, <2>1, <2>2, <2>3, <2>4, Zenon DEF Alone
<1> DEFINE a == taken[s]
           K == Keeps(s)
<1>15. a \in Seq(K) /\ v \in K
  BY <1>7, <1>11, <1>12, Zenon
<1>16. taken'[s] = IF ok THEN Append(a, v) ELSE a
  BY <1>1, <1>2
<1> HIDE DEF a, K
<1>17. a \o <<v>> = Append(a, v) /\ a \o <<>> = a /\ Len(Append(a, v)) = Len(a) + 1 /\ Len(a) \in Nat
  BY <1>15
<1>18. taken'[s] = First(Meanings(s), n + 1)
  <2>1. First(Meanings(s), n + 1) = a \o Meanings(s)[n + 1]
    BY <1>7, <1>12, Zenon DEF a
  <2>2. CASE ok
    BY <1>11, <1>16, <1>17, <2>1, <2>2, Zenon
  <2>3. CASE ~ok
    BY <1>11, <1>16, <1>17, <2>1, <2>3, Zenon
  <2> QED
    BY <2>2, <2>3, Zenon
<1>19. y # "stopped" => Len(taken'[s]) + skipped'[s] = n + 1
  <2>1. Len(a) + skipped[s] = n
    BY <1>8, Zenon DEF Counted, a
  <2>2. CASE ok
    <3>1. Len(taken'[s]) = Len(a) + 1 /\ skipped'[s] = skipped[s]
      BY <1>14, <1>16, <1>17, <2>2, Zenon DEF z
    <3> QED
      BY <1>13, <1>17, <2>1, <3>1
  <2>3. CASE ~ok /\ y # "stopped"
    <3>1. Len(taken'[s]) = Len(a) /\ skipped'[s] = skipped[s] + 1
      BY <1>14, <1>16, <2>3, Zenon DEF z
    <3> QED
      BY <1>13, <1>17, <2>1, <3>1
  <2> QED
    BY <2>2, <2>3, Zenon
<1> DEFINE m == n + 1
<1>20. /\ Lane(s)' = Lane(s) /\ Intact(s)' = Intact(s) /\ Expected(s)' = Expected(s)
       /\ Meanings(s)' = Meanings(s) /\ Rest(s, m)' = Rest(s, m)
  BY <1>1, ContentStays, Zenon
<1>21. Lane(s) = "bulk" => m = 1 /\ Expected(s) = m
  <2>1. Lane(s) = "bulk" => Expected(s) = IF Intact(s) = 0 THEN 0 ELSE 1
    BY <1>1, ExpectedFacts, Zenon
  <2> QED
    BY <1>8, <1>9, <2>1
<1>22. m \in Nat /\ m \in 0 .. Intact(s) /\ input'[s] = Rest(s, m) /\ taken'[s] = First(Meanings(s), m)
  BY <1>9, <1>14, <1>18
<1>23. y # "stopped" => Counted(s, m)'
  BY <1>19, Zenon DEF Counted
<1> HIDE DEF m
<1>24. At(s, m)'
  <2>1. CASE Lane(s) # "bulk"
    BY <1>4, <1>8, <1>14, <1>20, <1>23, <2>1, SMTT(20) DEF At
  <2>2. CASE Lane(s) = "bulk"
    BY <1>4, <1>8, <1>14, <1>20, <1>21, <1>23, <2>2, SMTT(20) DEF At
  <2> QED
    BY <2>1, <2>2, Zenon
<1>25. Progress(s, m)'
  BY <1>20, <1>22, <1>24, Zenon DEF Progress
<1>26. ~(s \in Up /\ Broke(s)') /\ state[s] # "ended"
  BY <1>1, <1>3, <1>5, <1>14 DEF Broke
<1> QED
  BY <1>1, <1>14, <1>22, <1>25, <1>26, OneReader, Zenon

\* A DELIVER that the reader has in hand and cannot deliver.
LEMMA LeaveKeeps ==
  ASSUME ReadersInv, NEW s \in Streams, LoseDelivery(s)
  PROVE  ReadersInv'
<1> DEFINE x == input[s]
           tag == FrameTag(x)
           body == FrameBody(x)
<1>1. /\ state[s] = "frame" /\ content' = content /\ closed' = closed /\ delivering' = delivering
      /\ taken' = taken /\ skipped' = skipped /\ s \in Down /\ ~delivering
      /\ content \in Contents /\ DOMAIN input = Streams /\ DOMAIN taken = Streams
      /\ state \in [Streams -> States]
      /\ skipped \in [Streams -> Nat]
      /\ Peek(x) = "frame" /\ Takes(s, Decode(s, tag, body))
      /\ state' = [state EXCEPT ![s] = "left"]
      /\ input' = [input EXCEPT ![s] = After(FrameLen(x), x)]
  BY Zenon DEF LoseDelivery, ReadersInv
<1>2. PICK n \in Nat : Progress(s, n)
  BY Zenon DEF ReadersInv
<1>3. n \in 0 .. Intact(s) /\ x = Rest(s, n) /\ taken[s] = First(Meanings(s), n) /\ At(s, n)
  BY <1>1, <1>2, Zenon DEF Progress
<1>4. Lane(s) \notin NoLane /\ (Lane(s) = "bulk" => n = 0) /\ Counted(s, n)
  BY <1>1, <1>3 DEF At
<1>5. Intact(s) \in Nat /\ n < Intact(s)
  <2>1. n = Intact(s) => Peek(Rest(s, n)) # "frame"
    BY <1>1, <1>3, NextFrame, Zenon
  <2>2. n # Intact(s)
    BY <1>1, <1>3, <2>1, Zenon
  <2>3. Intact(s) \in Nat
    BY <1>1, ExpectedFacts, Zenon
  <2> QED
    BY <1>3, <2>2, <2>3
<1>6. After(FrameLen(x), x) = Rest(s, n + 1)
  BY <1>1, <1>3, <1>5, NextFrame, Zenon DEF HeadFrame
<1>7. Meanings(s)[n + 1] # <<>>
  <2> DEFINE v == Kept(s, tag, body)
  <2>1. Meanings(s)[n + 1] = <<v>>
    BY <1>1, <1>3, <1>5, MeaningOf, Zenon
  <2> HIDE DEF v
  <2>2. <<v>> # <<>>
    OBVIOUS
  <2> QED
    BY <2>1, <2>2, Zenon
<1> HIDE DEF x, tag, body
<1>8. n < Expected(s)
  <2>1. /\ Lane(s) = "bulk" => Expected(s) = IF Intact(s) = 0 THEN 0 ELSE 1
        /\ Lane(s) \notin NoLane /\ Lane(s) # "bulk" => Expected(s) = Intact(s)
    BY <1>1, ExpectedFacts, Zenon
  <2> QED
    BY <1>4, <1>5, <2>1
<1>9. Alone(s) /\ state'[s] = "left" /\ input'[s] = Rest(s, n + 1)
  BY <1>1, <1>6 DEF Alone, States
<1>10. /\ Lane(s)' = Lane(s) /\ Intact(s)' = Intact(s) /\ Expected(s)' = Expected(s)
       /\ Meanings(s)' = Meanings(s) /\ Rest(s, n + 1)' = Rest(s, n + 1)
  BY <1>1, ContentStays, Zenon
<1>11. Counted(s, n)'
  BY <1>1, <1>4, Zenon DEF Counted
<1>12. Left(s, n)'
  BY <1>1, <1>4, <1>7, <1>8, <1>9, <1>10, <1>11, Zenon DEF Left
<1>13. At(s, n)'
  BY <1>9, <1>12 DEF At
<1>14. Progress(s, n)'
  BY <1>1, <1>3, <1>9, <1>10, <1>13, Zenon DEF Progress
<1>15. ~Broke(s)' /\ state[s] # "ended"
  BY <1>1, <1>9 DEF Broke
<1> QED
  BY <1>1, <1>9, <1>14, <1>15, OneReader, Zenon

LEMMA ReadersStay ==
  ASSUME ReadersInv, UNCHANGED <<content, input, state, taken, skipped, closed>>, delivering' => delivering
  PROVE  ReadersInv'
<1>1. /\ content' = content /\ input' = input /\ state' = state /\ taken' = taken
      /\ skipped' = skipped /\ closed' = closed /\ Streams' = Streams
  BY Zenon DEF Streams
<1>2. ASSUME NEW s \in Streams PROVE \E n \in Nat : Progress(s, n)'
  <2>1. PICK n \in Nat : Progress(s, n)
    BY Zenon DEF ReadersInv
  <2>2. Progress(s, n)'
    BY <1>1, <2>1, OtherStays, Zenon
  <2> QED
    BY <2>2, Zenon
<1>3. \A s : Lane(s)' = Lane(s)
  BY <1>1, ContentStays, Zenon
<1>4. ClosedRight'
  <2>1. closed <=> \E s \in Streams \cap Up : Broke(s)
    BY Zenon DEF ReadersInv, ClosedRight, Broke
  <2>2. \A s : Broke(s)' <=> Broke(s)
    BY <1>1, <1>3, Zenon DEF Broke
  <2>3. Streams' = Streams /\ (closed' <=> closed)
    BY <1>1
  <2>4. closed' <=> \E s \in Streams \cap Up : Broke(s)'
    BY <2>1, <2>2, <2>3, Zenon
  <2> QED
    BY <2>3, <2>4, Zenon DEF ClosedRight, Broke
<1> QED
  BY <1>1, <1>2, <1>4, Zenon DEF ReadersInv

LEMMA ReadersStart ==
  ASSUME ReadersInit
  PROVE  ReadersInv
<1>1. /\ content \in Contents
      /\ input = [s \in Streams |-> SubSeq(Whole(s), 1, Len(Whole(s)) - content[s].cut)]
      /\ state = [s \in Streams |-> IF s = Session THEN "frame" ELSE "byte"]
      /\ taken = [s \in Streams |-> <<>>]
      /\ skipped = [s \in Streams |-> 0]
      /\ closed = FALSE
  BY DEF ReadersInit
<1>2. /\ DOMAIN input = Streams /\ DOMAIN taken = Streams
      /\ state \in [Streams -> States]
      /\ skipped \in [Streams -> Nat]
  BY <1>1 DEF States
<1>3. ASSUME NEW s \in Streams PROVE Progress(s, 0)
  <2>1. 0 \in 0 .. Intact(s)
    BY <1>1, ExpectedFacts
  <2>2. input[s] = SubSeq(Whole(s), 1, Arrives(s)) /\ taken[s] = <<>> /\ skipped[s] = 0
    BY <1>1, Zenon DEF Arrives
  <2>3. Bytes(s, 0) + 1 = 1
    <3>1. Bytes(s, 0) = 0
      BY <1>1, ContentFacts, BytesFacts, Zenon DEF Bytes
    <3> QED
      BY <3>1
  <2>4. input[s] = Rest(s, 0)
    BY <2>2, <2>3, Zenon DEF Rest
  <2>5. taken[s] = First(Meanings(s), 0)
    BY <1>1, <2>2, MeaningsFacts, Zenon DEF Firsts
  <2>6. Len(taken[s]) + skipped[s] = 0
    BY <2>2
  <2>7. At(s, 0)
    <3>1. CASE s = Session
      <4>1. state[s] = "frame" /\ Lane(s) = "session"
        BY <1>1, <3>1 DEF Lane
      <4> QED
        BY <2>6, <4>1 DEF At, NoLane, Counted
    <3>2. CASE s # Session
      <4>1. state[s] = "byte"
        BY <1>1, <3>2
      <4> QED
        BY <3>2, <4>1 DEF At
    <3> QED
      BY <3>1, <3>2, Zenon
  <2> QED
    BY <2>1, <2>4, <2>5, <2>7, Zenon DEF Progress
<1>4. ClosedRight
  BY <1>1 DEF ClosedRight
<1>5. 0 \in Nat
  OBVIOUS
<1> QED
  BY <1>1, <1>2, <1>3, <1>4, <1>5, Zenon DEF ReadersInv

LEMMA ReadersKeep ==
  ASSUME ReadersInv, [Next]_vars
  PROVE  ReadersInv'
<1>1. CASE UNCHANGED readers
  BY <1>1, ReadersStay, Zenon DEF readers
<1>2. CASE UNCHANGED vars
  BY <1>1, <1>2 DEF vars
<1>3. CASE \E item \in Items : Push(item)
  BY <1>1, <1>3, Zenon DEF Push
<1>4. CASE WriteNext
  BY <1>1, <1>4, Zenon DEF WriteNext
<1>5. CASE PumpNext
  BY <1>1, <1>5, Zenon DEF PumpNext
<1>6. CASE LoseAll \/ StallNext
  <2>1. Go
    BY <1>6, Zenon DEF LoseAll, StallNext
  <2> QED
    BY <2>1, ReadersStay, Zenon DEF Go
<1>7. CASE ReceiveNext
  BY <1>1, <1>7, Zenon DEF ReceiveNext
<1>8. CASE DropNext
  BY <1>1, <1>8, ReadersStay, Zenon DEF DropNext, DropDeliveries
<1>9. ASSUME NEW s \in Streams, Read(s) PROVE ReadersInv'
  <2>1. Step(s)
    BY <1>9, Zenon DEF Read
  <2> QED
    BY <2>1, ByteKeeps, FrameKeeps, LeaveKeeps, EndKeeps, AfterKeeps, FailKeeps, Zenon DEF Step
<1> QED
  BY <1>2, <1>3, <1>4, <1>5, <1>6, <1>7, <1>8, <1>9, Zenon DEF Next

-----------------------------------------------------------------------------
\* What is wanted of a stream is what its first Expected items mean.
LEMMA WantedIs ==
  ASSUME content \in Contents, NEW s \in Streams
  PROVE  Wanted(s) = First(Meanings(s), Expected(s))
<1> DEFINE M == Meanings(s)
           E == Expected(s)
           K == Keeps(s)
           wanted == [i \in 1 .. E |-> Meaning(s, content[s].items[i])]
<1>1. E \in Nat /\ E <= Intact(s) /\ Intact(s) \in Nat
  BY ExpectedFacts, Zenon
<1>2. M \in Seq(Seq(K)) /\ Len(M) = Intact(s)
  BY MeaningsFacts, Zenon
<1>3. \A i \in 1 .. Intact(s) : M[i] = Meaning(s, content[s].items[i])
  BY Zenon DEF Meanings
<1>4. \A i \in 1 .. E : i \in 1 .. Intact(s)
  BY <1>1
<1>5. \A i \in 1 .. E : wanted[i] = M[i]
  BY <1>3, <1>4, Zenon
<1>6. wanted = [i \in 1 .. E |-> wanted[i]]
  BY Zenon
<1> HIDE DEF M, E, K, wanted
<1> DEFINE S == Seq(K)
           u == SubSeq(M, 1, E)
<1>7. M \in Seq(S)
  BY <1>2
<1> HIDE DEF S
<1>8. \A i \in 1 .. E : M[i] \in S
  BY <1>1, <1>2, <1>7
<1>9. wanted \in [1 .. E -> S]
  BY <1>5, <1>6, <1>8
<1>10. wanted \in Seq(S) /\ Len(wanted) = E
  BY <1>1, <1>9
<1>11. u \in Seq(S) /\ Len(u) = E /\ \A i \in 1 .. E : u[i] = M[i]
  BY <1>1, <1>2, <1>7
<1> HIDE DEF u
<1>12. \A i \in 1 .. Len(wanted) : wanted[i] = u[i]
  BY <1>5, <1>10, <1>11
<1>13. wanted = u
  BY <1>10, <1>11, <1>12, SeqEqual
<1> QED
  BY <1>13, Zenon DEF Wanted, First, wanted, u, M, E

LEMMA ReadersTake ==
  ASSUME ReadersInv
  PROVE  TakesWhatIsWanted
<1> SUFFICES ASSUME NEW s \in Streams
             PROVE  /\ IsPrefix(taken[s], Wanted(s))
                    /\ state[s] \in {"ended", "stopped"} => taken[s] = Wanted(s)
  BY Zenon DEF TakesWhatIsWanted
<1>1. content \in Contents
  BY Zenon DEF ReadersInv
<1>2. PICK n \in Nat : Progress(s, n)
  BY Zenon DEF ReadersInv
<1>3. taken[s] = First(Meanings(s), n) /\ At(s, n) /\ n \in 0 .. Intact(s)
  BY <1>2, Zenon DEF Progress
<1>4. Wanted(s) = First(Meanings(s), Expected(s))
  BY <1>1, WantedIs, Zenon
<1>5. IsPrefix(taken[s], Wanted(s))
  <2> DEFINE K == Keeps(s)
             M == Meanings(s)
  <2>1. n <= Expected(s) /\ Expected(s) \in Nat /\ Expected(s) <= Intact(s) /\ Intact(s) \in Nat
    BY <1>1, <1>2, NotTooFar, ExpectedFacts, Zenon
  <2>2. M \in Seq(Seq(K)) /\ Len(M) = Intact(s) /\ Firsts(K, M)
    BY <1>1, MeaningsFacts, Zenon
  <2>3. n \in 0 .. Len(M) /\ Expected(s) \in n .. Len(M)
    BY <1>3, <2>1, <2>2
  <2> HIDE DEF K, M
  <2>4. Grows(K, M, n, Expected(s))
    BY <2>2, <2>3, FirstGrows, Zenon
  <2>5. PICK z \in Seq(K) : First(M, Expected(s)) = First(M, n) \o z
    BY <2>4, Zenon DEF Grows
  <2> DEFINE a == First(M, n)
  <2>6. a \in Seq(K)
    BY <2>2, <2>3, Zenon DEF Firsts
  <2> HIDE DEF a
  <2>7. Halved(K, a \o z, a, z)
    BY <2>6, Halves, Zenon
  <2>8. Len(a \o z) = Len(a) + Len(z) /\ SubSeq(a \o z, 1, Len(a)) = a
    BY <2>7, Zenon DEF Halved
  <2>9. SubSeq(a, 1, Len(a)) = a /\ Len(a) \in Nat /\ Len(z) \in Nat
    BY <2>6
  <2>10. Len(a) <= Len(a) + Len(z)
    BY <2>9
  <2>11. IsPrefix(a, a \o z)
    BY <2>8, <2>9, <2>10, Zenon DEF IsPrefix
  <2> QED
    BY <1>3, <1>4, <2>5, <2>11, Zenon DEF a, M
<1>6. ASSUME state[s] \in {"ended", "stopped"} PROVE taken[s] = Wanted(s)
  <2>1. n = Expected(s)
    BY <1>3, <1>6 DEF At
  <2> QED
    BY <1>3, <1>4, <2>1, Zenon
<1> QED
  BY <1>5, <1>6, Zenon

LEMMA ReadersReport ==
  ASSUME ReadersInv
  PROVE  NoFrameVanishes
<1>1. ASSUME NEW s \in Streams, state[s] = "ended", Lane(s) \notin NoLane
      PROVE  Len(taken[s]) + skipped[s] = Expected(s)
  <2>1. PICK n \in Nat : Progress(s, n)
    BY Zenon DEF ReadersInv
  <2>2. n = Expected(s) /\ Counted(s, n)
    BY <1>1, <2>1 DEF Progress, At
  <2> QED
    BY <2>2, Zenon DEF Counted
<1>2. ASSUME NEW s \in Streams, state[s] = "left"
      PROVE  LET n == Len(taken[s]) + skipped[s] IN
             /\ s \in Down /\ ~delivering
             /\ n < Expected(s) /\ input[s] = Beyond(s, n + 1)
             /\ Meaning(s, content[s].items[n + 1]) # <<>>
  <2>1. PICK n \in Nat : Progress(s, n)
    BY Zenon DEF ReadersInv
  <2>2. Left(s, n)
    BY <1>2, <2>1 DEF Progress, At
  <2>3. /\ s \in Down /\ ~delivering /\ n < Expected(s) /\ Len(taken[s]) + skipped[s] = n
        /\ input[s] = Rest(s, n + 1) /\ Meanings(s)[n + 1] # <<>>
    BY <2>2, Zenon DEF Left, Counted
  <2>4. Rest(s, n + 1) = Beyond(s, n + 1)
    BY Zenon DEF Rest, Beyond, Bytes, Arrives, First
  <2>5. n + 1 \in 1 .. Intact(s)
    <3>1. Expected(s) \in Nat /\ Expected(s) <= Intact(s) /\ Intact(s) \in Nat
      BY ExpectedFacts, Zenon DEF ReadersInv
    <3> QED
      BY <2>3, <3>1
  <2>6. Meanings(s)[n + 1] = Meaning(s, content[s].items[n + 1])
    BY <2>5, Zenon DEF Meanings
  <2> QED
    BY <2>3, <2>4, <2>6, Zenon
<1> QED
  BY <1>1, <1>2, Zenon DEF NoFrameVanishes, ReadersInv, ClosedRight

LEMMA ReadersInvariant == Spec => []ReadersInv
<1>1. Init => ReadersInv
  BY ReadersStart, Zenon DEF Init
<1>2. ReadersInv /\ [Next]_vars => ReadersInv'
  BY ReadersKeep
<1> QED
  BY <1>1, <1>2, PTL DEF Spec

\* read_loop, read_lane and pump_lane take from a stream what the peer sent
\* and the stream is for, in that order, and all of it when they come to its
\* end: TakesWhatIsWanted, for any streams, contents and cuts.
THEOREM TakeWanted == Spec => []TakesWhatIsWanted
<1>1. ReadersInv => TakesWhatIsWanted
  BY ReadersTake
<1> QED
  BY <1>1, ReadersInvariant, PTL

\* A frame that was read and not taken has been reported, but for the one
\* DELIVER that pump_lane has in hand when its channel is found closed, and the
\* SFU closes the connection for a bad length prefix and for nothing else:
\* NoFrameVanishes, for any streams, contents, cuts and receivers dropped.
THEOREM NoneVanishes == Spec => []NoFrameVanishes
<1>1. ReadersInv => NoFrameVanishes
  BY ReadersReport
<1> QED
  BY <1>1, ReadersInvariant, PTL
=============================================================================
