---------------------------- MODULE MCConnection ---------------------------
(***************************************************************************)
(* Connection with snapshots that both limits of a chunk cut, the entry    *)
(* count at u16::MAX, and an entry that fits no chunk; and with every kind *)
(* of item on each stream, whole and cut off.                              *)
(***************************************************************************)
EXTENDS Connection

T1 == <<0, 1>>
T2 == <<0, 2>>
M(i) == <<1, i>>

ConstTopics == {T1, T2}
ConstIds == {M(i) : i \in 1 .. 3}
ConstRoster == <<M(1), M(2), M(3)>>
ConstBlobs == {<<>>, <<7, 7, 7, 7, 7, 7, 7>>}
ConstEvents ==
  {About(JOINED, T1, M(1)), About(LEFT, T1, M(2)), To(PRESENCE, T2, M(3), <<7>>),
   With(ERROR, NoTopic, <<8>>), With(ERROR, T2, <<8>>), With(ERROR, Zero, <<8>>)}

ASSUME LimitsBite ==
  /\ CountMax < MaxEntries /\ CountMax < Len(Roster)
  /\ \E ms \in Members : Len(ms) > CountMax /\ Body(ms) <= MaxBody
  /\ \E ms \in Members : Len(ms) = 1 /\ Body(ms) > MaxBody

ConstUp == {"session", "up"}
ConstDown == {"down"}

Short(i) == [id |-> M(i), blob |-> <<>>]

\* Payloads, among them ones that look like an id or are as long as a topic.
Payloads == {<<>>, <<7>>, M(1)}

ConstFrames ==
  {Plain(tag, T1) : tag \in {SUBSCRIBE, UNSUBSCRIBE}}
    \cup {With(tag, T1, data) : tag \in {ANNOUNCE, PUBLISH, DELIVER}, data \in Payloads}
    \cup {To(tag, T2, M(1), data) : tag \in {PUBLISH_TO, PRESENCE}, data \in Payloads}
    \cup {About(tag, T1, M(2)) : tag \in {JOINED, LEFT}} \cup {With(ERROR, NoTopic, <<7>>)}

\* Bodies of a valid length that no frame has: cut short, an id that is none,
\* trailing bytes, an unknown tag.
Strange ==
  {Framed(tag, body) : tag \in {SUBSCRIBE, PUBLISH, PUBLISH_TO, DELIVER, 1}, body \in {<<>>, <<0>>}}
    \cup {Framed(SUBSCRIBE, T1 \o <<7>>), Framed(PUBLISH_TO, T1 \o <<0, 0>>), Framed(PUBLISH_TO, T1 \o <<1>>)}

BadLengths == {<<0>>, <<MaxFrameLen + 1>>}

All == {Encode(f) : f \in ConstFrames} \cup Strange \cup BadLengths
Few == {Encode(With(PUBLISH, T1, <<7>>)), Encode(With(DELIVER, T1, <<>>)), Encode(Plain(SUBSCRIBE, T1)),
        Framed(1, <<>>), <<0>>}

\* One stream carries anything, or each a frame or bad length, or none.
ConstContents ==
  LET Sent(byte, items, cuts) ==
        {[byte |-> byte, items |-> items, cut |-> c] : c \in cuts \cap 0 .. Len(FlattenSeq(items))}
      rich == UNION ({Sent(b, <<x>>, 0 .. 4) : b \in {0, 2, 3}, x \in All}
                       \cup {Sent(b, <<x, y>>, {0, 2}) : b \in {2, 3}, x \in All, y \in Few}
                       \cup {Sent(1, <<x, y, z>>, {0, 1}) : x, y, z \in Few})
                \cup Sent(NoByte, <<>>, {0})
      poor == UNION {Sent(2, <<x>>, {0}) : x \in Few}
  IN  UNION {[{s} -> rich] : s \in Up \cup Down} \cup [Up \cup Down -> poor] \cup {<<>>}

\* Items are queued where the other streams carry little.  Any comes first; a
\* few second; and two third, behind a full channel and a full window.
Again == {About(JOINED, T1, M(1))} \cup {Snapshot(t, FALSE, ms) : t \in Topics, ms \in {<<>>, [i \in 1 .. 3 |-> Short(i)]}}
Third == {About(JOINED, T1, M(1)), Snapshot(T1, FALSE, [i \in 1 .. 3 |-> Short(i)])}
ConstQuota(c, item) ==
  CASE c = <<>> -> IF item \in Third THEN 3 ELSE IF item \in Again THEN 2 ELSE 1
    [] DOMAIN c = {"up"} /\ c["up"].items = <<<<0>>>> -> 1
    [] OTHER -> 0

\* A receiver is dropped where something is to be received.
ConstDrops(c) ==
  IF c = <<>> THEN {"frames"} ELSE IF "down" \in DOMAIN c THEN {"deliveries"} ELSE {}
=============================================================================
