---------------------------- MODULE RoomsProofs ----------------------------
(***************************************************************************)
(* Proofs about Rooms, for every number of connections, endpoints, topics  *)
(* and blobs and every limit.                                              *)
(***************************************************************************)
EXTENDS Rooms, FiniteSetTheorems, TLAPS

\* A connection id that was handed out has an endpoint, and the ids from
\* nextConn on belong to nobody yet.
IdsHandedOut ==
  \A c \in Conns : phase[c] # "new" => peer[c] \in Peers /\ c < nextConn

\* The inductive invariant.
IInv ==
  /\ TypeOK
  /\ IdsHandedOut
  /\ SlotsHaveLiveOwners
  /\ MembersSeeTheRoom
  /\ RoomsAreNonEmpty

USE DEF Conns, NoConn

-----------------------------------------------------------------------------
(***************************************************************************)
(* What a client makes of each kind of frame.                              *)
(***************************************************************************)
LEMMA ApplyError ==
  ASSUME NEW v, NEW t
  PROVE  Apply(v, t, Error) = v
BY DEF Apply, Error

LEMMA ApplySnapshot ==
  ASSUME NEW v, NEW t, NEW u, NEW m
  PROVE  Apply(v, u, Snapshot(t, m)) = IF u = t THEN m ELSE v
BY DEF Apply, Snapshot

LEMMA ApplyJoined ==
  ASSUME NEW v \in View, NEW t, NEW u, NEW p
  PROVE  /\ u # t => Apply(v, u, Joined(t, p)) = v
         /\ Apply(v, t, Joined(t, p)) = [v EXCEPT ![p] = EmptyBlob]
BY SessionAssumption DEF Apply, Joined, View

LEMMA ApplyLeft ==
  ASSUME NEW v \in View, NEW t, NEW u, NEW p
  PROVE  /\ u # t => Apply(v, u, Left(t, p)) = v
         /\ Apply(v, t, Left(t, p)) = [v EXCEPT ![p] = Absent]
BY SessionAssumption DEF Apply, Left, View

LEMMA ApplyPresence ==
  ASSUME NEW v \in View, NEW t, NEW u, NEW p, NEW b
  PROVE  /\ u # t => Apply(v, u, Presence(t, p, b)) = v
         /\ Apply(v, t, Presence(t, p, b)) = [v EXCEPT ![p] = b]
BY SessionAssumption DEF Apply, Presence, View

\* The frames the rooms queue.
Frame ==
  {Error}
  \cup {Joined(t, p) : t \in Topics, p \in Peers}
  \cup {Left(t, p) : t \in Topics, p \in Peers}
  \cup {Presence(t, p, b) : t \in Topics, p \in Peers, b \in Blobs}
  \cup {Snapshot(t, m) : t \in Topics, m \in View}

LEMMA ApplyType ==
  ASSUME NEW v \in View \cup {NoView}, NEW t \in Topics, NEW f \in Frame
  PROVE  Apply(v, t, f) \in View \cup {NoView}
<1>1. CASE f = Error
  BY <1>1, ApplyError
<1>2. ASSUME NEW u \in Topics, NEW p \in Peers, f = Joined(u, p)
      PROVE  Apply(v, t, f) \in View \cup {NoView}
  BY <1>2, SessionAssumption DEF Apply, Joined, View
<1>3. ASSUME NEW u \in Topics, NEW p \in Peers, f = Left(u, p)
      PROVE  Apply(v, t, f) \in View \cup {NoView}
  BY <1>3, SessionAssumption DEF Apply, Left, View
<1>4. ASSUME NEW u \in Topics, NEW p \in Peers, NEW b \in Blobs,
             f = Presence(u, p, b)
      PROVE  Apply(v, t, f) \in View \cup {NoView}
  BY <1>4, SessionAssumption DEF Apply, Presence, View
<1>5. ASSUME NEW u \in Topics, NEW m \in View, f = Snapshot(u, m)
      PROVE  Apply(v, t, f) \in View \cup {NoView}
  BY <1>5, ApplySnapshot
<1>. QED  BY <1>1, <1>2, <1>3, <1>4, <1>5 DEF Frame

-----------------------------------------------------------------------------
(***************************************************************************)
(* What Push does, and to whom.                                            *)
(***************************************************************************)
LEMMA OtherMembersAreConns ==
  ASSUME TypeOK, NEW t \in Topics, NEW p
  PROVE  OtherMembers(t, p) \in SUBSET Conns
BY DEF TypeOK, TableTypeOK, OtherMembers, InRoom

LEMMA PushType ==
  ASSUME TypeOK, NEW to \in SUBSET Conns, NEW frame \in [Conns -> Frame],
         Push(to, frame)
  PROVE  /\ backlog' \in [Conns -> 0 .. OutboxLimit]
         /\ picture' \in [Conns -> [Topics -> View \cup {NoView}]]
         /\ writing' \in SUBSET Conns
         /\ closed' \in SUBSET Conns
<1>1. backlog' \in [Conns -> 0 .. OutboxLimit]
  BY SessionAssumption DEF TypeOK, Push, Overflows
<1>2. \A c \in Conns, t \in Topics :
        Apply(picture[c][t], t, frame[c]) \in View \cup {NoView}
  BY ApplyType, ZenonT(30) DEF TypeOK
<1>3. picture' \in [Conns -> [Topics -> View \cup {NoView}]]
  BY <1>2 DEF TypeOK, Push
<1>. QED  BY <1>1, <1>3 DEF TypeOK, Push

\* Whoever still receives frames after a Push has received the one meant for
\* it.
LEMMA PushPicture ==
  ASSUME TypeOK, NEW to, NEW frame, Push(to, frame),
         NEW c \in Conns, c \in writing', NEW t \in Topics
  PROVE  /\ c \in writing
         /\ picture'[c][t] = IF c \in to THEN Apply(picture[c][t], t, frame[c])
                                         ELSE picture[c][t]
BY DEF Push, TypeOK

-----------------------------------------------------------------------------
(***************************************************************************)
(* Every action preserves the invariant.                                   *)
(***************************************************************************)
LEMMA OpenInv ==
  ASSUME IInv, NEW p \in Peers, Open(p)
  PROVE  IInv'
<1>. USE DEF IInv, Open, NewConn
<1>1. nextConn \in Conns /\ phase[nextConn] = "new"
  BY DEF IdsHandedOut, TypeOK, TableTypeOK
<1>2. TypeOK'
  BY <1>1, ConstantsAssumption DEF TypeOK, TableTypeOK
<1>3. IdsHandedOut'
  BY <1>1 DEF IdsHandedOut, TypeOK, TableTypeOK
<1>4. \A t \in Topics, q \in Peers : owner[t][q] # nextConn
  BY <1>1 DEF SlotsHaveLiveOwners
<1>5. SlotsHaveLiveOwners'
  BY <1>1, <1>4 DEF SlotsHaveLiveOwners, TypeOK, TableTypeOK
<1>6. MembersSeeTheRoom'
  BY <1>4 DEF MembersSeeTheRoom, RoomSeenBy
<1>7. RoomsAreNonEmpty'
  BY DEF RoomsAreNonEmpty, InRoom
<1>. QED  BY <1>2, <1>3, <1>5, <1>6, <1>7

LEMMA RefuseInv ==
  ASSUME IInv, NEW c \in Conns, Refuse(c)
  PROVE  IInv'
<1>. DEFINE frame == [d \in Conns |-> Error]
<1>. USE DEF IInv, Refuse, tableVars
<1>1. frame \in [Conns -> Frame]
  BY DEF Frame
<1>2. TypeOK'
  <2>. HIDE DEF frame
  <2>1. Push({c}, frame)
    BY DEF frame
  <2>. QED  BY <1>1, <2>1, PushType, Zenon DEF TypeOK, TableTypeOK
<1>3. IdsHandedOut' /\ SlotsHaveLiveOwners' /\ RoomsAreNonEmpty'
  BY DEF IdsHandedOut, SlotsHaveLiveOwners, RoomsAreNonEmpty, InRoom
<1>4. MembersSeeTheRoom'
  <2>1. SUFFICES ASSUME NEW t \in Topics, NEW p \in Peers,
                        owner[t][p] \in writing'
                 PROVE  picture'[owner[t][p]][t] = RoomSeenBy(t, p)'
    BY DEF MembersSeeTheRoom
  <2>2. owner[t][p] \in Conns
    BY <1>2, <2>1, Zenon DEF TypeOK
  <2>3. /\ owner[t][p] \in writing
        /\ picture'[owner[t][p]][t] = picture[owner[t][p]][t]
    <3>. DEFINE d == owner[t][p]
    <3>. HIDE DEF frame, d
    <3>0. Push({c}, frame)
      BY DEF frame
    <3>1. /\ d \in writing
          /\ picture'[d][t] = IF d \in {c} THEN Apply(picture[d][t], t, frame[d])
                                         ELSE picture[d][t]
      BY <2>1, <2>2, <3>0, PushPicture DEF d
    <3>2. Apply(picture[d][t], t, frame[d]) = picture[d][t]
      BY <2>2, ApplyError DEF frame, d
    <3>. QED  BY <3>1, <3>2 DEF d
  <2>. QED  BY <2>3 DEF MembersSeeTheRoom, RoomSeenBy
<1>. QED  BY <1>2, <1>3, <1>4

LEMMA JoinInv ==
  ASSUME IInv, NEW c \in Conns, NEW t \in Topics, phase[c] = "open", Join(c, t)
  PROVE  IInv'
<1>. DEFINE p == peer[c]
            snap == Snapshot(t, RoomSeenBy(t, p))
            frame == [d \in Conns |-> IF d = c THEN snap ELSE Joined(t, p)]
            to == {c} \cup OtherMembers(t, p)
<1>1. p \in Peers
  BY DEF IInv, IdsHandedOut
<1>2. RoomSeenBy(t, p) \in View
  BY <1>1 DEF IInv, TypeOK, RoomSeenBy, View
<1>3. frame \in [Conns -> Frame]
  BY <1>1, <1>2 DEF Frame
<1>4. to \in SUBSET Conns
  BY OtherMembersAreConns DEF IInv
<1>5. Push(to, frame)
  BY DEF Join
<1>6. TypeOK'
  <2>. HIDE DEF frame, to, p
  <2>1. TableTypeOK'
    BY Zenon DEF IInv, Join, TakeSlot, TypeOK, TableTypeOK
  <2>2. blob' \in [Topics -> [Peers -> Blobs]]
    BY SessionAssumption, Zenon DEF IInv, Join, TypeOK
  <2>. QED  BY <1>3, <1>4, <1>5, <2>1, <2>2, PushType, Zenon DEF IInv, Join, TypeOK
<1>7. IdsHandedOut'
  BY DEF IInv, IdsHandedOut, Join, TakeSlot
<1>8. owner' = [owner EXCEPT ![t][p] = c]
  BY DEF Join, TakeSlot
<1>9. SlotsHaveLiveOwners'
  BY <1>1, <1>8 DEF IInv, SlotsHaveLiveOwners, Join, TakeSlot, TypeOK, TableTypeOK
<1>10. RoomsAreNonEmpty'
  BY <1>1, <1>8 DEF IInv, RoomsAreNonEmpty, InRoom, Join, TakeSlot, TypeOK, TableTypeOK
<1>11. MembersSeeTheRoom'
  <2>1. SUFFICES ASSUME NEW u \in Topics, NEW q \in Peers,
                        owner'[u][q] \in writing'
                 PROVE  picture'[owner'[u][q]][u] = RoomSeenBy(u, q)'
    BY DEF MembersSeeTheRoom
  <2>. DEFINE d == owner'[u][q]
  <2>2. d \in Conns
    BY <1>6, <2>1, Zenon DEF TypeOK
  <2>3. /\ d \in writing
        /\ picture'[d][u] = IF d \in to THEN Apply(picture[d][u], u, frame[d])
                                       ELSE picture[d][u]
    <3>. HIDE DEF frame, to, d
    <3>. QED  BY <1>5, <2>1, <2>2, PushPicture DEF d, IInv
  <2>4. CASE u = t /\ q = p
    <3>1. d = c
      BY <1>1, <1>8, <2>4 DEF IInv, TypeOK, TableTypeOK
    <3>2. picture'[d][u] = RoomSeenBy(t, p)
      BY <2>3, <2>4, <3>1, ApplySnapshot
    <3>3. RoomSeenBy(t, p) = RoomSeenBy(t, p)'
      BY <1>1, <1>8 DEF RoomSeenBy, Join, TakeSlot, IInv, TypeOK, TableTypeOK
    <3>. QED  BY <2>4, <3>2, <3>3 DEF p, Join, TakeSlot
  <2>5. CASE u # t
    <3>1. d = owner[u][q]
      BY <1>8, <2>5 DEF IInv, TypeOK, TableTypeOK
    <3>2. picture[d][u] = RoomSeenBy(u, q)
      BY <2>3, <3>1 DEF IInv, MembersSeeTheRoom
    <3>3. RoomSeenBy(u, q) \in View
      BY DEF IInv, TypeOK, RoomSeenBy, View
    <3>4. picture'[d][u] = picture[d][u]
      BY <2>2, <2>3, <2>5, <3>2, <3>3, ApplySnapshot, ApplyJoined
    <3>5. RoomSeenBy(u, q)' = RoomSeenBy(u, q)
      BY <1>8, <2>5 DEF RoomSeenBy, Join, IInv, TypeOK, TableTypeOK
    <3>. QED  BY <3>2, <3>4, <3>5
  <2>6. CASE u = t /\ q # p
    <3>1. d = owner[t][q]
      BY <1>8, <2>6 DEF IInv, TypeOK, TableTypeOK
    <3>2. d # c /\ d \in to
      BY <2>2, <2>6, <3>1 DEF IInv, SlotsHaveLiveOwners, OtherMembers, InRoom
    <3>3. picture[d][t] = RoomSeenBy(t, q)
      BY <2>3, <3>1 DEF IInv, MembersSeeTheRoom
    <3>4. RoomSeenBy(t, q) \in View
      BY DEF IInv, TypeOK, RoomSeenBy, View
    <3>5. picture'[d][u] = [RoomSeenBy(t, q) EXCEPT ![p] = EmptyBlob]
      BY <2>2, <2>3, <2>6, <3>2, <3>3, <3>4, ApplyJoined
    <3>6. RoomSeenBy(t, q)' = [RoomSeenBy(t, q) EXCEPT ![p] = EmptyBlob]
      <4>1. \A r \in Peers :
              /\ owner'[t][r] = IF r = p THEN c ELSE owner[t][r]
              /\ blob'[t][r] = IF r = p THEN EmptyBlob ELSE blob[t][r]
        BY <1>8 DEF Join, IInv, TypeOK, TableTypeOK
      <4>2. \A r \in Peers : RoomSeenBy(t, q)'[r]
                = [RoomSeenBy(t, q) EXCEPT ![p] = EmptyBlob][r]
        BY <1>1, <2>6, <4>1 DEF RoomSeenBy
      <4>. QED  BY <4>2, Zenon DEF RoomSeenBy
    <3>. QED  BY <2>6, <3>5, <3>6
  <2>. QED  BY <2>4, <2>5, <2>6
<1>. QED  BY <1>6, <1>7, <1>9, <1>10, <1>11 DEF IInv

\* A broadcast about endpoint p reaches every other member and nobody else,
\* so it is enough to say what one such frame does to a member's picture.
LEMMA BroadcastPicture ==
  ASSUME IInv, NEW t \in Topics, NEW p \in Peers, NEW f, Broadcast(t, p, f),
         NEW u \in Topics, NEW q \in Peers, owner[u][q] \in writing',
         u = t => q # p
  PROVE  /\ RoomSeenBy(u, q) \in View
         /\ picture[owner[u][q]][u] = RoomSeenBy(u, q)
         /\ u = t => picture'[owner[u][q]][u] = Apply(RoomSeenBy(u, q), u, f)
         /\ u # t => picture'[owner[u][q]][u] \in
                       {RoomSeenBy(u, q), Apply(RoomSeenBy(u, q), u, f)}
<1>. DEFINE d == owner[u][q]
            to == OtherMembers(t, p)
            frame == [c \in Conns |-> f]
<1>1. RoomSeenBy(u, q) \in View
  BY DEF IInv, TypeOK, RoomSeenBy, View
<1>2. Push(to, frame)
  BY DEF Broadcast
<1>3. d \in Conns
  BY <1>2 DEF IInv, TypeOK, Push
<1>4. /\ d \in writing
      /\ picture'[d][u] = IF d \in to THEN Apply(picture[d][u], u, frame[d])
                                     ELSE picture[d][u]
  <2>. HIDE DEF to, frame, d
  <2>. QED  BY <1>2, <1>3, PushPicture DEF d, IInv
<1>5. picture[d][u] = RoomSeenBy(u, q)
  BY <1>4 DEF IInv, MembersSeeTheRoom
<1>6. u = t => d \in to
  BY <1>3 DEF OtherMembers, InRoom
<1>7. frame[d] = f
  BY <1>3
<1>. HIDE DEF frame, to, d
<1>. QED  BY <1>1, <1>4, <1>5, <1>6, <1>7 DEF d

LEMMA LeaveInv ==
  ASSUME IInv, NEW c \in Conns, NEW t \in Topics,
         phase[c] \in {"open", "ending"}, Leave(c, t), UNCHANGED phase
  PROVE  IInv'
<1>. DEFINE p == peer[c]
<1>1. p \in Peers
  BY DEF IInv, IdsHandedOut
<1>2. CASE ~OwnsSlot(t, c)
  <2>1. /\ UNCHANGED <<nextConn, peer, rooms, owner, blob, backlog, writing,
                      closed, picture, phase>>
        /\ subscribed' = [subscribed EXCEPT ![c] = @ \ {t}]
    BY <1>2 DEF Leave, tableVars
  <2>2. TypeOK'
    BY <2>1 DEF IInv, TypeOK, TableTypeOK
  <2>3. SlotsHaveLiveOwners'
    BY <1>2, <2>1 DEF IInv, SlotsHaveLiveOwners, OwnsSlot, TypeOK, TableTypeOK
  <2>. QED  BY <2>1, <2>2, <2>3 DEF IInv, IdsHandedOut, MembersSeeTheRoom,
                                    RoomSeenBy, RoomsAreNonEmpty, InRoom
<1>3. CASE OwnsSlot(t, c)
  <2>1. /\ subscribed' = [subscribed EXCEPT ![c] = @ \ {t}]
        /\ owner' = [owner EXCEPT ![t][p] = NoConn]
        /\ rooms' = IF InRoom(t) = {p} THEN rooms \ {t} ELSE rooms
        /\ blob' = [blob EXCEPT ![t][p] = EmptyBlob]
        /\ UNCHANGED <<nextConn, peer, phase>>
        /\ Broadcast(t, p, Left(t, p))
    BY <1>3 DEF Leave, VacateSlot
  <2>. HIDE DEF p
  <2>2. TypeOK'
    <3>. DEFINE frame == [d \in Conns |-> Left(t, p)]
    <3>1. frame \in [Conns -> Frame]
      BY <1>1 DEF Frame
    <3>2. Push(OtherMembers(t, p), frame)
      BY <2>1 DEF Broadcast
    <3>3. TableTypeOK' /\ blob' \in [Topics -> [Peers -> Blobs]]
      BY <2>1, SessionAssumption, Zenon DEF IInv, TypeOK, TableTypeOK
    <3>. HIDE DEF frame
    <3>4. /\ backlog' \in [Conns -> 0 .. OutboxLimit]
          /\ picture' \in [Conns -> [Topics -> View \cup {NoView}]]
          /\ writing' \in SUBSET Conns
          /\ closed' \in SUBSET Conns
      BY <3>1, <3>2, PushType, OtherMembersAreConns, Zenon DEF IInv
    <3>. QED  BY <2>1, <3>3, <3>4 DEF IInv, TypeOK
  <2>3. \A u \in Topics, q \in Peers :
          /\ owner'[u][q] = IF u = t /\ q = p THEN NoConn ELSE owner[u][q]
          /\ blob'[u][q] = IF u = t /\ q = p THEN EmptyBlob ELSE blob[u][q]
    BY <2>1 DEF IInv, TypeOK, TableTypeOK
  <2>4. IdsHandedOut'
    BY <2>1 DEF IInv, IdsHandedOut
  <2>5. SlotsHaveLiveOwners'
    BY <2>1, <2>3 DEF IInv, SlotsHaveLiveOwners, TypeOK, TableTypeOK, p
  <2>6. RoomsAreNonEmpty'
    BY <1>1, <2>1, <2>3 DEF IInv, RoomsAreNonEmpty, InRoom
  <2>7. MembersSeeTheRoom'
    <3>1. SUFFICES ASSUME NEW u \in Topics, NEW q \in Peers,
                          owner'[u][q] \in writing'
                   PROVE  picture'[owner'[u][q]][u] = RoomSeenBy(u, q)'
      BY DEF MembersSeeTheRoom
    <3>2. owner'[u][q] = owner[u][q] /\ ~(u = t /\ q = p)
      BY <2>2, <2>3, <3>1 DEF TypeOK
    <3>3. CASE u # t
      <4>1. picture'[owner[u][q]][u] = RoomSeenBy(u, q)
        BY <1>1, <2>1, <3>1, <3>2, <3>3, BroadcastPicture, ApplyLeft
      <4>2. RoomSeenBy(u, q)' = RoomSeenBy(u, q)
        BY <2>3, <3>3 DEF RoomSeenBy
      <4>. QED  BY <3>2, <4>1, <4>2
    <3>4. CASE u = t
      <4>1. picture'[owner[u][q]][u] = [RoomSeenBy(u, q) EXCEPT ![p] = Absent]
        BY <1>1, <2>1, <3>1, <3>2, <3>4, BroadcastPicture, ApplyLeft
      <4>2. \A r \in Peers : RoomSeenBy(u, q)'[r]
              = [RoomSeenBy(u, q) EXCEPT ![p] = Absent][r]
        BY <1>1, <2>3, <3>4 DEF RoomSeenBy
      <4>3. RoomSeenBy(u, q)' = [RoomSeenBy(u, q) EXCEPT ![p] = Absent]
        BY <4>2, Zenon DEF RoomSeenBy
      <4>. QED  BY <3>2, <4>1, <4>3
    <3>. QED  BY <3>3, <3>4
  <2>. QED  BY <2>2, <2>4, <2>5, <2>6, <2>7 DEF IInv
<1>. QED  BY <1>2, <1>3

LEMMA AnnounceInv ==
  ASSUME IInv, NEW c \in Conns, NEW t \in Topics \cup {ZeroTopic},
         NEW b \in Blobs, NEW ok \in BOOLEAN, Announce(c, t, b, ok)
  PROVE  IInv'
<1>. DEFINE p == peer[c]
<1>1. p \in Peers
  BY DEF IInv, IdsHandedOut, Announce
<1>2. CASE Refuse(c)
  BY <1>2, RefuseInv
<1>3. CASE UNCHANGED vars
  BY <1>3 DEF IInv, TypeOK, TableTypeOK, IdsHandedOut, SlotsHaveLiveOwners,
              MembersSeeTheRoom, RoomSeenBy, RoomsAreNonEmpty, InRoom, vars,
              tableVars
<1>4. CASE /\ t \in subscribed[c]
           /\ OwnsSlot(t, c)
           /\ blob' = [blob EXCEPT ![t][p] = b]
           /\ Broadcast(t, p, Presence(t, p, b))
           /\ UNCHANGED <<tableVars, phase, subscribed>>
  <2>. HIDE DEF p
  <2>0. t \in Topics
    BY <1>4 DEF IInv, TypeOK
  <2>1. UNCHANGED <<nextConn, peer, rooms, owner, phase, subscribed>>
    BY <1>4 DEF tableVars
  <2>2. TypeOK'
    <3>. DEFINE frame == [d \in Conns |-> Presence(t, p, b)]
    <3>1. frame \in [Conns -> Frame]
      BY <1>1, <2>0 DEF Frame
    <3>2. Push(OtherMembers(t, p), frame)
      BY <1>4 DEF Broadcast
    <3>3. TableTypeOK' /\ blob' \in [Topics -> [Peers -> Blobs]]
      BY <1>4, <2>1, Zenon DEF IInv, TypeOK, TableTypeOK
    <3>. HIDE DEF frame
    <3>4. /\ backlog' \in [Conns -> 0 .. OutboxLimit]
          /\ picture' \in [Conns -> [Topics -> View \cup {NoView}]]
          /\ writing' \in SUBSET Conns
          /\ closed' \in SUBSET Conns
      BY <2>0, <3>1, <3>2, PushType, OtherMembersAreConns, Zenon DEF IInv
    <3>. QED  BY <2>1, <3>3, <3>4 DEF IInv, TypeOK
  <2>3. IdsHandedOut' /\ SlotsHaveLiveOwners' /\ RoomsAreNonEmpty'
    BY <2>1 DEF IInv, IdsHandedOut, SlotsHaveLiveOwners, RoomsAreNonEmpty, InRoom
  <2>4. \A u \in Topics, q \in Peers :
          blob'[u][q] = IF u = t /\ q = p THEN b ELSE blob[u][q]
    BY <1>4 DEF IInv, TypeOK
  <2>5. MembersSeeTheRoom'
    <3>1. SUFFICES ASSUME NEW u \in Topics, NEW q \in Peers,
                          owner[u][q] \in writing'
                   PROVE  picture'[owner[u][q]][u] = RoomSeenBy(u, q)'
      BY <2>1 DEF MembersSeeTheRoom
    <3>2. CASE u # t
      <4>1. picture'[owner[u][q]][u] = RoomSeenBy(u, q)
        BY <1>1, <1>4, <2>0, <3>1, <3>2, BroadcastPicture, ApplyPresence
      <4>. QED  BY <2>1, <2>4, <3>2, <4>1 DEF RoomSeenBy
    <3>3. CASE u = t /\ q # p
      <4>1. picture'[owner[u][q]][u] = [RoomSeenBy(u, q) EXCEPT ![p] = b]
        BY <1>1, <1>4, <2>0, <3>1, <3>3, BroadcastPicture, ApplyPresence
      <4>2. owner[t][p] # NoConn
        BY <1>1, <1>4, <2>0 DEF OwnsSlot, p
      <4>3. \A r \in Peers : RoomSeenBy(u, q)'[r]
              = [RoomSeenBy(u, q) EXCEPT ![p] = b][r]
        BY <1>1, <2>1, <2>4, <3>3, <4>2 DEF RoomSeenBy
      <4>4. RoomSeenBy(u, q)' = [RoomSeenBy(u, q) EXCEPT ![p] = b]
        BY <4>3, Zenon DEF RoomSeenBy
      <4>. QED  BY <4>1, <4>4
    <3>4. CASE u = t /\ q = p
      <4>1. owner[u][q] = c
        BY <1>4, <3>4 DEF OwnsSlot, p
      <4>2. c \notin OtherMembers(t, p)
        BY <2>0 DEF OtherMembers, InRoom, IInv, SlotsHaveLiveOwners, p
      <4>3. /\ c \in writing
            /\ picture'[c][u] = picture[c][u]
        <5>. DEFINE frame == [d \in Conns |-> Presence(t, p, b)]
        <5>1. Push(OtherMembers(t, p), frame)
          BY <1>4 DEF Broadcast
        <5>. HIDE DEF frame
        <5>. QED  BY <3>1, <4>1, <4>2, <5>1, PushPicture DEF IInv
      <4>4. picture[c][u] = RoomSeenBy(u, q)
        BY <4>1, <4>3 DEF IInv, MembersSeeTheRoom
      <4>. QED  BY <2>1, <2>4, <3>4, <4>1, <4>3, <4>4 DEF RoomSeenBy
    <3>. QED  BY <3>2, <3>3, <3>4
  <2>. QED  BY <2>2, <2>3, <2>5 DEF IInv
<1>. QED  BY <1>2, <1>3, <1>4 DEF Announce

\* The steps that change neither the table nor the blobs.
LEMMA WriterInv ==
  ASSUME IInv, NEW c \in Conns,
         \/ WriteSession(c)
         \/ StopWriter(c)
         \/ CloseConn(c)
         \/ EndSession(c)
         \/ DropSession(c)
  PROVE  IInv'
<1>. USE DEF WriteSession, StopWriter, CloseConn, EndSession, DropSession,
             EndWriting, tableVars
<1>1. UNCHANGED <<nextConn, peer, rooms, owner, blob, subscribed>>
  OBVIOUS
<1>2. TypeOK'
  <2>1. TableTypeOK'
    BY <1>1 DEF IInv, TypeOK, TableTypeOK
  <2>2. phase' \in [Conns -> {"new", "open", "ending", "done"}]
    BY DEF IInv, TypeOK
  <2>3. backlog' \in [Conns -> 0 .. OutboxLimit]
    BY SessionAssumption DEF IInv, TypeOK
  <2>4. writing' \in SUBSET Conns /\ closed' \in SUBSET Conns
    BY Zenon DEF IInv, TypeOK
  <2>5. picture' \in [Conns -> [Topics -> View \cup {NoView}]]
    BY DEF IInv, TypeOK
  <2>. QED  BY <1>1, <2>1, <2>2, <2>3, <2>4, <2>5 DEF IInv, TypeOK
<1>3. \A d \in Conns : phase'[d] # phase[d] =>
        \/ phase[d] = "open" /\ phase'[d] = "ending"
        \/ phase[d] = "ending" /\ phase'[d] = "done" /\ subscribed[d] = {}
  BY Zenon DEF IInv, TypeOK
<1>4. IdsHandedOut'
  BY <1>1, <1>3 DEF IInv, IdsHandedOut
<1>5. SlotsHaveLiveOwners'
  BY <1>1, <1>3, SMTT(20), ZenonT(20), SMTT(30) DEF IInv, SlotsHaveLiveOwners, TypeOK, TableTypeOK
<1>6. RoomsAreNonEmpty'
  BY <1>1 DEF IInv, RoomsAreNonEmpty, InRoom
<1>7. \A d \in writing' : d \in writing /\ picture'[d] = picture[d]
  BY Zenon DEF IInv, TypeOK
<1>8. MembersSeeTheRoom'
  BY <1>1, <1>7 DEF IInv, MembersSeeTheRoom, RoomSeenBy
<1>. QED  BY <1>2, <1>4, <1>5, <1>6, <1>8 DEF IInv

LEMMA InitInv == Init => IInv
<1>. SUFFICES ASSUME Init PROVE IInv
  OBVIOUS
<1>. USE DEF Init, TableInit
<1>1. TypeOK
  BY ConstantsAssumption, SessionAssumption DEF TypeOK, TableTypeOK
<1>2. IdsHandedOut /\ SlotsHaveLiveOwners
  BY DEF IdsHandedOut, SlotsHaveLiveOwners
<1>3. MembersSeeTheRoom /\ RoomsAreNonEmpty
  BY DEF MembersSeeTheRoom, RoomsAreNonEmpty, InRoom
<1>. QED  BY <1>1, <1>2, <1>3 DEF IInv

LEMMA NextInv == IInv /\ [Next]_vars => IInv'
<1>. SUFFICES ASSUME IInv, [Next]_vars PROVE IInv'
  OBVIOUS
<1>1. CASE UNCHANGED vars
  BY <1>1 DEF IInv, TypeOK, TableTypeOK, IdsHandedOut, SlotsHaveLiveOwners,
              MembersSeeTheRoom, RoomSeenBy, RoomsAreNonEmpty, InRoom, vars,
              tableVars
<1>2. ASSUME NEW p \in Peers, Open(p)
      PROVE  IInv'
  BY <1>2, OpenInv
<1>3. ASSUME NEW c \in Conns, NEW t \in Topics \cup {ZeroTopic},
             NEW allowed \in BOOLEAN, Subscribe(c, t, allowed)
      PROVE  IInv'
  BY <1>3, RefuseInv, JoinInv DEF Subscribe, SubscribeRefused
<1>4. ASSUME NEW c \in Conns, NEW t \in Topics \cup {ZeroTopic},
             NEW b \in Blobs, NEW ok \in BOOLEAN, Announce(c, t, b, ok)
      PROVE  IInv'
  BY <1>4, AnnounceInv
<1>5. ASSUME NEW c \in Conns, NEW t \in Topics,
             Unsubscribe(c, t) \/ LeaveOne(c, t)
      PROVE  IInv'
  BY <1>5, LeaveInv DEF Unsubscribe, LeaveOne
<1>6. ASSUME NEW c \in Conns, RefuseOther(c)
      PROVE  IInv'
  BY <1>6, RefuseInv DEF RefuseOther
<1>7. ASSUME NEW c \in Conns,
             \/ WriteSession(c)
             \/ StopWriter(c)
             \/ CloseConn(c)
             \/ EndSession(c)
             \/ DropSession(c)
      PROVE  IInv'
  BY <1>7, WriterInv
<1>. QED  BY <1>1, <1>2, <1>3, <1>4, <1>5, <1>6, <1>7 DEF Next

\* The types, and that no session queue outgrows its budget.
THEOREM TypeCorrect == Spec => []TypeOK
BY InitInv, NextInv, PTL DEF Spec, IInv

\* leave_all, which walks the session's own list, frees every slot: no room
\* keeps the handle of a connection that serve_connection is done with.
THEOREM LiveOwners == Spec => []SlotsHaveLiveOwners
BY InitInv, NextInv, PTL DEF Spec, IInv

\* Whatever is interleaved, a member that has read its queue knows the room.
THEOREM PicturesAgree == Spec => []MembersSeeTheRoom
BY InitInv, NextInv, PTL DEF Spec, IInv

\* The shard maps hold exactly the rooms that have members.
THEOREM NoEmptyRooms == Spec => []RoomsAreNonEmpty
BY InitInv, NextInv, PTL DEF Spec, IInv

-----------------------------------------------------------------------------
(***************************************************************************)
(* The table changes one slot at a time, through Join and Leave only.      *)
(***************************************************************************)
LEMMA TableSteps ==
  ASSUME IInv, [Next]_vars
  PROVE  \/ UNCHANGED owner
         \/ \E c \in Conns, t \in Topics :
              /\ peer[c] \in Peers
              /\ ~Full(t, peer[c])
              /\ owner' = [owner EXCEPT ![t][peer[c]] = c]
              /\ UNCHANGED peer
         \/ \E c \in Conns, t \in Topics :
              /\ peer[c] \in Peers
              /\ OwnsSlot(t, c)
              /\ subscribed' = [subscribed EXCEPT ![c] = @ \ {t}]
              /\ owner' = [owner EXCEPT ![t][peer[c]] = NoConn]
<1>1. CASE UNCHANGED vars
  BY <1>1 DEF vars, tableVars
<1>2. ASSUME NEW p \in Peers, Open(p)
      PROVE  UNCHANGED owner
  BY <1>2 DEF Open, NewConn
<1>3. ASSUME NEW c \in Conns, NEW t \in Topics \cup {ZeroTopic},
             NEW allowed \in BOOLEAN, Subscribe(c, t, allowed)
      PROVE  \/ UNCHANGED owner
             \/ /\ t \in Topics
                /\ peer[c] \in Peers
                /\ ~Full(t, peer[c])
                /\ owner' = [owner EXCEPT ![t][peer[c]] = c]
                /\ UNCHANGED peer
  BY <1>3 DEF Subscribe, SubscribeRefused, Refuse, Join, TakeSlot, tableVars,
              IInv, IdsHandedOut
<1>4. ASSUME NEW c \in Conns, NEW t \in Topics \cup {ZeroTopic},
             NEW b \in Blobs, NEW ok \in BOOLEAN, Announce(c, t, b, ok)
      PROVE  UNCHANGED owner
  BY <1>4 DEF Announce, Refuse, tableVars, vars
<1>5. ASSUME NEW c \in Conns, NEW t \in Topics,
             Unsubscribe(c, t) \/ LeaveOne(c, t)
      PROVE  \/ UNCHANGED owner
             \/ /\ peer[c] \in Peers
                /\ OwnsSlot(t, c)
                /\ subscribed' = [subscribed EXCEPT ![c] = @ \ {t}]
                /\ owner' = [owner EXCEPT ![t][peer[c]] = NoConn]
  BY <1>5, SMTT(20) DEF Unsubscribe, LeaveOne, Leave, VacateSlot, tableVars, IInv,
              IdsHandedOut
<1>6. ASSUME NEW c \in Conns,
             \/ RefuseOther(c)
             \/ WriteSession(c)
             \/ StopWriter(c)
             \/ CloseConn(c)
             \/ EndSession(c)
             \/ DropSession(c)
      PROVE  UNCHANGED owner
  BY <1>6 DEF RefuseOther, Refuse, WriteSession, StopWriter, CloseConn,
              EndSession, DropSession, tableVars
<1>. QED  BY <1>1, <1>2, <1>3, <1>4, <1>5, <1>6 DEF Next

LEMMA CapStep ==
  ASSUME IInv, RoomsWithinCap, [Next]_vars
  PROVE  RoomsWithinCap'
<1>1. CASE UNCHANGED owner
  BY <1>1 DEF RoomsWithinCap, InRoom
<1>2. ASSUME NEW c \in Conns, NEW t \in Topics, peer[c] \in Peers,
             ~Full(t, peer[c]), owner' = [owner EXCEPT ![t][peer[c]] = c]
      PROVE  RoomsWithinCap'
  <2>1. SUFFICES ASSUME NEW u \in Topics
                 PROVE  Cardinality(InRoom(u)') <= MaxMembers
    BY DEF RoomsWithinCap
  <2>2. CASE u # t
    <3>1. InRoom(u)' = InRoom(u)
      BY <1>2, <2>2 DEF InRoom, IInv, TypeOK, TableTypeOK
    <3>. QED  BY <3>1 DEF RoomsWithinCap
  <2>3. CASE u = t
    <3>1. InRoom(u)' = InRoom(u) \cup {peer[c]}
      BY <1>2, <2>3 DEF InRoom, IInv, TypeOK, TableTypeOK
    <3>2. IsFiniteSet(InRoom(u)) /\ Cardinality(InRoom(u)) \in Nat
      BY ConstantsAssumption, FS_Subset, FS_CardinalityType DEF InRoom
    <3>3. Cardinality(InRoom(u)') =
            IF peer[c] \in InRoom(u) THEN Cardinality(InRoom(u))
                                     ELSE Cardinality(InRoom(u)) + 1
      BY <3>1, <3>2, FS_AddElement, Zenon
    <3>4. Cardinality(InRoom(u)) <= MaxMembers
      BY DEF RoomsWithinCap
    <3>. QED  BY <1>2, <2>3, <3>2, <3>3, <3>4, ConstantsAssumption DEF Full
  <2>. QED  BY <2>2, <2>3
<1>3. ASSUME NEW c \in Conns, NEW t \in Topics, peer[c] \in Peers,
             owner' = [owner EXCEPT ![t][peer[c]] = NoConn]
      PROVE  RoomsWithinCap'
  <2>1. SUFFICES ASSUME NEW u \in Topics
                 PROVE  Cardinality(InRoom(u)') <= MaxMembers
    BY DEF RoomsWithinCap
  <2>2. InRoom(u)' \in SUBSET InRoom(u)
    BY <1>3 DEF InRoom, IInv, TypeOK, TableTypeOK
  <2>3. IsFiniteSet(InRoom(u)) /\ Cardinality(InRoom(u)) \in Nat
    BY ConstantsAssumption, FS_Subset, FS_CardinalityType DEF InRoom
  <2>4. /\ Cardinality(InRoom(u)') <= Cardinality(InRoom(u))
        /\ Cardinality(InRoom(u)') \in Nat
    BY <2>2, <2>3, FS_Subset, FS_CardinalityType
  <2>. QED  BY <2>3, <2>4, ConstantsAssumption DEF RoomsWithinCap
<1>. QED  BY <1>1, <1>2, <1>3, TableSteps

\* A room never outgrows max_members, however joins, takeovers and leaves
\* interleave.
THEOREM CapHolds == Spec => []RoomsWithinCap
<1>1. Init => RoomsWithinCap
  <2>1. ASSUME Init, NEW t \in Topics PROVE InRoom(t) = {}
    BY <2>1 DEF Init, TableInit, InRoom
  <2>. QED  BY <2>1, FS_EmptySet, ConstantsAssumption DEF RoomsWithinCap
<1>. QED  BY <1>1, InitInv, NextInv, CapStep, PTL DEF Spec

\* A connection loses its slot only by leaving or to a connection of its own
\* endpoint.
THEOREM NoForeignEviction == Spec => OnlyOwnerOrSuccessorFreesSlot
<1>. DEFINE Step == \A t \in Topics, p \in Peers :
              (owner[t][p] # NoConn /\ owner'[t][p] # owner[t][p]) =>
                \/ t \notin subscribed'[owner[t][p]]
                \/ owner'[t][p] # NoConn /\ peer[owner'[t][p]] = p
<1>1. ASSUME IInv, [Next]_vars PROVE Step
  <2>1. CASE UNCHANGED owner
    BY <2>1
  <2>2. ASSUME NEW c \in Conns, NEW t \in Topics, peer[c] \in Peers,
               owner' = [owner EXCEPT ![t][peer[c]] = c]
        PROVE  Step
    BY <1>1, <2>2 DEF IInv, TypeOK, TableTypeOK
  <2>3. ASSUME NEW c \in Conns, NEW t \in Topics, peer[c] \in Peers,
               OwnsSlot(t, c),
               subscribed' = [subscribed EXCEPT ![c] = @ \ {t}],
               owner' = [owner EXCEPT ![t][peer[c]] = NoConn]
        PROVE  Step
    BY <1>1, <2>3 DEF IInv, TypeOK, TableTypeOK, OwnsSlot
  <2>. QED  BY <1>1, <2>1, <2>2, <2>3, TableSteps
<1>2. IInv /\ [Next]_vars => [Step]_vars
  BY <1>1
<1>. QED  BY <1>2, InitInv, NextInv, PTL DEF Spec, OnlyOwnerOrSuccessorFreesSlot
=============================================================================
