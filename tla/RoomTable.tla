----------------------------- MODULE RoomTable -----------------------------
(***************************************************************************)
(* The room table of the SFU (struct Rooms): which connection holds the    *)
(* slot of which endpoint in which topic's room.  A room is a map from     *)
(* endpoints to slots, and a slot names the connection that joined last    *)
(* for that endpoint.  Every operation runs under the shard lock of its    *)
(* topic, so each is one step here.  The modules that extend this one add  *)
(* what the operations queue: session frames (Rooms) or DELIVERs (Fanout). *)
(***************************************************************************)
EXTENDS Naturals, FiniteSets

CONSTANTS
  Peers,       \* endpoint ids
  NoPeer,      \* the endpoint of a connection id not handed out yet
  Topics,      \* topics that may have a room (the zero topic is reserved)
  MaxConns,    \* bound: how many connections a behaviour has
  MaxMembers   \* Limits::max_members_per_topic, at least 1 (Rooms::new)

ASSUME ConstantsAssumption ==
  /\ NoPeer \notin Peers
  /\ IsFiniteSet(Peers)
  /\ MaxConns \in Nat
  /\ MaxMembers \in Nat \ {0}

\* NEXT_CONNECTION starts at 1, so 0 is never a connection.
Conns == 1 .. MaxConns
NoConn == 0

VARIABLES
  nextConn,  \* NEXT_CONNECTION
  peer,      \* peer[c]: conn.remote_id() of connection c
  rooms,     \* the topics with an entry in their shard's map
  owner      \* owner[t][p]: the connection in p's slot of room t

tableVars == <<nextConn, peer, rooms, owner>>

TableTypeOK ==
  /\ nextConn \in 1 .. MaxConns + 1
  /\ peer \in [Conns -> Peers \cup {NoPeer}]
  /\ rooms \in SUBSET Topics
  /\ owner \in [Topics -> [Peers -> Conns \cup {NoConn}]]

TableInit ==
  /\ nextConn = 1
  /\ peer = [c \in Conns |-> NoPeer]
  /\ rooms = {}
  /\ owner = [t \in Topics |-> [p \in Peers |-> NoConn]]

(***************************************************************************)
(* Reading the table.                                                      *)
(***************************************************************************)
InRoom(t) == {p \in Peers : owner[t][p] # NoConn}

\* Faulty: the slot is compared by endpoint, not by connection.
OwnsSlotByPeer(t, c) == owner[t][peer[c]] # NoConn

OwnsSlot(t, c) == owner[t][peer[c]] = c

\* Faulty: the sender's own slot is not left out.
EveryMember(t, p) == {owner[t][q] : q \in InRoom(t)}

\* Whom broadcast and publish reach: every slot but that of endpoint p.
OtherMembers(t, p) == {owner[t][q] : q \in InRoom(t) \ {p}}

\* Faulty: the cap is checked with > where the code has >=.
FullLate(t, p) == p \notin InRoom(t) /\ Cardinality(InRoom(t)) > MaxMembers

\* A connection that takes over its endpoint's slot does not grow the room.
Full(t, p) == p \notin InRoom(t) /\ Cardinality(InRoom(t)) >= MaxMembers

(***************************************************************************)
(* Changing the table.                                                     *)
(***************************************************************************)
NewConn(p) ==
  /\ nextConn \in Conns
  /\ peer' = [peer EXCEPT ![nextConn] = p]
  /\ nextConn' = nextConn + 1
  /\ UNCHANGED <<rooms, owner>>

TakeSlot(t, c) ==
  /\ rooms' = rooms \cup {t}
  /\ owner' = [owner EXCEPT ![t][peer[c]] = c]
  /\ UNCHANGED <<nextConn, peer>>

VacateSlot(t, c) ==
  /\ owner' = [owner EXCEPT ![t][peer[c]] = NoConn]
  /\ rooms' = IF InRoom(t) = {peer[c]} THEN rooms \ {t} ELSE rooms
  /\ UNCHANGED <<nextConn, peer>>
=============================================================================
