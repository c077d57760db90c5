------------------------------- MODULE Rooms -------------------------------
(***************************************************************************)
(* Rooms and sessions: what a client's session stream may ask of a room    *)
(* (SUBSCRIBE, UNSUBSCRIBE, ANNOUNCE), what the room queues on the session *)
(* streams of its members (SNAPSHOT, JOINED, LEFT, PRESENCE, ERROR), and   *)
(* how a connection that ends leaves its rooms.  Several connections of    *)
(* one endpoint may be open at once: the one that joined last holds the    *)
(* endpoint's slot.                                                        *)
(*                                                                         *)
(* A session stream is first-in first-out (one channel, one writer task,   *)
(* one QUIC stream), so the model keeps, per connection, how many frames   *)
(* are queued and what a client that reads all of them will know of each   *)
(* room.  Bytes are abstracted to frames: OutboxLimit is the budget of a   *)
(* connection in session frames.  DELIVERs share that budget, so they may  *)
(* close a member too (CloseConn).  A frame queued for a closed            *)
(* connection, or for one whose session writer has returned, is never      *)
(* written: here it is dropped at once, so writing is the set of           *)
(* connections whose client still receives session frames.                 *)
(***************************************************************************)
EXTENDS RoomTable

CONSTANTS
  Blobs,        \* presence blobs
  EmptyBlob,    \* the zero-length blob: "not announced yet"
  Absent,       \* not a blob: the endpoint is not in the room
  NoView,       \* no SNAPSHOT was received for the topic
  ZeroTopic,    \* the reserved topic
  MaxTopics,    \* Limits::max_topics_per_connection
  OutboxLimit   \* Limits::outbox_bytes, counted in frames

ASSUME SessionAssumption ==
  /\ EmptyBlob \in Blobs
  /\ Absent \notin Blobs
  /\ NoView \notin [Peers -> Blobs \cup {Absent}]
  /\ ZeroTopic \notin Topics
  /\ MaxTopics \in Nat
  /\ OutboxLimit \in Nat \ {0}

VARIABLES
  phase,       \* phase[c]: how far serve_connection got for c
  subscribed,  \* Session::subscribed
  blob,        \* blob[t][p]: Slot::blob
  backlog,     \* backlog[c]: frames in the channel to session_writer
  writing,     \* open connections whose session_writer still runs
  closed,      \* connections that are closed, by either side
  picture      \* picture[c][t]: what the client of c knows of room t once it
               \* has read everything queued for it

vars == <<tableVars, phase, subscribed, blob, backlog, writing, closed, picture>>

View == [Peers -> Blobs \cup {Absent}]

\* Every variable has its type, and no session queue outgrows the budget
\* that MemberHandle::reserve enforces.
TypeOK ==
  /\ TableTypeOK
  /\ phase \in [Conns -> {"new", "open", "ending", "done"}]
  /\ subscribed \in [Conns -> SUBSET Topics]
  /\ blob \in [Topics -> [Peers -> Blobs]]
  /\ backlog \in [Conns -> 0 .. OutboxLimit]
  /\ writing \in SUBSET Conns
  /\ closed \in SUBSET Conns
  /\ picture \in [Conns -> [Topics -> View \cup {NoView}]]

Init ==
  /\ TableInit
  /\ phase = [c \in Conns |-> "new"]
  /\ subscribed = [c \in Conns |-> {}]
  /\ blob = [t \in Topics |-> [p \in Peers |-> EmptyBlob]]
  /\ backlog = [c \in Conns |-> 0]
  /\ writing = {}
  /\ closed = {}
  /\ picture = [c \in Conns |-> [t \in Topics |-> NoView]]

-----------------------------------------------------------------------------
(***************************************************************************)
(* Session frames and what a client makes of them.                         *)
(***************************************************************************)
Joined(t, p) == [kind |-> "JOINED", topic |-> t, id |-> p, blob |-> EmptyBlob]
Left(t, p) == [kind |-> "LEFT", topic |-> t, id |-> p, blob |-> Absent]
Presence(t, p, b) == [kind |-> "PRESENCE", topic |-> t, id |-> p, blob |-> b]
Snapshot(t, m) == [kind |-> "SNAPSHOT", topic |-> t, members |-> m]
Error == [kind |-> "ERROR"]

\* Room t as a member of endpoint p should see it: everyone else's blob.
RoomSeenBy(t, p) ==
  [q \in Peers |-> IF q # p /\ owner[t][q] # NoConn THEN blob[t][q] ELSE Absent]

\* The client's view v of room t after reading frame f: a SNAPSHOT is the
\* room, every other room frame sets one member's entry.
Apply(v, t, f) ==
  IF f.kind = "ERROR" \/ f.topic # t THEN v
  ELSE IF f.kind = "SNAPSHOT" THEN f.members
  ELSE IF v = NoView THEN NoView
  ELSE [v EXCEPT ![f.id] = f.blob]

-----------------------------------------------------------------------------
(***************************************************************************)
(* MemberHandle::push_session: reserve, then send.  A connection that      *)
(* would go over its budget is closed.  Push(to, frame) queues frame[c]    *)
(* for every c of the set to, as the loops under the shard lock do.        *)
(***************************************************************************)
Overflows(c) == c \in writing /\ backlog[c] >= OutboxLimit

Push(to, frame) ==
  LET over == {c \in to : Overflows(c)}
      taking == (to \cap writing) \ over IN
  /\ backlog' = [c \in Conns |->
       CASE c \in over -> 0
         [] c \in taking -> backlog[c] + 1
         [] OTHER -> backlog[c]]
  /\ picture' = [c \in Conns |-> [t \in Topics |->
       CASE c \in over -> NoView
         [] c \in taking -> Apply(picture[c][t], t, frame[c])
         [] OTHER -> picture[c][t]]]
  /\ writing' = writing \ over
  /\ closed' = closed \cup over

Broadcast(t, p, f) == Push(OtherMembers(t, p), [c \in Conns |-> f])

\* MemberHandle::error.
Refuse(c) ==
  /\ Push({c}, [d \in Conns |-> Error])
  /\ UNCHANGED <<tableVars, phase, subscribed, blob>>
-----------------------------------------------------------------------------
(***************************************************************************)
(* Connections and the session stream's reader (Session::handle_frame).    *)
(* allowed is the answer of the rate bucket the handler asks.              *)
(***************************************************************************)
Open(p) ==
  /\ NewConn(p)
  /\ phase' = [phase EXCEPT ![nextConn] = "open"]
  /\ writing' = writing \cup {nextConn}
  /\ UNCHANGED <<subscribed, blob, backlog, closed, picture>>

Join(c, t) ==
  /\ TakeSlot(t, c)
  /\ blob' = [blob EXCEPT ![t][peer[c]] = EmptyBlob]
  /\ subscribed' = [subscribed EXCEPT ![c] = @ \cup {t}]
  /\ Push({c} \cup OtherMembers(t, peer[c]),
          [d \in Conns |-> IF d = c THEN Snapshot(t, RoomSeenBy(t, peer[c]))
                                    ELSE Joined(t, peer[c])])
  /\ UNCHANGED phase

SubscribeRefused(c, t, allowed) ==
  \/ t = ZeroTopic
  \/ Cardinality(subscribed[c]) >= MaxTopics
  \/ ~allowed
  \/ t \in Topics /\ Full(t, peer[c])

Subscribe(c, t, allowed) ==
  /\ phase[c] = "open"
  /\ t \notin subscribed[c]
  /\ \/ SubscribeRefused(c, t, allowed) /\ Refuse(c)
     \/ ~SubscribeRefused(c, t, allowed) /\ Join(c, t)

\* Rooms::leave: a connection that lost its slot changes nothing.
Leave(c, t) ==
  /\ subscribed' = [subscribed EXCEPT ![c] = @ \ {t}]
  /\ \/ /\ OwnsSlot(t, c)
        /\ VacateSlot(t, c)
        /\ blob' = [blob EXCEPT ![t][peer[c]] = EmptyBlob]
        /\ Broadcast(t, peer[c], Left(t, peer[c]))
     \/ /\ ~OwnsSlot(t, c)
        /\ UNCHANGED <<tableVars, blob, backlog, writing, closed, picture>>

Unsubscribe(c, t) ==
  /\ phase[c] = "open"
  /\ t \in subscribed[c]
  /\ Leave(c, t)
  /\ UNCHANGED phase

\* ok: the blob fits MAX_ANNOUNCE_LEN and the publish bucket allows it.  An
\* ANNOUNCE from a connection that lost its slot ends in Rooms::announce
\* returning false.
Announce(c, t, b, ok) ==
  /\ phase[c] = "open"
  /\ \/ /\ t \notin subscribed[c] \/ ~ok
        /\ Refuse(c)
     \/ /\ t \in subscribed[c] /\ ok
        /\ OwnsSlot(t, c)
        /\ blob' = [blob EXCEPT ![t][peer[c]] = b]
        /\ Broadcast(t, peer[c], Presence(t, peer[c], b))
        /\ UNCHANGED <<tableVars, phase, subscribed>>
     \/ /\ t \in subscribed[c] /\ ok
        /\ ~OwnsSlot(t, c)
        /\ UNCHANGED vars

\* Any other frame that is answered with ERROR: malformed, PUBLISH on the
\* session stream, or refused by a lane reader, which may outlive read_loop.
RefuseOther(c) ==
  /\ phase[c] \in {"open", "ending"}
  /\ Refuse(c)

-----------------------------------------------------------------------------
(***************************************************************************)
(* The writer, the end of the connection, and leave_all.                   *)
(***************************************************************************)
\* session_writer writes the oldest frame and releases its bytes.
WriteSession(c) ==
  /\ c \in writing
  /\ backlog[c] > 0
  /\ backlog' = [backlog EXCEPT ![c] = @ - 1]
  /\ UNCHANGED <<tableVars, phase, subscribed, blob, writing, closed, picture>>

\* The client receives no further session frame of connection c.
EndWriting(c) ==
  /\ writing' = writing \ {c}
  /\ backlog' = [backlog EXCEPT ![c] = 0]
  /\ picture' = [picture EXCEPT ![c] = [t \in Topics |-> NoView]]

\* A client that stops the session stream ends session_writer, which drops
\* its queue; the connection and its subscriptions stay.
StopWriter(c) ==
  /\ c \in writing
  /\ EndWriting(c)
  /\ UNCHANGED <<tableVars, phase, subscribed, blob, closed>>

\* The connection closes: by the client, the transport, a stalled write, a
\* bad length prefix on a lane, or a DELIVER over the shared budget.
CloseConn(c) ==
  /\ phase[c] \in {"open", "ending"}
  /\ c \notin closed
  /\ closed' = closed \cup {c}
  /\ EndWriting(c)
  /\ UNCHANGED <<tableVars, phase, subscribed, blob>>

\* read_loop returns: the stream ended, the connection closed or a length
\* prefix was bad.
EndSession(c) ==
  /\ phase[c] = "open"
  /\ phase' = [phase EXCEPT ![c] = "ending"]
  /\ UNCHANGED <<tableVars, subscribed, blob, backlog, writing, closed, picture>>

\* leave_all drains the subscriptions one by one, each under its own lock.
LeaveOne(c, t) ==
  /\ phase[c] = "ending"
  /\ t \in subscribed[c]
  /\ Leave(c, t)
  /\ UNCHANGED phase

\* Faulty: the session is dropped without leaving its rooms.
DropSessionUnleft(c) ==
  /\ phase[c] = "ending"
  /\ phase' = [phase EXCEPT ![c] = "done"]
  /\ closed' = closed \cup {c}
  /\ EndWriting(c)
  /\ UNCHANGED <<tableVars, subscribed, blob>>

\* The session is dropped, the writers drain and the connection is dropped.
DropSession(c) ==
  /\ phase[c] = "ending"
  /\ subscribed[c] = {}
  /\ phase' = [phase EXCEPT ![c] = "done"]
  /\ closed' = closed \cup {c}
  /\ EndWriting(c)
  /\ UNCHANGED <<tableVars, subscribed, blob>>

Next ==
  \/ \E p \in Peers : Open(p)
  \/ \E c \in Conns :
       \/ \E t \in Topics \cup {ZeroTopic} :
            \/ \E allowed \in BOOLEAN : Subscribe(c, t, allowed)
            \/ \E b \in Blobs, ok \in BOOLEAN : Announce(c, t, b, ok)
       \/ \E t \in Topics : Unsubscribe(c, t) \/ LeaveOne(c, t)
       \/ RefuseOther(c)
       \/ WriteSession(c)
       \/ StopWriter(c)
       \/ CloseConn(c)
       \/ EndSession(c)
       \/ DropSession(c)

Spec == Init /\ [][Next]_vars

-----------------------------------------------------------------------------
\* A slot is held only by a connection of that endpoint whose session still
\* lists the topic and has not been dropped: leave_all, which walks the
\* session's own list, therefore frees every slot, and no room keeps a
\* handle of a connection that serve_connection is done with.
SlotsHaveLiveOwners ==
  \A t \in Topics, p \in Peers : owner[t][p] # NoConn =>
    /\ peer[owner[t][p]] = p
    /\ phase[owner[t][p]] \in {"open", "ending"}
    /\ t \in subscribed[owner[t][p]]

\* A member that has read everything queued for it knows exactly the other
\* members and their latest blobs, whatever joins, takeovers, announcements
\* and leaves were interleaved ("each client sees a room's session events in
\* a consistent order (snapshot first)").  A connection that is closed or
\* whose session writer is gone receives no frames and is excluded.
MembersSeeTheRoom ==
  \A t \in Topics, p \in Peers :
    LET c == owner[t][p] IN
    c \in writing => picture[c][t] = RoomSeenBy(t, p)

\* The shard maps hold exactly the rooms that have members: leave removes a
\* room with its last member, and a refused join leaves no empty room.
RoomsAreNonEmpty == rooms = {t \in Topics : InRoom(t) # {}}

\* join never takes a room over max_members, even when takeovers and leaves
\* race with it.
RoomsWithinCap == \A t \in Topics : Cardinality(InRoom(t)) <= MaxMembers

\* A connection loses its slot only by leaving the room itself or to another
\* connection of its endpoint that joins: an old connection's end never
\* evicts the one that replaced it (README, "A newer connection owns the
\* slot").
OnlyOwnerOrSuccessorFreesSlot ==
  [][\A t \in Topics, p \in Peers :
       (owner[t][p] # NoConn /\ owner'[t][p] # owner[t][p]) =>
         \/ t \notin subscribed'[owner[t][p]]
         \/ owner'[t][p] # NoConn /\ peer[owner'[t][p]] = p]_vars

\* What the README says of reconnects: "A newer connection owns the slot".
\* The slot of an endpoint never goes from one connection to an older one.
NewerConnectionOwnsSlot ==
  [][\A t \in Topics, p \in Peers :
       (owner[t][p] # NoConn /\ owner'[t][p] # NoConn) =>
         owner'[t][p] >= owner[t][p]]_vars
=============================================================================
