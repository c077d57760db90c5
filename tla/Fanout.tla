------------------------------- MODULE Fanout -------------------------------
(***************************************************************************)
(* Publishing: the lane readers of a connection take PUBLISH and           *)
(* PUBLISH_TO frames off their streams and queue DELIVERs for the members  *)
(* of the room (Readers::publish, Rooms::publish, Rooms::publish_to).  A   *)
(* reader looks up its membership, then asks the rate bucket, then takes   *)
(* the shard lock again to publish; the session may leave the room, or a   *)
(* newer connection of the endpoint take its slot, in between.  When the   *)
(* session ends the readers are aborted, which stops a task only when it   *)
(* next waits: one that is running goes on with the frames it has.         *)
(***************************************************************************)
EXTENDS RoomTable, Sequences

CONSTANTS
  Streams,    \* lane streams of a connection
  Everyone,   \* not an endpoint: the recipient of a PUBLISH
  MaxFrames   \* bound: frames that pass is_member in a behaviour

ASSUME FanoutAssumption ==
  /\ Everyone \notin Peers
  /\ MaxFrames \in Nat

VARIABLES
  phase,       \* phase[c]: how far serve_connection got for c
  subscribed,  \* Session::subscribed
  running,     \* running[c]: readers that were running when they were aborted
  taken,       \* how many frames have passed is_member
  checked,     \* checked[c][s]: the frame past is_member, or NoFrame
  sent,        \* frames that Rooms::publish or publish_to accepted
  received     \* received[c]: DELIVERs queued towards connection c

fanoutVars == <<tableVars, phase, subscribed, running, taken, checked, sent, received>>

\* A published frame.  Frames are numbered as they pass is_member, so those
\* of one stream are numbered in the order they were sent on it.
Frames == [conn : Conns, stream : Streams, n : 1 .. MaxFrames]
Recipients == Peers \cup {Everyone}
NoFrame == [n |-> 0, topic |-> {}, to |-> Everyone]

FanoutInit ==
  /\ TableInit
  /\ phase = [c \in Conns |-> "new"]
  /\ subscribed = [c \in Conns |-> {}]
  /\ running = [c \in Conns |-> {}]
  /\ taken = 0
  /\ checked = [c \in Conns |-> [s \in Streams |-> NoFrame]]
  /\ sent = {}
  /\ received = [c \in Conns |-> <<>>]

-----------------------------------------------------------------------------
(***************************************************************************)
(* The session of a connection, as far as membership goes (see Rooms).     *)
(***************************************************************************)
readerVars == <<running, taken, checked, sent, received>>

Open(p) ==
  /\ NewConn(p)
  /\ phase' = [phase EXCEPT ![nextConn] = "open"]
  /\ UNCHANGED <<subscribed, readerVars>>

Join(c, t) ==
  /\ phase[c] = "open"
  /\ t \notin subscribed[c]
  /\ ~Full(t, peer[c])
  /\ TakeSlot(t, c)
  /\ subscribed' = [subscribed EXCEPT ![c] = @ \cup {t}]
  /\ UNCHANGED <<phase, readerVars>>

\* UNSUBSCRIBE, or leave_all once the session has ended.
Leave(c, t) ==
  /\ phase[c] \in {"open", "ending"}
  /\ t \in subscribed[c]
  /\ subscribed' = [subscribed EXCEPT ![c] = @ \ {t}]
  /\ \/ OwnsSlot(t, c) /\ VacateSlot(t, c)
     \/ ~OwnsSlot(t, c) /\ UNCHANGED tableVars
  /\ UNCHANGED <<phase, readerVars>>

\* read_loop returned.  The lane acceptor is gone and every reader aborted;
\* those in still are being polled at this moment.
EndSession(c, still) ==
  /\ phase[c] = "open"
  /\ {s \in Streams : checked[c][s] # NoFrame} \subseteq still
  /\ phase' = [phase EXCEPT ![c] = "ending"]
  /\ running' = [running EXCEPT ![c] = still]
  /\ UNCHANGED <<tableVars, subscribed, taken, checked, sent, received>>

DropSession(c) ==
  /\ phase[c] = "ending"
  /\ subscribed[c] = {}
  /\ phase' = [phase EXCEPT ![c] = "done"]
  /\ UNCHANGED <<tableVars, subscribed, readerVars>>

-----------------------------------------------------------------------------
(***************************************************************************)
(* A lane reader.                                                          *)
(***************************************************************************)
\* An aborted reader comes to wait for more data, and is gone.
Stop(c, s) ==
  /\ s \in running[c]
  /\ checked[c][s] = NoFrame
  /\ running' = [running EXCEPT ![c] = @ \ {s}]
  /\ UNCHANGED <<tableVars, phase, subscribed, taken, checked, sent, received>>

\* A frame is read and is_member says yes.  (If it says no, the frame is
\* refused and nothing changes here.)
Check(c, s, t, to) ==
  /\ phase[c] = "open" \/ s \in running[c]
  /\ checked[c][s] = NoFrame
  /\ taken < MaxFrames
  /\ OwnsSlot(t, c)
  /\ taken' = taken + 1
  /\ checked' = [checked EXCEPT ![c][s] = [n |-> taken + 1, topic |-> t, to |-> to]]
  /\ UNCHANGED <<tableVars, phase, subscribed, running, sent, received>>

\* take_publish says no, and the frame is refused.
RateLimit(c, s) ==
  /\ checked[c][s] # NoFrame
  /\ checked' = [checked EXCEPT ![c][s] = NoFrame]
  /\ UNCHANGED <<tableVars, phase, subscribed, running, taken, sent, received>>

\* Faulty: publish trusts the earlier is_member.
MayPublishChecked(t, c) == TRUE

MayPublish(t, c) == OwnsSlot(t, c)

\* Faulty: the sender's own slot is among the recipients.
TargetsEchoing(t, p, to) ==
  IF to = Everyone THEN EveryMember(t, p) ELSE {owner[t][to]} \ {NoConn}

\* The connections a frame of endpoint p goes to; none for a PUBLISH_TO that
\* is refused because its recipient is the sender or not a member.
Targets(t, p, to) ==
  IF to = Everyone THEN OtherMembers(t, p)
  ELSE IF to = p THEN {} ELSE {owner[t][to]} \ {NoConn}

\* Faulty: the frame is published and kept.
PublishKeeping(c, s, lost) ==
  LET f == [conn |-> c, stream |-> s, n |-> checked[c][s].n]
      t == checked[c][s].topic
      targets == Targets(t, peer[c], checked[c][s].to)
  IN
  /\ checked[c][s] # NoFrame
  /\ MayPublish(t, c)
  /\ lost \subseteq targets
  /\ sent' = sent \cup {f}
  /\ received' = [d \in Conns |->
       IF d \in targets \ lost THEN Append(received[d], f) ELSE received[d]]
  /\ UNCHANGED <<tableVars, phase, subscribed, running, taken, checked>>

\* lost: the targets whose queues do not take the DELIVER (over budget,
\* closed, or a bulk queue with no room).
Publish(c, s, lost) ==
  LET f == [conn |-> c, stream |-> s, n |-> checked[c][s].n]
      t == checked[c][s].topic
      to == checked[c][s].to
      targets == Targets(t, peer[c], to)
  IN
  /\ checked[c][s] # NoFrame
  /\ checked' = [checked EXCEPT ![c][s] = NoFrame]
  /\ \/ /\ MayPublish(t, c)
        /\ to = Everyone \/ targets # {}
        /\ lost \subseteq targets
        /\ sent' = sent \cup {f}
        /\ received' = [d \in Conns |->
             IF d \in targets \ lost THEN Append(received[d], f) ELSE received[d]]
     \/ /\ ~(MayPublish(t, c) /\ (to = Everyone \/ targets # {}))
        /\ lost = {}
        /\ UNCHANGED <<sent, received>>
  /\ UNCHANGED <<tableVars, phase, subscribed, running, taken>>

FanoutNext ==
  \/ \E p \in Peers : Open(p)
  \/ \E c \in Conns :
       \/ \E t \in Topics : Join(c, t) \/ Leave(c, t)
       \/ \E still \in SUBSET Streams : EndSession(c, still)
       \/ DropSession(c)
       \/ \E s \in Streams :
            \/ Stop(c, s)
            \/ \E t \in Topics, to \in Recipients : Check(c, s, t, to)
            \/ RateLimit(c, s)
            \/ \E lost \in SUBSET Conns : Publish(c, s, lost)

FanoutSpec == FanoutInit /\ [][FanoutNext]_fanoutVars

-----------------------------------------------------------------------------
\* The SFU implements PubSub: whatever connections an endpoint opens, and
\* wherever a leave or a takeover falls between a reader's checks, a frame
\* is published at one instant at which its endpoint is a member, and
\* reaches only other endpoints that are members then, each at most once.
QueuedFor(p) == UNION {{received[c][i] : i \in DOMAIN received[c]} : c \in {d \in Conns : peer[d] = p}}

Endpoints == INSTANCE PubSub WITH
  Messages <- Frames,
  members <- [t \in Topics |-> InRoom(t)],
  inbox <- [p \in Peers |-> QueuedFor(p)]

ImplementsPubSub == Endpoints!Spec

\* "DELIVERs on one control or interactive stream keep the order the SFU
\* forwarded them in (per publisher, the order it published them on that
\* lane)", and no DELIVER is queued twice.
StreamsStayOrdered ==
  \A c \in Conns : \A i, j \in DOMAIN received[c] :
    LET f == received[c][i]
        g == received[c][j]
    IN  i < j /\ f.conn = g.conn /\ f.stream = g.stream => f.n < g.n

\* A connection that has left a room, or lost its slot there to another
\* connection of its endpoint, gets no DELIVER published afterwards and
\* publishes none: every DELIVER goes from slot owner to slot owner of the
\* room it was published in.
OnlyOwnersExchange ==
  [][\A c, d \in Conns, s \in Streams :
       LET t == checked[c][s].topic
           f == [conn |-> c, stream |-> s, n |-> checked[c][s].n]
       IN  (f \in sent' \ sent /\ received'[d] # received[d]) =>
             OwnsSlot(t, c) /\ OwnsSlot(t, d) /\ peer[c] # peer[d]]_fanoutVars
=============================================================================
