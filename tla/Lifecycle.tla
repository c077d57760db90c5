----------------------------- MODULE Lifecycle -----------------------------
(***************************************************************************)
(* The life of a connection: accept_loop counts it against                 *)
(* max_connections, its handshake and its session stream have deadlines,   *)
(* and once its session ends serve_connection aborts its readers, waits    *)
(* for the datagram loop, leaves the rooms, drains the writers and only    *)
(* then frees its place.  The datagram loop runs beside the session: it    *)
(* looks up the targets of a datagram under the shard lock and sends to    *)
(* them after releasing it.                                                *)
(***************************************************************************)
EXTENDS RoomTable

CONSTANT MaxConnections   \* Limits::max_connections

ASSUME LifecycleAssumption == MaxConnections \in Nat

VARIABLES
  accepting,    \* accept_loop runs; Sfu::shutdown ends it
  connections,  \* Stats::connections
  refusing,     \* accept_loop has counted a connection it is to refuse
  handshakes,   \* accepted connections whose handshake is not over
  phase,        \* phase[c]: how far serve_connection got for c
  subscribed,   \* Session::subscribed
  running,      \* connections whose datagram loop was running when aborted
  targets,      \* targets[c]: whom c's datagram loop still has to send to
  closed        \* connections that are closed, by either side

lifecycleVars == <<tableVars, accepting, connections, refusing, handshakes, phase, subscribed,
          running, targets, closed>>

countVars == <<accepting, connections, refusing, handshakes>>

Phases == {"new", "opening", "open", "aborting", "leaving", "draining", "done"}

LifecycleTypeOK ==
  /\ TableTypeOK
  /\ accepting \in BOOLEAN
  /\ connections \in 0 .. MaxConnections + 1
  /\ refusing \in BOOLEAN
  /\ handshakes \in 0 .. MaxConnections
  /\ phase \in [Conns -> Phases]
  /\ subscribed \in [Conns -> SUBSET Topics]
  /\ running \in SUBSET Conns
  /\ targets \in [Conns -> SUBSET Conns]
  /\ closed \in SUBSET Conns

LifecycleInit ==
  /\ TableInit
  /\ accepting = TRUE
  /\ connections = 0
  /\ refusing = FALSE
  /\ handshakes = 0
  /\ phase = [c \in Conns |-> "new"]
  /\ subscribed = [c \in Conns |-> {}]
  /\ running = {}
  /\ targets = [c \in Conns |-> {}]
  /\ closed = {}

-----------------------------------------------------------------------------
(***************************************************************************)
(* accept_loop and ConnectionSlot.                                         *)
(***************************************************************************)
AtCap == connections >= MaxConnections

\* ConnectionSlot::acquire: fetch_add, and a look at what it returned.
Accept ==
  /\ accepting
  /\ ~refusing
  /\ connections' = connections + 1
  /\ refusing' = AtCap
  /\ handshakes' = IF AtCap THEN handshakes ELSE handshakes + 1
  /\ UNCHANGED <<tableVars, accepting, phase, subscribed, running, targets, closed>>

\* The fetch_sub of an acquire that failed.
Refuse ==
  /\ refusing
  /\ refusing' = FALSE
  /\ connections' = connections - 1
  /\ UNCHANGED <<tableVars, accepting, handshakes, phase, subscribed, running, targets, closed>>

\* Faulty: the place of a failed handshake is not given back.
HandshakeFailsKeeping ==
  /\ handshakes > 0
  /\ handshakes' = handshakes - 1
  /\ UNCHANGED <<tableVars, accepting, connections, refusing, phase, subscribed, running,
                 targets, closed>>

\* The handshake fails or times out.
HandshakeFails ==
  /\ handshakes > 0
  /\ handshakes' = handshakes - 1
  /\ connections' = connections - 1
  /\ UNCHANGED <<tableVars, accepting, refusing, phase, subscribed, running, targets, closed>>

\* A handshake may still succeed while shutdown closes the endpoint, for a
\* connection that is closed then.
HandshakeDone(p) ==
  /\ handshakes > 0
  /\ handshakes' = handshakes - 1
  /\ NewConn(p)
  /\ phase' = [phase EXCEPT ![nextConn] = "opening"]
  /\ closed' = IF accepting THEN closed ELSE closed \cup {nextConn}
  /\ UNCHANGED <<accepting, connections, refusing, subscribed, running, targets>>

\* Sfu::shutdown: the accept loop is aborted (it is never between acquire's
\* two steps then, they do not wait) and every connection is closed.
Shutdown ==
  /\ accepting
  /\ ~refusing
  /\ accepting' = FALSE
  /\ closed' = closed \cup (1 .. nextConn - 1)
  /\ UNCHANGED <<tableVars, connections, refusing, handshakes, phase, subscribed, running, targets>>

-----------------------------------------------------------------------------
(***************************************************************************)
(* serve_connection.                                                       *)
(***************************************************************************)
\* The end of serve_connection: the connection and its ConnectionSlot are
\* dropped.
Finish(c) ==
  /\ phase' = [phase EXCEPT ![c] = "done"]
  /\ closed' = closed \cup {c}
  /\ connections' = connections - 1
  /\ UNCHANGED <<tableVars, accepting, refusing, handshakes, subscribed, running, targets>>

\* The client's session stream arrives.
OpenStream(c) ==
  /\ phase[c] = "opening"
  /\ phase' = [phase EXCEPT ![c] = "open"]
  /\ UNCHANGED <<tableVars, countVars, subscribed, running, targets, closed>>

\* No stream within stream_open_timeout, or the connection is closed.
NoStream(c) == phase[c] = "opening" /\ Finish(c)

Join(c, t) ==
  /\ phase[c] = "open"
  /\ t \notin subscribed[c]
  /\ ~Full(t, peer[c])
  /\ TakeSlot(t, c)
  /\ subscribed' = [subscribed EXCEPT ![c] = @ \cup {t}]
  /\ UNCHANGED <<countVars, phase, running, targets, closed>>

\* Faulty: a topic whose slot went to another connection stays subscribed.
LeaveOwned(c, t) ==
  /\ phase[c] \in {"open", "leaving"}
  /\ t \in subscribed[c]
  /\ OwnsSlot(t, c)
  /\ VacateSlot(t, c)
  /\ subscribed' = [subscribed EXCEPT ![c] = @ \ {t}]
  /\ UNCHANGED <<countVars, phase, running, targets, closed>>

\* UNSUBSCRIBE, or a step of leave_all.
Leave(c, t) ==
  /\ phase[c] \in {"open", "leaving"}
  /\ t \in subscribed[c]
  /\ subscribed' = [subscribed EXCEPT ![c] = @ \ {t}]
  /\ \/ OwnsSlot(t, c) /\ VacateSlot(t, c)
     \/ ~OwnsSlot(t, c) /\ UNCHANGED tableVars
  /\ UNCHANGED <<countVars, phase, running, targets, closed>>

\* The connection closes: by the client or the transport, or by the server
\* on an overflow, a stall or a bad length prefix.
CloseConn(c) ==
  /\ phase[c] \in {"opening", "open", "aborting", "leaving", "draining"}
  /\ c \notin closed
  /\ closed' = closed \cup {c}
  /\ UNCHANGED <<tableVars, countVars, phase, subscribed, running, targets>>

\* read_loop returned and the tasks are aborted; still says whether the
\* datagram loop is being polled at this moment, and so goes on for now.
EndSession(c, still) ==
  /\ phase[c] = "open"
  /\ targets[c] # {} => still
  /\ phase' = [phase EXCEPT ![c] = "aborting"]
  /\ running' = IF still THEN running \cup {c} ELSE running
  /\ UNCHANGED <<tableVars, countVars, subscribed, targets, closed>>

\* Faulty: the datagram loop is aborted but not awaited.
AwaitedUnchecked(c) == TRUE

Awaited(c) == c \notin running

StartLeaving(c) ==
  /\ phase[c] = "aborting"
  /\ Awaited(c)
  /\ phase' = [phase EXCEPT ![c] = "leaving"]
  /\ UNCHANGED <<tableVars, countVars, subscribed, running, targets, closed>>

\* The session is dropped, and the connection closed if a length prefix on
\* the session stream was bad.
DropSession(c, bad) ==
  /\ phase[c] = "leaving"
  /\ subscribed[c] = {}
  /\ phase' = [phase EXCEPT ![c] = "draining"]
  /\ closed' = IF bad THEN closed \cup {c} ELSE closed
  /\ UNCHANGED <<tableVars, countVars, subscribed, running, targets>>

\* The writers have finished, or stall_timeout is over and they are aborted.
Drained(c) == phase[c] = "draining" /\ Finish(c)

-----------------------------------------------------------------------------
(***************************************************************************)
(* datagram_loop.                                                          *)
(***************************************************************************)
\* A datagram that passes the rate bucket; the others are dropped.
DatagramTargets(c, t) ==
  /\ phase[c] = "open" \/ c \in running
  /\ targets[c] = {}
  /\ OwnsSlot(t, c)
  /\ targets' = [targets EXCEPT ![c] = OtherMembers(t, peer[c])]
  /\ UNCHANGED <<tableVars, countVars, phase, subscribed, running, closed>>

\* send_datagram to one of them; on a closed connection it fails.
SendDatagram(c, d) ==
  /\ d \in targets[c]
  /\ targets' = [targets EXCEPT ![c] = @ \ {d}]
  /\ UNCHANGED <<tableVars, countVars, phase, subscribed, running, closed>>

\* An aborted loop comes to wait for a datagram, and is gone.
StopLoop(c) ==
  /\ c \in running
  /\ targets[c] = {}
  /\ running' = running \ {c}
  /\ UNCHANGED <<tableVars, countVars, phase, subscribed, targets, closed>>

-----------------------------------------------------------------------------
LifecycleNext ==
  \/ Accept
  \/ Refuse
  \/ HandshakeFails
  \/ \E p \in Peers : HandshakeDone(p)
  \/ Shutdown
  \/ \E c \in Conns :
       \/ OpenStream(c)
       \/ NoStream(c)
       \/ \E t \in Topics : Join(c, t) \/ Leave(c, t) \/ DatagramTargets(c, t)
       \/ CloseConn(c)
       \/ \E still \in BOOLEAN : EndSession(c, still)
       \/ StartLeaving(c)
       \/ \E bad \in BOOLEAN : DropSession(c, bad)
       \/ Drained(c)
       \/ \E d \in Conns : SendDatagram(c, d)
       \/ StopLoop(c)

\* Tasks that can go on are run, and the handshake, the stream's opening and
\* the drain have deadlines.  read_loop is only sure to return on a closed
\* connection.  Such a connection receives no further datagram, so an aborted
\* loop runs out of those it has.
LifecycleFairness ==
  /\ WF_lifecycleVars(Refuse)
  /\ WF_lifecycleVars(HandshakeFails \/ \E p \in Peers : HandshakeDone(p))
  /\ \A c \in Conns :
       /\ WF_lifecycleVars(OpenStream(c) \/ NoStream(c))
       /\ WF_lifecycleVars(c \in closed /\ \E still \in BOOLEAN : EndSession(c, still))
       /\ WF_lifecycleVars(\E d \in Conns : SendDatagram(c, d))
       /\ SF_lifecycleVars(c \in closed /\ StopLoop(c))
       /\ WF_lifecycleVars(StartLeaving(c))
       /\ WF_lifecycleVars(phase[c] = "leaving" /\ \E t \in Topics : Leave(c, t))
       /\ WF_lifecycleVars(\E bad \in BOOLEAN : DropSession(c, bad))
       /\ WF_lifecycleVars(Drained(c))

LifecycleSpec == LifecycleInit /\ [][LifecycleNext]_lifecycleVars /\ LifecycleFairness

-----------------------------------------------------------------------------
Serving == {c \in Conns : phase[c] \notin {"new", "done"}}

\* Stats::connections is the number of handshakes and connections in
\* progress, but for one that is being refused, and never more of them than
\* max_connections: every way a connection can end gives its place back once.
PlacesCounted ==
  /\ connections = handshakes + Cardinality(Serving) + (IF refusing THEN 1 ELSE 0)
  /\ handshakes + Cardinality(Serving) <= MaxConnections

\* serve_connection leaves the rooms only when nothing forwards datagrams in
\* the connection's name any more, so no datagram of a connection follows
\* the LEFT that its end caused; and the targets datagram_loop looked up under
\* the lock and holds after it, however rooms and slots have changed since,
\* are connections of other endpoints.
DatagramsBetweenMembers ==
  \A c \in Conns :
    /\ phase[c] \in {"leaving", "draining", "done"} => c \notin running /\ targets[c] = {}
    /\ \A d \in targets[c] : phase[d] # "new" /\ peer[d] # peer[c]

\* A closed connection, however it was closed and whatever its tasks were
\* doing, ends up in no room and gives its place back.
ClosedConnectionsFinish ==
  \A c \in Conns :
    c \in closed ~> phase[c] = "done" /\ \A t \in Topics, p \in Peers : owner[t][p] # c

\* After Sfu::shutdown every place and every room is given back.
ShutdownEmpties == ~accepting ~> connections = 0 /\ rooms = {}
=============================================================================
