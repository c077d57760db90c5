---------------------------- MODULE LinksProofs -----------------------------
(***************************************************************************)
(* Proofs about who is connected: the connections the server has places    *)
(* for (Lifecycle), and the mesh the probes build beside it (Probe).       *)
(*                                                                         *)
(* Lifecycle.  For any number of endpoints, topics, connections and        *)
(* places: a place is counted while its connection is being served, and a  *)
(* datagram loop outlives its session only while it is awaited (LoopInv).  *)
(*                                                                         *)
(* Probe.  For any number of probes, ticks and pings.  Shape is the type of*)
(* the state; RoomInv, MeshInv and PingInv carry one theorem each.         *)
(***************************************************************************)
EXTENDS Lifecycle, Probe, FiniteSetTheorems, TLAPS

\* Ids that were not handed out belong to nobody, a connection that is being
\* served has an endpoint, and a datagram loop is either beside an open
\* session or aborted and awaited.
LoopInv ==
  /\ \A c \in Conns : c >= nextConn => phase[c] = "new"
  /\ \A c \in Conns : phase[c] # "new" => peer[c] \in Peers
  /\ \A c \in running : phase[c] = "aborting"
  /\ \A c \in Conns : targets[c] # {} => phase[c] = "open" \/ c \in running

\* The inductive invariant.  The type of the counters rests on PlacesCounted
\* and the bound in PlacesCounted on the type.
PlacesInv == LifecycleTypeOK /\ LoopInv /\ PlacesCounted

USE DEF Conns, NoConn, TableTypeOK, Phases

-----------------------------------------------------------------------------
(***************************************************************************)
(* How the set of connections in progress changes.                         *)
(***************************************************************************)
LEMMA ServingFinite == IsFiniteSet(Serving) /\ Cardinality(Serving) \in Nat
<1>1. IsFiniteSet(Conns)
  BY FS_Interval, ConstantsAssumption
<1>2. Serving \subseteq Conns
  BY DEF Serving
<1> QED
  BY <1>1, <1>2, FS_Subset, FS_CardinalityType, Zenon

\* A step that changes no phase from or to "new" or "done".
LEMMA SameServing ==
  ASSUME LifecycleTypeOK, NEW c \in Conns, NEW ph \in Phases \ {"new", "done"},
         phase[c] \notin {"new", "done"}, phase' = [phase EXCEPT ![c] = ph]
  PROVE  Serving' = Serving
BY DEF Serving, LifecycleTypeOK

LEMMA OneMore ==
  ASSUME LifecycleTypeOK, NEW c \in Conns, phase[c] = "new", phase' = [phase EXCEPT ![c] = "opening"]
  PROVE  Cardinality(Serving)' = Cardinality(Serving) + 1
<1>1. Serving' = Serving \cup {c} /\ c \notin Serving
  BY DEF Serving, LifecycleTypeOK
<1> QED
  BY <1>1, ServingFinite, FS_AddElement

LEMMA OneLess ==
  ASSUME LifecycleTypeOK, NEW c \in Conns, phase[c] \notin {"new", "done"},
         phase' = [phase EXCEPT ![c] = "done"]
  PROVE  Cardinality(Serving)' = Cardinality(Serving) - 1 /\ Cardinality(Serving) > 0
<1>1. Serving' = Serving \ {c} /\ c \in Serving
  BY DEF Serving, LifecycleTypeOK
<1>2. Cardinality(Serving)' = Cardinality(Serving) - 1
  BY <1>1, ServingFinite, FS_RemoveElement
<1>3. Cardinality(Serving) # 0
  BY <1>1, ServingFinite, FS_EmptySet
<1> QED
  BY <1>2, <1>3, ServingFinite

-----------------------------------------------------------------------------
LEMMA PlacesInit == LifecycleInit => PlacesInv
<1> SUFFICES ASSUME LifecycleInit PROVE PlacesInv
  OBVIOUS
<1>1. LifecycleTypeOK
  <2>1. accepting \in BOOLEAN /\ refusing \in BOOLEAN
    BY Zenon DEF LifecycleInit
  <2>2. owner \in [Topics -> [Peers -> Conns \cup {NoConn}]]
    BY DEF LifecycleInit, TableInit
  <2> QED
    BY <2>1, <2>2, ConstantsAssumption, LifecycleAssumption DEF LifecycleInit, TableInit, LifecycleTypeOK
<1>4. LoopInv
  BY DEF LifecycleInit, TableInit, LoopInv
<1>2. Serving = {}
  BY DEF LifecycleInit, Serving
<1>3. PlacesCounted
  BY <1>2, FS_EmptySet, LifecycleAssumption DEF LifecycleInit, PlacesCounted
<1> QED
  BY <1>1, <1>3, <1>4 DEF PlacesInv

LEMMA PlacesNext == PlacesInv /\ [LifecycleNext]_lifecycleVars => PlacesInv'
<1> SUFFICES ASSUME PlacesInv, [LifecycleNext]_lifecycleVars PROVE PlacesInv'
  OBVIOUS
<1>a. LifecycleTypeOK /\ LoopInv /\ PlacesCounted /\ Cardinality(Serving) \in Nat
  BY ServingFinite DEF PlacesInv
<1> USE <1>a, ConstantsAssumption, LifecycleAssumption
<1>b. ASSUME UNCHANGED <<connections, handshakes, refusing>>, Serving' = Serving
      PROVE  PlacesCounted'
  BY <1>b DEF PlacesCounted
<1>1. CASE UNCHANGED lifecycleVars
  BY <1>1 DEF lifecycleVars, tableVars, PlacesInv, LifecycleTypeOK, LoopInv, PlacesCounted, Serving
<1>2. CASE Accept \/ Refuse \/ HandshakeFails
  <2>1. Serving' = Serving /\ UNCHANGED <<tableVars, phase, subscribed, running, targets, closed, accepting>>
    BY <1>2 DEF Accept, Refuse, HandshakeFails, Serving
  <2>2. Cardinality(Serving)' = Cardinality(Serving)
    BY <2>1
  <2>3. PlacesCounted'
    BY <1>2, <2>2 DEF Accept, Refuse, HandshakeFails, AtCap, PlacesCounted, LifecycleTypeOK
  <2>4. refusing' \in BOOLEAN
    <3>1. AtCap \in BOOLEAN
      BY DEF AtCap
    <3> QED
      BY <1>2, <3>1, Zenon DEF Accept, Refuse, HandshakeFails, LifecycleTypeOK
  <2>5. handshakes' \in 0 .. MaxConnections
    BY <1>2, SMTT(20), ZenonT(20), SMTT(30) DEF Accept, Refuse, HandshakeFails, AtCap, PlacesCounted, LifecycleTypeOK
  <2>6. connections' \in 0 .. MaxConnections + 1
    BY <2>2, <2>3, <2>4, <2>5 DEF PlacesCounted
  <2> QED
    BY <2>1, <2>3, <2>4, <2>5, <2>6 DEF PlacesInv, LifecycleTypeOK, LoopInv, tableVars
<1>3. ASSUME NEW p \in Peers, HandshakeDone(p) PROVE PlacesInv'
  <2>1. Cardinality(Serving)' = Cardinality(Serving) + 1
    <3>1. nextConn \in Conns /\ phase[nextConn] = "new"
      BY <1>3 DEF HandshakeDone, NewConn, LoopInv, LifecycleTypeOK
    <3> QED
      BY <1>3, <3>1, OneMore, Zenon DEF HandshakeDone
  <2>2. PlacesCounted'
    BY <1>3, <2>1 DEF HandshakeDone, PlacesCounted, LifecycleTypeOK
  <2>3. LifecycleTypeOK'
    BY <1>3 DEF HandshakeDone, NewConn, LifecycleTypeOK
  <2>4. LoopInv'
    BY <1>3 DEF HandshakeDone, NewConn, LifecycleTypeOK, LoopInv
  <2> QED
    BY <2>2, <2>3, <2>4 DEF PlacesInv
<1>4. CASE Shutdown
  <2>1. Serving' = Serving
    BY <1>4 DEF Shutdown, Serving
  <2>2. accepting' \in BOOLEAN /\ refusing' = refusing
    BY <1>4, Zenon DEF Shutdown
  <2>3. closed' \in SUBSET Conns
    BY <1>4 DEF Shutdown, LifecycleTypeOK
  <2>4. LifecycleTypeOK' /\ LoopInv'
    BY <1>4, <2>2, <2>3 DEF Shutdown, tableVars, LifecycleTypeOK, LoopInv
  <2> QED
    BY <1>4, <1>b, <2>1, <2>4 DEF Shutdown, PlacesInv
<1>5. ASSUME NEW c \in Conns, NoStream(c) \/ Drained(c) PROVE PlacesInv'
  <2>1. Cardinality(Serving)' = Cardinality(Serving) - 1 /\ Cardinality(Serving) > 0
    BY <1>5, OneLess DEF NoStream, Drained, Finish
  <2>2. PlacesCounted' /\ connections' \in 0 .. MaxConnections + 1
    BY <1>5, <2>1 DEF NoStream, Drained, Finish, PlacesCounted, LifecycleTypeOK
  <2>3. LifecycleTypeOK' /\ LoopInv'
    BY <1>5, <2>2, Zenon DEF NoStream, Drained, Finish, tableVars, LifecycleTypeOK, LoopInv
  <2> QED
    BY <2>2, <2>3 DEF PlacesInv
<1>6. ASSUME NEW c \in Conns, NEW t \in Topics, Join(c, t) \/ Leave(c, t) PROVE PlacesInv'
  <2>1. Serving' = Serving
    BY <1>6 DEF Join, Leave, Serving
  <2>2. peer[c] \in Peers
    BY <1>6 DEF Join, Leave, LoopInv
  <2>3. LifecycleTypeOK'
    <3>1. ASSUME TakeSlot(t, c) PROVE TableTypeOK'
      BY <2>2, <3>1 DEF TakeSlot, LifecycleTypeOK
    <3>2. ASSUME VacateSlot(t, c) PROVE TableTypeOK'
      BY <2>2, <3>2 DEF VacateSlot, LifecycleTypeOK
    <3>3. ASSUME UNCHANGED tableVars PROVE TableTypeOK'
      BY <3>3 DEF tableVars, LifecycleTypeOK
    <3>4. TableTypeOK'
      <4>1. TakeSlot(t, c) \/ VacateSlot(t, c) \/ UNCHANGED tableVars
        BY <1>6, Zenon DEF Join, Leave
      <4> QED
        BY <3>1, <3>2, <3>3, <4>1, Zenon
    <3>5. UNCHANGED <<accepting, connections, refusing, handshakes, phase, running, targets, closed>>
      BY <1>6 DEF Join, Leave, countVars
    <3>6. subscribed' \in [Conns -> SUBSET Topics]
      BY <1>6 DEF Join, Leave, LifecycleTypeOK
    <3> QED
      BY <3>4, <3>5, <3>6, Zenon DEF LifecycleTypeOK
  <2>4. LoopInv'
    BY <1>6 DEF Join, Leave, TakeSlot, VacateSlot, countVars, tableVars, LoopInv
  <2> QED
    BY <1>6, <1>b, <2>1, <2>3, <2>4 DEF Join, Leave, countVars, PlacesInv
<1>7. ASSUME NEW c \in Conns, NEW t \in Topics, DatagramTargets(c, t) PROVE PlacesInv'
  <2>1. OtherMembers(t, peer[c]) \in SUBSET Conns
    BY DEF OtherMembers, InRoom, LifecycleTypeOK
  <2>2. Serving' = Serving
    BY <1>7 DEF DatagramTargets, Serving
  <2> QED
    BY <1>7, <1>b, <2>1, <2>2 DEF DatagramTargets, tableVars, countVars, PlacesInv, LifecycleTypeOK, LoopInv
<1>8. ASSUME NEW c \in Conns, CloseConn(c) PROVE PlacesInv'
  <2>1. Serving' = Serving
    BY <1>8 DEF CloseConn, Serving
  <2> QED
    BY <1>8, <1>b, <2>1 DEF CloseConn, tableVars, countVars, PlacesInv, LifecycleTypeOK, LoopInv
<1>9. ASSUME NEW c \in Conns, OpenStream(c) PROVE PlacesInv'
  <2>1. Serving' = Serving
    BY <1>9, SameServing, Zenon DEF OpenStream
  <2> QED
    BY <1>9, <1>b, <2>1 DEF OpenStream, tableVars, countVars, PlacesInv, LifecycleTypeOK, LoopInv
<1>10. ASSUME NEW c \in Conns, NEW still \in BOOLEAN, EndSession(c, still) PROVE PlacesInv'
  <2>1. Serving' = Serving
    BY <1>10, SameServing, Zenon DEF EndSession
  <2>2. running' \in SUBSET Conns
    BY <1>10 DEF EndSession, LifecycleTypeOK
  <2>3. LoopInv'
    BY <1>10 DEF EndSession, tableVars, LifecycleTypeOK, LoopInv
  <2> QED
    BY <1>10, <1>b, <2>1, <2>2, <2>3 DEF EndSession, tableVars, countVars, PlacesInv, LifecycleTypeOK
<1>11. ASSUME NEW c \in Conns, StartLeaving(c) PROVE PlacesInv'
  <2>1. Serving' = Serving
    BY <1>11, SameServing, Zenon DEF StartLeaving
  <2> QED
    BY <1>11, <1>b, <2>1 DEF StartLeaving, Awaited, tableVars, countVars, PlacesInv, LifecycleTypeOK, LoopInv
<1>12. ASSUME NEW c \in Conns, NEW bad \in BOOLEAN, DropSession(c, bad) PROVE PlacesInv'
  <2>1. Serving' = Serving
    BY <1>12, SameServing, Zenon DEF DropSession
  <2> QED
    BY <1>12, <1>b, <2>1 DEF DropSession, tableVars, countVars, PlacesInv, LifecycleTypeOK, LoopInv
<1>13. ASSUME NEW c \in Conns, NEW d \in Conns, SendDatagram(c, d) PROVE PlacesInv'
  <2>1. Serving' = Serving
    BY <1>13 DEF SendDatagram, Serving
  <2> QED
    BY <1>13, <1>b, <2>1 DEF SendDatagram, tableVars, countVars, PlacesInv, LifecycleTypeOK, LoopInv
<1>14. ASSUME NEW c \in Conns, StopLoop(c) PROVE PlacesInv'
  <2>1. Serving' = Serving
    BY <1>14 DEF StopLoop, Serving
  <2> QED
    BY <1>14, <1>b, <2>1 DEF StopLoop, tableVars, countVars, PlacesInv, LifecycleTypeOK, LoopInv
<1> QED
  BY <1>1, <1>2, <1>3, <1>4, <1>5, <1>6, <1>7, <1>8, <1>9, <1>10, <1>11, <1>12, <1>13, <1>14 DEF LifecycleNext

LEMMA PlacesInductive == LifecycleSpec => []PlacesInv
  BY PlacesInit, PlacesNext, PTL DEF LifecycleSpec

-----------------------------------------------------------------------------
\* Stats::connections counts the handshakes and connections in progress
\* exactly, and max_connections is never exceeded, whatever the limit.
THEOREM PlacesAreCounted == LifecycleSpec => []PlacesCounted
<1>1. PlacesInv => PlacesCounted
  BY DEF PlacesInv
<1> QED
  BY <1>1, PlacesInductive, PTL

(***************************************************************************)
(* The targets of datagrams.                                               *)
(***************************************************************************)
\* A slot holds a connection of its endpoint, and so do the targets that were
\* read from slots, but for the sender's endpoint.
TargetsInv ==
  /\ \A t \in Topics, p \in Peers : owner[t][p] # NoConn =>
       peer[owner[t][p]] = p /\ phase[owner[t][p]] # "new"
  /\ \A c \in Conns : \A d \in targets[c] : phase[d] # "new" /\ peer[d] # peer[c]

LEMMA TargetsInvNext == PlacesInv /\ TargetsInv /\ [LifecycleNext]_lifecycleVars => TargetsInv'
<1> SUFFICES ASSUME PlacesInv, TargetsInv, [LifecycleNext]_lifecycleVars PROVE TargetsInv'
  OBVIOUS
<1>a. LifecycleTypeOK /\ LoopInv
  BY DEF PlacesInv
<1> USE <1>a
<1>b. ASSUME UNCHANGED <<peer, owner, targets>>,
             \A c \in Conns : phase[c] # "new" => phase'[c] # "new"
      PROVE  TargetsInv'
  BY <1>b DEF TargetsInv, LifecycleTypeOK
<1>1. CASE UNCHANGED lifecycleVars \/ Accept \/ Refuse \/ HandshakeFails \/ Shutdown
  BY <1>1, <1>b DEF lifecycleVars, tableVars, Accept, Refuse, HandshakeFails, Shutdown
<1>2. ASSUME NEW p \in Peers, HandshakeDone(p) PROVE TargetsInv'
  <2>1. /\ nextConn \in Conns /\ phase[nextConn] = "new"
        /\ peer' = [peer EXCEPT ![nextConn] = p]
        /\ phase' = [phase EXCEPT ![nextConn] = "opening"]
        /\ UNCHANGED <<owner, targets>>
    BY <1>2 DEF HandshakeDone, NewConn, LoopInv, LifecycleTypeOK
  <2>2. \A c \in Conns : phase[c] # "new" => phase'[c] # "new" /\ peer'[c] = peer[c]
    BY <2>1 DEF LifecycleTypeOK
  <2>3. \A c \in Conns : targets[c] # {} => phase[c] # "new"
    BY DEF LoopInv
  <2> QED
    BY <2>1, <2>2, <2>3 DEF TargetsInv, LifecycleTypeOK
<1>3. ASSUME NEW c \in Conns,
             \/ OpenStream(c) \/ NoStream(c) \/ CloseConn(c) \/ StartLeaving(c)
             \/ Drained(c) \/ StopLoop(c)
             \/ (\E still \in BOOLEAN : EndSession(c, still))
             \/ (\E bad \in BOOLEAN : DropSession(c, bad))
      PROVE  TargetsInv'
  BY <1>3, <1>b, Zenon DEF OpenStream, NoStream, CloseConn, StartLeaving, Drained, StopLoop, Finish,
                    EndSession, DropSession, tableVars, LifecycleTypeOK
<1>4. ASSUME NEW c \in Conns, NEW t \in Topics, Join(c, t) \/ Leave(c, t) PROVE TargetsInv'
  <2>1. phase[c] # "new" /\ peer[c] \in Peers /\ UNCHANGED <<peer, phase, targets>>
    BY <1>4 DEF Join, Leave, TakeSlot, VacateSlot, tableVars, LoopInv
  <2>2. \/ owner' = [owner EXCEPT ![t][peer[c]] = c]
        \/ owner' = [owner EXCEPT ![t][peer[c]] = NoConn]
        \/ owner' = owner
    BY <1>4 DEF Join, Leave, TakeSlot, VacateSlot, tableVars
  <2>3. \A s \in Topics, p \in Peers : owner'[s][p] # NoConn =>
          owner'[s][p] = owner[s][p] \/ (owner'[s][p] = c /\ p = peer[c])
    <3> SUFFICES ASSUME NEW s \in Topics, NEW p \in Peers, owner'[s][p] # NoConn
                 PROVE  owner'[s][p] = owner[s][p] \/ (owner'[s][p] = c /\ p = peer[c])
      OBVIOUS
    <3>1. owner \in [Topics -> [Peers -> Conns \cup {NoConn}]]
      BY DEF LifecycleTypeOK
    <3>2. CASE owner' = [owner EXCEPT ![t][peer[c]] = c]
      BY <2>1, <3>1, <3>2
    <3>3. CASE owner' = [owner EXCEPT ![t][peer[c]] = NoConn]
      BY <2>1, <3>1, <3>3
    <3> QED
      BY <2>2, <3>2, <3>3
  <2>4. \A s \in Topics, p \in Peers : owner'[s][p] # NoConn =>
          peer[owner'[s][p]] = p /\ phase[owner'[s][p]] # "new"
    BY <2>1, <2>3 DEF TargetsInv
  <2> QED
    BY <2>1, <2>4 DEF TargetsInv
<1>5. ASSUME NEW c \in Conns, NEW t \in Topics, DatagramTargets(c, t) PROVE TargetsInv'
  <2>1. UNCHANGED <<peer, owner, phase>>
    BY <1>5 DEF DatagramTargets, tableVars
  <2>2. \A d \in OtherMembers(t, peer[c]) : phase[d] # "new" /\ peer[d] # peer[c]
    BY DEF OtherMembers, InRoom, TargetsInv
  <2>3. targets' = [targets EXCEPT ![c] = OtherMembers(t, peer[c])]
    BY <1>5 DEF DatagramTargets
  <2> QED
    BY <2>1, <2>2, <2>3 DEF TargetsInv, LifecycleTypeOK
<1>6. ASSUME NEW c \in Conns, NEW d \in Conns, SendDatagram(c, d) PROVE TargetsInv'
  BY <1>6 DEF SendDatagram, tableVars, TargetsInv, LifecycleTypeOK
<1> QED
  BY <1>1, <1>2, <1>3, <1>4, <1>5, <1>6 DEF LifecycleNext

\* No datagram is forwarded for a connection that has begun to leave its
\* rooms (serve_connection has waited for its datagram loop), and none goes
\* back to the endpoint it came from, however stale its targets are.
THEOREM LoopAwaited == LifecycleSpec => []DatagramsBetweenMembers
<1>1. LifecycleInit => TargetsInv
  BY DEF LifecycleInit, TableInit, TargetsInv
<1>2. LifecycleSpec => []TargetsInv
  BY <1>1, TargetsInvNext, PlacesInductive, PTL DEF LifecycleSpec
<1>3. PlacesInv /\ TargetsInv => DatagramsBetweenMembers
  BY DEF PlacesInv, LifecycleTypeOK, LoopInv, TargetsInv, DatagramsBetweenMembers
<1> QED
  BY <1>2, <1>3, PlacesInductive, PTL

HIDE DEF Conns, NoConn, TableTypeOK, Phases

-----------------------------------------------------------------------------
(***************************************************************************)
(* The mesh.                                                               *)
(***************************************************************************)
State ==
  [pc : {"off", "subscribed", "on", "left", "gone"}, joined : BOOLEAN,
   entries : SUBSET Probes, learned : SUBSET Probes, slot : [Probes -> Pairs \cup {NoPair}],
   ticks : Nat, bulk : Nat, acked : SUBSET Probes]
Frame == [kind : {"snapshot", "presence", "left"}, members : SUBSET [id : Probes, blob : Nat]]
Payload ==
  [at : {"sfu", "probe"}, kind : {"ping", "pong", "bulk", "ack", "datagram"}, from : Probes,
   to : Probes \cup {0}, seq : Nat]
Link ==
  [state : {"none", "dialing", "open", "failed", "closed"}, accepted : BOOLEAN,
   loop : {"none", "tick", "wait", "ended", "mismatch"}, seq : Nat, out : Seq(Nat), back : Seq(Nat)]

Shape ==
  /\ probe \in [Probes -> State]
  /\ members \subseteq Probes
  /\ inbox \in [Probes -> Seq(Frame)]
  /\ msgs \subseteq Payload
  /\ link \in [Pairs -> Link]

\* The SFU has handled p's SUBSCRIBE, and p is a member as long as its
\* connection is open.  Once true of a probe this stays true.
In(p) == probe[p].pc # "off" /\ (Session(p) => p \in members)

\* All that p may publish on: its own SNAPSHOT, read or not, and what the SFU
\* delivered to it.
RoomInv ==
  /\ \A p \in Probes : probe[p].joined => In(p)
  /\ \A p \in Probes : \A i \in 1 .. Len(inbox[p]) : inbox[p][i].kind = "snapshot" => In(p)
  /\ \A m \in msgs : In(IF m.at = "sfu" THEN m.from ELSE m.to)
  /\ \A m \in msgs : m.at = "probe" => m.to \in Probes

\* The one connection a pair can have.
Pair(p, q) == IF p < q THEN <<p, q>> ELSE <<q, p>>

MeshInv ==
  /\ \A c \in Pairs : link[c].state # "none" => c[1] < c[2]
  /\ \A p, q \in Probes : probe[p].slot[q] \in {NoPair, Pair(p, q)}

\* The ping that is waited for is the only one on the stream; between pings
\* it is empty.
PingInv ==
  \A c \in Pairs :
    /\ link[c].loop \in {"none", "tick"} => link[c].out = <<>> /\ link[c].back = <<>>
    /\ link[c].loop = "wait" =>
         \/ link[c].out = <<>> /\ link[c].back = <<>>
         \/ link[c].out = <<link[c].seq>> /\ link[c].back = <<>>
         \/ link[c].out = <<>> /\ link[c].back = <<link[c].seq>>
    /\ link[c].loop # "mismatch"

IInv == Shape /\ RoomInv /\ MeshInv /\ PingInv

-----------------------------------------------------------------------------
(***************************************************************************)
(* Types.                                                                  *)
(***************************************************************************)
LEMMA LearnedCounts ==
  ASSUME Shape, NEW p \in Probes
  PROVE  Cardinality(probe[p].learned) \in Nat
<1>1. probe[p].learned \subseteq Probes
  BY DEF Shape, State
<1> QED
  BY <1>1, FS_Subset, FS_CardinalityType, ProbeAssumption

LEMMA SentShape ==
  ASSUME Shape, NEW frame \in Frame, NEW ps
  PROVE  Sent(frame, ps) \in [Probes -> Seq(Frame)]
BY DEF Sent, Shape

LEMMA ClosedShape ==
  ASSUME Shape, NEW cs
  PROVE  Closed(cs) \in [Pairs -> Link]
<1> SUFFICES ASSUME NEW c \in Pairs
             PROVE  (IF c \notin cs THEN link[c]
                     ELSE [link[c] EXCEPT !.state = IF @ = "none" THEN "none" ELSE IF @ = "dialing" THEN "failed" ELSE "closed",
                          !.loop = IF @ \in {"tick", "wait"} THEN "ended" ELSE @,
                          !.out = <<>>, !.back = <<>>]) \in Link
  BY Zenon DEF Closed
<1>1. link[c] \in Link
  BY DEF Shape
<1>2. <<>> \in Seq(Nat)
  OBVIOUS
<1> DEFINE state == IF link[c].state = "none" THEN "none"
                    ELSE IF link[c].state = "dialing" THEN "failed" ELSE "closed"
           loop == IF link[c].loop \in {"tick", "wait"} THEN "ended" ELSE link[c].loop
<1>3. /\ state \in {"none", "dialing", "open", "failed", "closed"}
      /\ loop \in {"none", "tick", "wait", "ended", "mismatch"}
  BY <1>1 DEF Link
<1> HIDE DEF state, loop
<1>4. [link[c] EXCEPT !.state = state, !.loop = loop, !.out = <<>>, !.back = <<>>] \in Link
  BY <1>1, <1>2, <1>3, Zenon DEF Link
<1> QED
  BY <1>1, <1>4 DEF state, loop

\* Closing makes no connection, and leaves nothing on the streams it ends.
LEMMA ClosedLinks ==
  ASSUME Shape, NEW cs, link' = Closed(cs), NEW c \in Pairs
  PROVE  \/ link'[c] = link[c]
         \/ /\ link[c].state = "none" => link'[c].state = "none"
            /\ link'[c].loop = IF link[c].loop \in {"tick", "wait"} THEN "ended" ELSE link[c].loop
            /\ link'[c].out = <<>> /\ link'[c].back = <<>>
<1>1. link[c] \in Link
  BY DEF Shape
<1>2. CASE c \notin cs
  BY <1>2, Zenon DEF Closed
<1>3. CASE c \in cs
  <2>1. link'[c] = [link[c] EXCEPT
          !.state = IF @ = "none" THEN "none" ELSE IF @ = "dialing" THEN "failed" ELSE "closed",
          !.loop = IF @ \in {"tick", "wait"} THEN "ended" ELSE @, !.out = <<>>, !.back = <<>>]
    BY <1>3, Zenon DEF Closed
  <2> QED
    BY <1>1, <2>1 DEF Link
<1> QED
  BY <1>2, <1>3

LEMMA LearnShape ==
  ASSUME Shape, NEW p \in Probes, NEW ms \in SUBSET [id : Probes, blob : Nat]
  PROVE  /\ New(p, ms) \subseteq Probes
         /\ Learned(probe, p, ms) \in [Probes -> State]
         /\ Dialled(p, ms) \in [Pairs -> Link]
<1>1. New(p, ms) \subseteq Probes
  BY DEF New, Valid
<1>2. Learned(probe, p, ms) \in [Probes -> State]
  <2>1. probe \in [Probes -> State] /\ probe[p] \in State
    BY DEF Shape
  <2> QED
    BY <1>1, <2>1, Zenon DEF Learned, State
<1>3. Dialled(p, ms) \in [Pairs -> Link]
  <2> SUFFICES ASSUME NEW c \in Pairs
               PROVE  (IF c[1] = p /\ c[2] \in New(p, ms) /\ Dials(p, c[2])
                       THEN [link[c] EXCEPT !.state = "dialing"] ELSE link[c]) \in Link
    BY DEF Dialled
  <2>1. link[c] \in Link
    BY DEF Shape
  <2> QED
    BY <2>1, Zenon DEF Link
<1> QED
  BY <1>1, <1>2, <1>3

LEMMA ShapeInit == Init => Shape
<1> SUFFICES ASSUME Init PROVE Shape
  OBVIOUS
<1>1. probe \in [Probes -> State]
  BY DEF Init, State
<1>2. inbox \in [Probes -> Seq(Frame)]
  BY DEF Init
<1>3. link \in [Pairs -> Link]
  BY DEF Init, Link
<1> QED
  BY <1>1, <1>2, <1>3, Zenon DEF Init, Shape

LEMMA ShapeNext == Shape /\ [Next]_vars => Shape'
<1> SUFFICES ASSUME Shape, [Next]_vars PROVE Shape'
  OBVIOUS
<1> USE DEF sfu
<1>0. /\ probe \in [Probes -> State] /\ members \subseteq Probes /\ inbox \in [Probes -> Seq(Frame)]
      /\ msgs \subseteq Payload /\ link \in [Pairs -> Link]
  BY DEF Shape
<1>1. CASE \E p \in Probes : SfuFrame(p)
  <2> PICK p \in Probes : SfuFrame(p)
    BY <1>1
  <2>1. UNCHANGED <<probe, msgs, link>> /\ members' \subseteq Probes
    BY <1>0 DEF SfuFrame
  <2>2. [kind |-> "snapshot", members |-> {Member(q) : q \in members}] \in Frame
    <3>1. ASSUME NEW q \in members PROVE Member(q) \in [id : Probes, blob : Nat]
      BY <1>0, ProbeAssumption DEF Member, NoBlob
    <3>2. {Member(q) : q \in members} \in SUBSET [id : Probes, blob : Nat]
      BY <3>1, Zenon
    <3> QED
      BY <3>2 DEF Frame
  <2>3. [kind |-> "presence", members |-> {[id |-> p, blob |-> p]}] \in Frame
    BY ProbeAssumption DEF Frame
  <2>4. inbox' \in [Probes -> Seq(Frame)]
    <3>1. CASE inbox' = Sent([kind |-> "snapshot", members |-> {Member(q) : q \in members}], {p})
      BY <3>1, <2>2, SentShape, Zenon
    <3>2. CASE inbox' = Sent([kind |-> "presence", members |-> {[id |-> p, blob |-> p]}], members \ {p})
      BY <3>2, <2>3, SentShape, Zenon
    <3> QED
      BY <3>1, <3>2 DEF SfuFrame
  <2> QED
    BY <1>0, <2>1, <2>4 DEF Shape
<1>2. CASE \E p \in Probes : SfuGone(p)
  <2> PICK p \in Probes : SfuGone(p)
    BY <1>2
  <2>1. UNCHANGED <<probe, link>> /\ members' \subseteq Probes /\ msgs' \subseteq msgs
    BY <1>0 DEF SfuGone
  <2>2. [kind |-> "left", members |-> {[id |-> p, blob |-> NoBlob]}] \in Frame
    BY DEF Frame, NoBlob
  <2>3. inbox' \in [Probes -> Seq(Frame)]
    BY <1>0, <2>2, SentShape, Zenon DEF SfuGone
  <2> QED
    BY <1>0, <2>1, <2>3 DEF Shape
<1>3. CASE \E m \in msgs : SfuPublish(m)
  <2> PICK m \in msgs : SfuPublish(m)
    BY <1>3
  <2>1. m \in Payload /\ UNCHANGED <<probe, members, inbox, link>>
    BY <1>0, Zenon DEF SfuPublish
  <2>2. \A q \in Probes : [m EXCEPT !.at = "probe", !.to = q] \in Payload
    BY <2>1, Zenon DEF Payload
  <2>3. \A n \in msgs' : n \in msgs \/ \E q \in Probes : n = [m EXCEPT !.at = "probe", !.to = q]
    BY <1>0, Zenon DEF SfuPublish
  <2>4. msgs' \subseteq Payload
    BY <1>0, <2>2, <2>3, Zenon
  <2> QED
    BY <1>0, <2>1, <2>4 DEF Shape
<1>4. CASE \E p \in Probes : Subscribe(p) \/ Announce(p) \/ LeaveRoom(p)
  <2> PICK p \in Probes : Subscribe(p) \/ Announce(p) \/ LeaveRoom(p)
    BY <1>4
  <2>1. probe' \in [Probes -> State]
    <3>1. \A x \in {"subscribed", "on", "left"} : [probe[p] EXCEPT !.pc = x] \in State
      <4>1. probe[p] \in State
        BY <1>0
      <4> QED
        BY <4>1 DEF State
    <3>2. \E x \in {"subscribed", "on", "left"} : probe' = [probe EXCEPT ![p] = [probe[p] EXCEPT !.pc = x]]
      BY <1>0 DEF Subscribe, Announce, LeaveRoom
    <3> QED
      BY <1>0, <3>1, <3>2, Zenon
  <2>2. inbox' \in [Probes -> Seq(Frame)]
    <3>1. <<>> \in Seq(Frame)
      OBVIOUS
    <3>2. inbox' = inbox \/ inbox' = [inbox EXCEPT ![p] = <<>>]
      BY DEF Subscribe, Announce, LeaveRoom
    <3> QED
      BY <1>0, <3>1, <3>2, Zenon
  <2>3. UNCHANGED <<members, link>> /\ msgs' \subseteq msgs
    BY DEF Subscribe, Announce, LeaveRoom
  <2> QED
    BY <1>0, <2>1, <2>2, <2>3 DEF Shape
<1>5. CASE \E p \in Probes : CloseEndpoint(p)
  <2> PICK p \in Probes : CloseEndpoint(p)
    BY <1>5
  <2>1. probe' \in [Probes -> State]
    <3>1. [probe[p] EXCEPT !.pc = "gone"] \in State
      <4>1. probe[p] \in State
        BY <1>0
      <4> QED
        BY <4>1 DEF State
    <3> QED
      BY <1>0, <3>1 DEF CloseEndpoint
  <2>2. UNCHANGED <<members, inbox, msgs>> /\ link' \in [Pairs -> Link]
    BY ClosedShape DEF CloseEndpoint
  <2> QED
    BY <1>0, <2>1, <2>2 DEF Shape
<1>6. CASE \E p \in Probes : SessionFrame(p)
  <2> PICK p \in Probes : SessionFrame(p)
    BY <1>6
  <2> DEFINE frame == Head(inbox[p])
  <2>1. inbox[p] \in Seq(Frame) /\ inbox[p] # <<>>
    BY <1>0, Zenon DEF SessionFrame
  <2>2. frame \in Frame /\ Tail(inbox[p]) \in Seq(Frame)
    BY <2>1
  <2>3. frame.members \in SUBSET [id : Probes, blob : Nat]
    BY <2>2 DEF Frame
  <2>4. inbox' \in [Probes -> Seq(Frame)] /\ UNCHANGED <<members, msgs>>
    BY <1>0, <2>2, Zenon DEF SessionFrame
  <2>5. CASE /\ frame.kind = "snapshot"
             /\ probe' = [Learned(probe, p, frame.members) EXCEPT ![p].joined = TRUE]
             /\ link' = Dialled(p, frame.members)
    <3>1. Learned(probe, p, frame.members) \in [Probes -> State] /\ link' \in [Pairs -> Link]
      BY <2>3, <2>5, LearnShape
    <3>2. Learned(probe, p, frame.members)[p] \in State
      BY <3>1, Zenon
    <3>3. [Learned(probe, p, frame.members)[p] EXCEPT !.joined = TRUE] \in State
      BY <3>2, Zenon DEF State
    <3>4. probe' \in [Probes -> State]
      BY <3>1, <3>3, <2>5, SMTT(20), ZenonT(20), SMTT(30)
    <3> QED
      BY <3>1, <3>4, <2>4, <1>0 DEF Shape
  <2>6. CASE /\ frame.kind = "presence"
             /\ probe' = Learned(probe, p, frame.members)
             /\ link' = Dialled(p, frame.members)
    BY <2>3, <2>4, <2>6, <1>0, LearnShape DEF Shape
  <2>7. CASE \E q : /\ probe' = [probe EXCEPT ![p].slot[q] = NoPair]
                    /\ link' = Closed({probe[p].slot[q]})
    <3> PICK q : /\ probe' = [probe EXCEPT ![p].slot[q] = NoPair]
                 /\ link' = Closed({probe[p].slot[q]})
      BY <2>7, Zenon
    <3>1. [probe[p] EXCEPT !.slot = [@ EXCEPT ![q] = NoPair]] \in State
      <4>1. probe[p] \in State
        BY <1>0
      <4>2. [probe[p].slot EXCEPT ![q] = NoPair] \in [Probes -> Pairs \cup {NoPair}]
        BY <4>1, Zenon DEF State
      <4> QED
        BY <4>1, <4>2 DEF State
    <3>2. probe' \in [Probes -> State]
      BY <1>0, <3>1
    <3> QED
      BY <3>2, <2>4, <1>0, ClosedShape DEF Shape
  <2> QED
    BY <2>5, <2>6, <2>7, Zenon DEF SessionFrame
<1>7. CASE \E p \in Probes : Tick(p)
  <2> PICK p \in Probes : Tick(p)
    BY <1>7
  <2>1. Cardinality(probe[p].learned) \in Nat /\ probe[p] \in State
    BY <1>0, LearnedCounts
  <2>2. probe[p].ticks + 1 \in Nat
    BY <2>1 DEF State
  <2>3. probe' \in [Probes -> State]
    BY <1>0, <2>1, <2>2, Zenon DEF Tick, State
  <2>4. \A k \in {"ping", "datagram", "bulk"} : Msg(k, p, 0, probe[p].ticks + 1) \in Payload
    BY <2>2 DEF Msg, Payload
  <2>5. msgs' \subseteq Payload
    BY <1>0, <2>4 DEF Tick
  <2> QED
    BY <1>0, <2>3, <2>5 DEF Tick, Shape
<1>8. CASE \E m \in msgs, p \in Probes : Message(p, m)
  <2> PICK m \in msgs, p \in Probes : Message(p, m)
    BY <1>8
  <2>1. m \in Payload
    BY <1>0
  <2>2. Reply(p, m) \subseteq Payload
    BY <2>1 DEF Reply, Msg, Payload
  <2>3. probe' \in [Probes -> State]
    <3> DEFINE entries == IF m.kind = "ping" THEN probe[p].entries ELSE probe[p].entries \cup {m.from}
               acked == IF m.kind = "ack" THEN probe[p].acked \cup {m.from} ELSE probe[p].acked
    <3>1. probe[p] \in State
      BY <1>0
    <3>4. entries \subseteq Probes /\ acked \subseteq Probes
      BY <3>1, <2>1 DEF State, Payload
    <3>2. probe' = [probe EXCEPT ![p] = [probe[p] EXCEPT !.entries = entries, !.acked = acked]]
      BY <1>0, Zenon DEF Message
    <3> HIDE DEF entries, acked
    <3>3. [probe[p] EXCEPT !.entries = entries, !.acked = acked] \in State
      BY <3>1, <3>4, Zenon DEF State
    <3> QED
      BY <1>0, <3>2, <3>3
  <2>4. msgs' \subseteq Payload
    BY <1>0, <2>2 DEF Message
  <2> QED
    BY <1>0, <2>3, <2>4 DEF Message, Shape
<1>9. CASE \E c \in Pairs : Mesh(c)
  <2> PICK c \in Pairs : Mesh(c)
    BY <1>9
  <2>1. c[1] \in Probes /\ c[2] \in Probes
    BY DEF Pairs
  <2>2. CASE Establish(c) \/ DialFails(c)
    <3>1. \A x \in {"open", "failed"} : [link[c] EXCEPT !.state = x] \in Link
      BY <1>0, Zenon DEF Link
    <3>2. \E x \in {"open", "failed"} : link' = [link EXCEPT ![c] = [link[c] EXCEPT !.state = x]]
      BY <2>2 DEF Establish, DialFails
    <3>3. link' \in [Pairs -> Link]
      BY <1>0, <3>1, <3>2, Zenon
    <3> QED
      BY <1>0, <2>2, <3>3 DEF Establish, DialFails, Shape
  <2>3. CASE Connected(c)
    <3>1. probe[c[1]] \in State /\ [probe[c[1]].slot EXCEPT ![c[2]] = c] \in [Probes -> Pairs \cup {NoPair}]
      BY <1>0, <2>1 DEF State
    <3>2. [probe[c[1]] EXCEPT !.slot = [@ EXCEPT ![c[2]] = c]] \in State
      BY <3>1 DEF State
    <3>3. probe' \in [Probes -> State]
      BY <1>0, <2>1, <2>3, <3>2 DEF Connected
    <3>4. \A x \in {"tick", "ended"} : [link[c] EXCEPT !.loop = x] \in Link
      BY <1>0, Zenon DEF Link
    <3>6. \E x \in {"tick", "ended"} : link' = [link EXCEPT ![c] = [link[c] EXCEPT !.loop = x]]
      <4>1. CASE link[c].state = "open"
        BY <2>3, <4>1, Zenon DEF Connected
      <4>2. CASE link[c].state # "open"
        BY <2>3, <4>2, Zenon DEF Connected
      <4> QED
        BY <4>1, <4>2
    <3>5. link' \in [Pairs -> Link]
      BY <1>0, <3>4, <3>6, Zenon
    <3> QED
      BY <1>0, <2>3, <3>3, <3>5 DEF Connected, Shape
  <2>4. CASE Accepted(c)
    <3>1. /\ probe[c[2]] \in State
          /\ [probe[c[2]].slot EXCEPT ![c[1]] = c] \in [Probes -> Pairs \cup {NoPair}]
          /\ probe[c[2]].entries \cup {c[1]} \subseteq Probes /\ probe[c[2]].learned \cup {c[1]} \subseteq Probes
      BY <1>0, <2>1 DEF State
    <3>2. [probe[c[2]] EXCEPT !.entries = @ \cup {c[1]}, !.learned = @ \cup {c[1]},
                              !.slot = [@ EXCEPT ![c[1]] = c]] \in State
      BY <3>1, Zenon DEF State
    <3>3. probe' \in [Probes -> State]
      BY <1>0, <2>1, <2>4, <3>2, Zenon DEF Accepted
    <3>4. [link[c] EXCEPT !.accepted = TRUE] \in Link
      BY <1>0, Zenon DEF Link
    <3>5. link' \in [Pairs -> Link]
      BY <1>0, <2>4, <3>4, Zenon DEF Accepted
    <3> QED
      BY <1>0, <2>4, <3>3, <3>5 DEF Accepted, Shape
  <2> QED
    BY <2>2, <2>3, <2>4 DEF Mesh
<1>10. CASE \E c \in Pairs : Pings(c)
  <2> PICK c \in Pairs : Pings(c)
    BY <1>10
  <2>1. link[c] \in Link
    BY <1>0
  <2>2. CASE Ping(c)
    <3>1. link[c].seq + 1 \in Nat /\ Append(link[c].out, link[c].seq + 1) \in Seq(Nat)
      BY <2>1 DEF Link
    <3>2. [link[c] EXCEPT !.seq = @ + 1, !.out = Append(@, link[c].seq + 1), !.loop = "wait"] \in Link
      BY <2>1, <3>1, Zenon DEF Link
    <3>3. link' \in [Pairs -> Link]
      BY <1>0, <2>2, <3>2 DEF Ping
    <3> QED
      BY <1>0, <2>2, <3>3 DEF Ping, Shape
  <2>3. CASE Echo(c)
    <3>1. Head(link[c].out) \in Nat /\ Tail(link[c].out) \in Seq(Nat)
      BY <2>1, <2>3 DEF Echo, Link
    <3>2. Append(link[c].back, Head(link[c].out)) \in Seq(Nat)
      BY <2>1, <3>1 DEF Link
    <3>3. [link[c] EXCEPT !.out = Tail(@), !.back = Append(@, Head(link[c].out))] \in Link
      BY <2>1, <3>1, <3>2, Zenon DEF Link
    <3>4. link' \in [Pairs -> Link]
      BY <1>0, <2>3, <3>3 DEF Echo
    <3> QED
      BY <1>0, <2>3, <3>4 DEF Echo, Shape
  <2>4. CASE Pong(c)
    <3>1. Tail(link[c].back) \in Seq(Nat)
      BY <2>1, <2>4 DEF Pong, Link
    <3> QED
      BY <1>0, <2>1, <2>4, <3>1, Zenon DEF Pong, Link, Shape
  <2>5. CASE PingTimeout(c)
    BY <1>0, <2>1, <2>5, Zenon DEF PingTimeout, Link, Shape
  <2> QED
    BY <2>2, <2>3, <2>4, <2>5 DEF Pings
<1>11. CASE UNCHANGED vars
  BY <1>0, <1>11, SMTT(20), ZenonT(20), SMTT(30) DEF vars, Shape
<1> QED
  BY <1>1, <1>2, <1>3, <1>4, <1>5, <1>6, <1>7, <1>8, <1>9, <1>10, <1>11 DEF Next, Room

-----------------------------------------------------------------------------
(***************************************************************************)
(* Membership.                                                             *)
(***************************************************************************)
\* What a step may do to a probe's pc and joined flag.
LEMMA ProbeSteps ==
  ASSUME Shape, [Next]_vars, NEW p \in Probes
  PROVE  /\ \/ probe'[p].pc = probe[p].pc
            \/ probe[p].pc = "off" /\ probe'[p].pc = "subscribed"
            \/ probe[p].pc = "subscribed" /\ probe'[p].pc = "on"
            \/ probe[p].pc \in {"on", "left"} /\ probe'[p].pc \in {"left", "gone"}
         /\ \/ probe'[p].joined = probe[p].joined
            \/ SessionFrame(p) /\ Head(inbox[p]).kind = "snapshot"
<1> DEFINE Goal ==
      /\ \/ probe'[p].pc = probe[p].pc
         \/ probe[p].pc = "off" /\ probe'[p].pc = "subscribed"
         \/ probe[p].pc = "subscribed" /\ probe'[p].pc = "on"
         \/ probe[p].pc \in {"on", "left"} /\ probe'[p].pc \in {"left", "gone"}
      /\ \/ probe'[p].joined = probe[p].joined
         \/ SessionFrame(p) /\ Head(inbox[p]).kind = "snapshot"
<1>0. probe \in [Probes -> State] /\ \A q \in Probes : probe[q] \in State
  BY DEF Shape
<1>1. CASE probe' = probe
  BY <1>1, SMTT(20), ZenonT(20), SMTT(30)
<1>2. CASE \E q \in Probes : Subscribe(q) \/ Announce(q) \/ LeaveRoom(q) \/ CloseEndpoint(q)
  <2> PICK q \in Probes : Subscribe(q) \/ Announce(q) \/ LeaveRoom(q) \/ CloseEndpoint(q)
    BY <1>2
  <2>1. CASE Subscribe(q)
    BY <1>0, <2>1 DEF Subscribe, State
  <2>2. CASE Announce(q)
    BY <1>0, <2>2 DEF Announce, State
  <2>3. CASE LeaveRoom(q)
    BY <1>0, <2>3 DEF LeaveRoom, State
  <2>4. CASE CloseEndpoint(q)
    BY <1>0, <2>4 DEF CloseEndpoint, State
  <2> QED
    BY <2>1, <2>2, <2>3, <2>4
<1>3. CASE \E q \in Probes : SessionFrame(q)
  <2> PICK q \in Probes : SessionFrame(q)
    BY <1>3
  <2> DEFINE frame == Head(inbox[q])
  <2>1. CASE /\ frame.kind = "snapshot"
             /\ probe' = [Learned(probe, q, frame.members) EXCEPT ![q].joined = TRUE]
    <3>1. probe'[p].pc = probe[p].pc
      BY <1>0, <2>1 DEF Learned, State
    <3>2. CASE p = q
      BY <3>1, <3>2, <2>1, Zenon
    <3>3. CASE p # q
      BY <3>1, <3>3, <1>0, <2>1 DEF Learned, State
    <3> QED
      BY <3>2, <3>3
  <2>2. CASE probe' = Learned(probe, q, frame.members)
    BY <1>0, <2>2 DEF Learned, State
  <2>3. CASE \E r : probe' = [probe EXCEPT ![q].slot[r] = NoPair]
    BY <1>0, <2>3 DEF State
  <2> QED
    BY <2>1, <2>2, <2>3, Zenon DEF SessionFrame
<1>4. CASE \E q \in Probes : Tick(q)
  BY <1>0, <1>4 DEF Tick, State
<1>5. CASE \E m \in msgs, q \in Probes : Message(q, m)
  BY <1>0, <1>5 DEF Message, State
<1>6. CASE \E c \in Pairs : Connected(c)
  BY <1>0, <1>6 DEF Connected, State, Pairs
<1>7. CASE \E c \in Pairs : Accepted(c)
  BY <1>0, <1>7 DEF Accepted, State, Pairs
<1>8. \/ probe' = probe
      \/ \E q \in Probes : Subscribe(q) \/ Announce(q) \/ LeaveRoom(q) \/ CloseEndpoint(q)
      \/ \E q \in Probes : SessionFrame(q)
      \/ \E q \in Probes : Tick(q)
      \/ \E m \in msgs, q \in Probes : Message(q, m)
      \/ \E c \in Pairs : Connected(c)
      \/ \E c \in Pairs : Accepted(c)
  BY Zenon DEF Next, vars, Room, Mesh, Pings, SfuFrame, SfuGone, SfuPublish, Establish, DialFails, Ping, Echo, Pong, PingTimeout
<1> QED
  BY <1>1, <1>2, <1>3, <1>4, <1>5, <1>6, <1>7, <1>8, ZenonT(30)

\* The SFU drops only members whose connection is closed.
LEMMA MembersStay ==
  ASSUME [Next]_vars, NEW p \in members, Session(p)
  PROVE  p \in members'
<1> USE DEF sfu
<1>1. CASE \E q \in Probes : SfuGone(q)
  BY <1>1 DEF SfuGone
<1>2. CASE \E q \in Probes : SfuFrame(q)
  BY <1>2 DEF SfuFrame
<1>3. CASE members' = members
  BY <1>3
<1>4. (\E q \in Probes : SfuGone(q) \/ SfuFrame(q)) \/ members' = members
  BY Zenon DEF Next, vars, Room, Mesh, Pings, SfuPublish, Message, Establish, DialFails, Connected, Accepted,
         Ping, Echo, Pong, PingTimeout, Subscribe, Announce, LeaveRoom, CloseEndpoint, SessionFrame, Tick
<1> QED
  BY <1>1, <1>2, <1>3, <1>4

LEMMA InKept ==
  ASSUME Shape, [Next]_vars, NEW p \in Probes, In(p)
  PROVE  In(p)'
BY ProbeSteps, MembersStay, SMTT(20), ZenonT(20), SMTT(30) DEF In, Session

\* What a step may put into an inbox: a SNAPSHOT only for a new member.
LEMMA InboxSteps ==
  ASSUME Shape, [Next]_vars, NEW p \in Probes, NEW i \in 1 .. Len(inbox'[p]),
         inbox'[p][i].kind = "snapshot"
  PROVE  \/ \E j \in 1 .. Len(inbox[p]) : inbox[p][j].kind = "snapshot"
         \/ Session(p) /\ p \in members' /\ probe' = probe
<1> USE DEF sfu
<1>0. inbox \in [Probes -> Seq(Frame)] /\ inbox[p] \in Seq(Frame)
  BY SMTT(20), ZenonT(20), SMTT(30) DEF Shape
<1>1. CASE \E q \in Probes : SfuFrame(q)
  <2> PICK q \in Probes : SfuFrame(q)
    BY <1>1, SMTT(20), ZenonT(20), SMTT(30)
  <2>1. CASE /\ members' = members \cup {q}
             /\ inbox' = Sent([kind |-> "snapshot", members |-> {Member(r) : r \in members}], {q})
    BY <1>0, <2>1 DEF Sent, SfuFrame
  <2>2. CASE inbox' = Sent([kind |-> "presence", members |-> {[id |-> q, blob |-> q]}], members \ {q})
    BY <1>0, <2>2, SMTT(20), ZenonT(20), SMTT(30) DEF Sent
  <2> QED
    BY <2>1, <2>2, SMTT(20), ZenonT(20), SMTT(30) DEF SfuFrame
<1>2. CASE \E q \in Probes : SfuGone(q)
  BY <1>0, <1>2, ZenonT(30) DEF SfuGone, Sent
<1>3. CASE \E q \in Probes : LeaveRoom(q)
  BY <1>0, <1>3 DEF LeaveRoom
<1>4. CASE \E q \in Probes : SessionFrame(q)
  <2>1. PICK q \in Probes : inbox[q] # <<>> /\ inbox' = [inbox EXCEPT ![q] = Tail(@)]
    BY <1>4, Zenon DEF SessionFrame
  <2>2. CASE p = q
    <3>1. inbox'[p] = Tail(inbox[p]) /\ Len(inbox'[p]) = Len(inbox[p]) - 1
      BY <1>0, <2>1, <2>2
    <3>2. inbox'[p][i] = inbox[p][i + 1] /\ i + 1 \in 1 .. Len(inbox[p])
      BY <1>0, <2>1, <2>2, <3>1
    <3> QED
      BY <3>2
  <2>3. CASE p # q
    BY <1>0, <2>1, <2>3
  <2> QED
    BY <2>2, <2>3
<1>5. CASE inbox' = inbox
  BY <1>5
<1>6. (\E q \in Probes : SfuGone(q) \/ SfuFrame(q) \/ LeaveRoom(q) \/ SessionFrame(q)) \/ inbox' = inbox
  BY Zenon DEF Next, vars, Room, Mesh, Pings, SfuPublish, Message, Establish, DialFails, Connected, Accepted,
         Ping, Echo, Pong, PingTimeout, Subscribe, Announce, CloseEndpoint, Tick
<1> QED
  BY <1>1, <1>2, <1>3, <1>4, <1>5, <1>6

\* A new message comes from a probe that has joined or was delivered to, or
\* is one that the SFU passes on to a member.
LEMMA MsgSteps ==
  ASSUME Shape, RoomInv, [Next]_vars, NEW m \in msgs', m \notin msgs
  PROVE  \/ m.at = "sfu" /\ m.from \in Probes /\ In(m.from)
         \/ m.at = "probe" /\ m.to \in Probes /\ In(m.to)
<1> USE DEF sfu
<1>0. msgs \subseteq Payload /\ members \subseteq Probes
  BY DEF Shape
<1>1. CASE \E n \in msgs : SfuPublish(n)
  <2> PICK n \in msgs : SfuPublish(n)
    BY <1>1
  <2>1. PICK q \in members : Session(q) /\ m = [n EXCEPT !.at = "probe", !.to = q]
    BY Zenon DEF SfuPublish
  <2>2. m.at = "probe" /\ m.to = q
    BY <1>0, <2>1 DEF Payload
  <2> QED
    BY <1>0, <2>1, <2>2 DEF In, Session
<1>2. CASE \E p \in Probes : Tick(p)
  <2> PICK p \in Probes : Tick(p)
    BY <1>2
  <2>1. In(p)
    BY DEF Tick, RoomInv
  <2>2. m.at = "sfu" /\ m.from = p
    BY DEF Tick, Msg
  <2> QED
    BY <2>1, <2>2
<1>3. CASE \E n \in msgs, p \in Probes : Message(p, n)
  <2> PICK n \in msgs, p \in Probes : Message(p, n)
    BY <1>3
  <2>1. In(p)
    BY DEF Message, RoomInv
  <2>2. m.at = "sfu" /\ m.from = p
    BY DEF Message, Reply, Msg
  <2> QED
    BY <2>1, <2>2
<1>4. CASE msgs' \subseteq msgs
  BY <1>4
<1>5. \/ \E n \in msgs : SfuPublish(n)
      \/ \E p \in Probes : Tick(p)
      \/ \E n \in msgs, p \in Probes : Message(p, n)
      \/ msgs' \subseteq msgs
  BY Zenon DEF Next, vars, Room, Mesh, Pings, SfuFrame, SfuGone, Establish, DialFails, Connected, Accepted,
         Ping, Echo, Pong, PingTimeout, Subscribe, Announce, LeaveRoom, CloseEndpoint, SessionFrame
<1> QED
  BY <1>1, <1>2, <1>3, <1>4, <1>5

LEMMA RoomNext == Shape /\ RoomInv /\ [Next]_vars => RoomInv'
<1> SUFFICES ASSUME Shape, RoomInv, [Next]_vars PROVE RoomInv'
  OBVIOUS
<1>1. ASSUME NEW p \in Probes, probe'[p].joined PROVE In(p)'
  <2>1. CASE probe[p].joined
    BY <2>1, InKept DEF RoomInv
  <2>2. CASE SessionFrame(p) /\ Head(inbox[p]).kind = "snapshot"
    <3>1. inbox[p] \in Seq(Frame) /\ inbox[p] # <<>>
      BY <2>2, Zenon DEF Shape, SessionFrame
    <3>2. 1 \in 1 .. Len(inbox[p]) /\ inbox[p][1].kind = "snapshot"
      BY <2>2, <3>1
    <3> QED
      BY <3>2, InKept DEF RoomInv
  <2> QED
    BY <1>1, <2>1, <2>2, ProbeSteps
<1>2. ASSUME NEW p \in Probes, NEW i \in 1 .. Len(inbox'[p]), inbox'[p][i].kind = "snapshot" PROVE In(p)'
  <2>1. CASE \E j \in 1 .. Len(inbox[p]) : inbox[p][j].kind = "snapshot"
    BY <2>1, InKept DEF RoomInv
  <2>2. CASE Session(p) /\ p \in members' /\ probe' = probe
    BY <2>2 DEF In, Session
  <2> QED
    BY <1>2, <2>1, <2>2, InboxSteps
<1>3. ASSUME NEW m \in msgs'
      PROVE  In(IF m.at = "sfu" THEN m.from ELSE m.to)' /\ (m.at = "probe" => m.to \in Probes)
  <2>1. CASE m \in msgs
    <3>1. m \in Payload
      BY <2>1 DEF Shape
    <3>2. (IF m.at = "sfu" THEN m.from ELSE m.to) \in Probes
      BY <2>1, <3>1 DEF Payload, RoomInv
    <3> QED
      BY <2>1, <3>2, InKept DEF RoomInv
  <2>2. CASE m \notin msgs
    BY <2>2, MsgSteps, InKept
  <2> QED
    BY <2>1, <2>2
<1> QED
  BY <1>1, <1>2, <1>3 DEF RoomInv

-----------------------------------------------------------------------------
(***************************************************************************)
(* The mesh.                                                               *)
(***************************************************************************)
LEMMA MeshNext == Shape /\ MeshInv /\ [Next]_vars => MeshInv'
<1> SUFFICES ASSUME Shape, MeshInv, [Next]_vars PROVE MeshInv'
  OBVIOUS
<1>0. /\ probe \in [Probes -> State] /\ link \in [Pairs -> Link]
      /\ \A p \in Probes : probe[p] \in State
      /\ \A c \in Pairs : link[c] \in Link
  BY DEF Shape
<1>1. ASSUME NEW c \in Pairs, link'[c].state # "none" PROVE c[1] < c[2]
  <2>1. CASE link[c].state # "none"
    BY <2>1 DEF MeshInv
  <2>2. CASE link[c].state = "none"
    <3>1. CASE \E d \in Pairs : Mesh(d) \/ Pings(d)
      <4> PICK d \in Pairs : Mesh(d) \/ Pings(d)
        BY <3>1
      <4>1. CASE Mesh(d)
        BY <1>0, <1>1, <2>2, <4>1, Zenon DEF Mesh, Establish, DialFails, Connected, Accepted, Established, Link
      <4>2. CASE Pings(d)
        <5>1. CASE Ping(d)
          BY <1>0, <1>1, <2>2, <5>1 DEF Ping, Link
        <5>2. CASE Echo(d)
          BY <1>0, <1>1, <2>2, <5>2 DEF Echo, Link
        <5>3. CASE Pong(d)
          BY <1>0, <1>1, <2>2, <5>3 DEF Pong, Link
        <5>4. CASE PingTimeout(d)
          BY <1>0, <1>1, <2>2, <5>4 DEF PingTimeout, Link
        <5> QED
          BY <4>2, <5>1, <5>2, <5>3, <5>4 DEF Pings
      <4> QED
        BY <4>1, <4>2
    <3>2. CASE \E cs : link' = Closed(cs)
      BY <1>1, <2>2, <3>2, ClosedLinks
    <3>3. CASE \E p \in Probes : \E ms : link' = Dialled(p, ms)
      BY <1>0, <1>1, <2>2, <3>3 DEF Dialled, Dials
    <3>4. CASE link' = link
      BY <1>1, <2>2, <3>4
    <3>5. \/ \E d \in Pairs : Mesh(d) \/ Pings(d)
          \/ \E p \in Probes : SessionFrame(p) \/ CloseEndpoint(p)
          \/ link' = link
      BY Zenon DEF Next, vars, Room, SfuFrame, SfuGone, SfuPublish, Message, Subscribe, Announce, LeaveRoom, Tick
    <3> QED
      BY <3>1, <3>2, <3>3, <3>4, <3>5, Zenon DEF SessionFrame, CloseEndpoint
  <2> QED
    BY <2>1, <2>2
<1>2. ASSUME NEW p \in Probes, NEW q \in Probes PROVE probe'[p].slot[q] \in {NoPair, Pair(p, q)}
  <2>0. probe[p].slot[q] \in {NoPair, Pair(p, q)}
    BY DEF MeshInv
  <2>1. CASE \E c \in Pairs : Connected(c)
    <3> PICK c \in Pairs : Connected(c)
      BY <2>1
    <3>1. c[1] < c[2] /\ c = <<c[1], c[2]>> /\ c[1] \in Probes /\ c[2] \in Probes
      BY DEF Connected, Established, MeshInv, Pairs
    <3>2. c = Pair(c[1], c[2])
      BY <3>1 DEF Pair
    <3>3. probe'[p].slot[q] = IF p = c[1] /\ q = c[2] THEN c ELSE probe[p].slot[q]
      BY <1>0, <3>1 DEF Connected, State
    <3> QED
      BY <2>0, <3>2, <3>3
  <2>2. CASE \E c \in Pairs : Accepted(c)
    <3> PICK c \in Pairs : Accepted(c)
      BY <2>2
    <3>1. c[1] < c[2] /\ c = <<c[1], c[2]>> /\ c[1] \in Probes /\ c[2] \in Probes
      BY DEF Accepted, Established, MeshInv, Pairs
    <3>2. c = Pair(c[2], c[1])
      BY <3>1, ProbeAssumption DEF Pair
    <3>3. probe'[p].slot[q] = IF p = c[2] /\ q = c[1] THEN c ELSE probe[p].slot[q]
      BY <1>0, <3>1 DEF Accepted, State
    <3> QED
      BY <2>0, <3>2, <3>3
  <2>3. CASE \E r \in Probes : SessionFrame(r)
    <3> PICK r \in Probes : SessionFrame(r)
      BY <2>3
    <3> DEFINE ms == Head(inbox[r]).members
    <3>1. CASE probe' = [Learned(probe, r, ms) EXCEPT ![r].joined = TRUE] \/ probe' = Learned(probe, r, ms)
      <4>1. probe'[p].slot = probe[p].slot
        <5>1. CASE probe' = Learned(probe, r, ms)
          BY <1>0, <5>1 DEF Learned, State
        <5>2. CASE probe' = [Learned(probe, r, ms) EXCEPT ![r].joined = TRUE]
          BY <1>0, <5>2 DEF Learned, State
        <5> QED
          BY <3>1, <5>1, <5>2
      <4> QED
        BY <4>1, <2>0
    <3>2. CASE \E x : probe' = [probe EXCEPT ![r].slot[x] = NoPair]
      <4>1. probe'[p].slot[q] \in {NoPair, probe[p].slot[q]}
        BY <1>0, <3>2 DEF State
      <4> QED
        BY <4>1, <2>0
    <3> QED
      BY <3>1, <3>2, Zenon DEF SessionFrame
  <2>4. CASE probe'[p].slot = probe[p].slot
    BY <2>0, <2>4
  <2>5. \/ \E c \in Pairs : Connected(c) \/ Accepted(c)
        \/ \E r \in Probes : SessionFrame(r)
        \/ probe'[p].slot = probe[p].slot
    <3>1. CASE \E r \in Probes : Subscribe(r) \/ Announce(r) \/ LeaveRoom(r) \/ CloseEndpoint(r)
      <4>1. PICK r \in Probes : \E x : probe' = [probe EXCEPT ![r].pc = x]
        BY <3>1 DEF Subscribe, Announce, LeaveRoom, CloseEndpoint
      <4> QED
        BY <1>0, <4>1 DEF State
    <3>2. CASE \E r \in Probes : Tick(r)
      BY <1>0, <3>2 DEF Tick, State
    <3>3. CASE \E m \in msgs, r \in Probes : Message(r, m)
      BY <1>0, <3>3 DEF Message, State
    <3>4. \/ \E r \in Probes : Subscribe(r) \/ Announce(r) \/ LeaveRoom(r) \/ CloseEndpoint(r) \/ Tick(r) \/ SessionFrame(r)
          \/ \E m \in msgs, r \in Probes : Message(r, m)
          \/ \E c \in Pairs : Connected(c) \/ Accepted(c)
          \/ probe' = probe
      BY Zenon DEF Next, vars, Room, Mesh, Pings, SfuFrame, SfuGone, SfuPublish, Establish, DialFails, Ping, Echo, Pong, PingTimeout
    <3> QED
      BY <3>1, <3>2, <3>3, <3>4
  <2> QED
    BY <2>1, <2>2, <2>3, <2>4, <2>5
<1> QED
  BY <1>1, <1>2 DEF MeshInv

LEMMA PingNext == Shape /\ PingInv /\ [Next]_vars => PingInv'
<1> SUFFICES ASSUME Shape, PingInv, [Next]_vars PROVE PingInv'
  OBVIOUS
<1> DEFINE P(l) ==
      /\ l.loop \in {"none", "tick"} => l.out = <<>> /\ l.back = <<>>
      /\ l.loop = "wait" =>
           \/ l.out = <<>> /\ l.back = <<>>
           \/ l.out = <<l.seq>> /\ l.back = <<>>
           \/ l.out = <<>> /\ l.back = <<l.seq>>
      /\ l.loop # "mismatch"
<1> SUFFICES ASSUME NEW c \in Pairs PROVE P(link'[c])
  BY SMTT(20), ZenonT(20), SMTT(30) DEF PingInv
<1>0. link \in [Pairs -> Link] /\ link[c] \in Link /\ P(link[c])
  BY DEF Shape, PingInv
<1>1. CASE link'[c] = link[c]
  BY <1>0, <1>1
<1>2. CASE \E x : link'[c] = [link[c] EXCEPT !.state = x]
  BY <1>0, <1>2, SMTT(20), ZenonT(20), SMTT(30) DEF Link
<1>3. CASE \E cs : link' = Closed(cs)
  BY <1>0, <1>3, ClosedLinks
<1>4. CASE Connected(c)
  BY <1>0, <1>4 DEF Connected, Link
<1>5. CASE Ping(c)
  BY <1>0, <1>5 DEF Ping, Link
<1>6. CASE Echo(c)
  BY <1>0, <1>6 DEF Echo, Link
<1>7. CASE Pong(c)
  <2>1. link[c].back = <<link[c].seq>> /\ link[c].out = <<>>
    BY <1>0, <1>7 DEF Pong
  <2>2. Head(link[c].back) = link[c].seq /\ Tail(link[c].back) = <<>>
    BY <1>0, <2>1 DEF Link
  <2> QED
    BY <1>0, <1>7, <2>1, <2>2 DEF Pong, Link
<1>8. CASE PingTimeout(c)
  BY <1>0, <1>8, SMTT(20) DEF PingTimeout, Link
<1>9. CASE \E d \in Pairs : Mesh(d) \/ Pings(d)
  <2> PICK d \in Pairs : Mesh(d) \/ Pings(d)
    BY <1>9
  <2>1. CASE c # d
    <3>1. link'[c] = link[c]
      BY <1>0, <2>1, Zenon DEF Mesh, Pings, Establish, DialFails, Connected, Accepted, Ping, Echo, Pong, PingTimeout
    <3> QED
      BY <1>1, <3>1
  <2>2. CASE Establish(c) \/ DialFails(c)
    BY <1>0, <1>2, <2>2, Zenon DEF Establish, DialFails
  <2>3. CASE Accepted(c)
    BY <1>0, <2>3 DEF Accepted, Link
  <2> QED
    BY <1>4, <1>5, <1>6, <1>7, <1>8, <2>1, <2>2, <2>3, ZenonT(30) DEF Mesh, Pings
<1>10. CASE \E p \in Probes : \E ms : link' = Dialled(p, ms)
  <2>1. link'[c] = link[c] \/ \E x : link'[c] = [link[c] EXCEPT !.state = x]
    BY <1>10, Zenon DEF Dialled
  <2> QED
    BY <1>1, <1>2, <2>1, Zenon
<1>11. \/ \E d \in Pairs : Mesh(d) \/ Pings(d)
       \/ \E p \in Probes : SessionFrame(p) \/ CloseEndpoint(p)
       \/ link' = link
  BY Zenon DEF Next, vars, Room, SfuFrame, SfuGone, SfuPublish, Message, Subscribe, Announce, LeaveRoom, Tick
<1> QED
  BY <1>1, <1>3, <1>9, <1>10, <1>11, Zenon DEF SessionFrame, CloseEndpoint

-----------------------------------------------------------------------------
LEMMA IInvInit == Init => IInv
<1> SUFFICES ASSUME Init PROVE IInv
  OBVIOUS
<1>1. RoomInv
  <2>1. /\ \A p \in Probes : probe[p].joined = FALSE /\ inbox[p] = <<>>
        /\ msgs = {}
    BY DEF Init
  <2> QED
    BY <2>1 DEF RoomInv
<1>2. MeshInv
  BY DEF Init, MeshInv
<1>3. PingInv
  BY DEF Init, PingInv
<1> QED
  BY <1>1, <1>2, <1>3, ShapeInit, SMTT(20), ZenonT(20), SMTT(30) DEF IInv

LEMMA Invariant == Spec => []IInv
<1>1. IInv /\ [Next]_vars => IInv'
  BY ShapeNext, RoomNext, MeshNext, PingNext DEF IInv
<1> QED
  BY <1>1, IInvInit, PTL DEF Spec

\* However many probes there are and in whatever order SUBSCRIBE, lanes,
\* datagrams, SNAPSHOTs and departures interleave, sfu_ping_loop's wait for
\* joined and the replies of sfu_message never publish before the SFU has made
\* the probe a member.
THEOREM NoEarlyPublish == Spec => []PublishesAccepted
<1>1. IInv => PublishesAccepted
  BY DEF IInv, RoomInv, In, PublishesAccepted
<1> QED
  BY <1>1, Invariant, PTL

\* The two ends of every pair that have a connection have the same one: only
\* the lower id dials (learn), whoever learned of whom first.
THEOREM OneConnection == Spec => []SlotsAgree
<1>1. IInv => SlotsAgree
  <2> SUFFICES ASSUME IInv, NEW c \in Pairs,
                      probe[c[1]].slot[c[2]] # NoPair, probe[c[2]].slot[c[1]] # NoPair
               PROVE  probe[c[1]].slot[c[2]] = probe[c[2]].slot[c[1]]
    BY DEF SlotsAgree
  <2>1. c[1] \in Probes /\ c[2] \in Probes /\ c[1] # c[2]
    BY DEF Pairs
  <2>2. Pair(c[1], c[2]) = Pair(c[2], c[1])
    <3>1. c[1] \in Nat /\ c[2] \in Nat
      BY <2>1, ProbeAssumption, Zenon
    <3>2. (c[1] < c[2] /\ ~(c[2] < c[1])) \/ (c[2] < c[1] /\ ~(c[1] < c[2]))
      BY <2>1, <3>1
    <3> QED
      BY <3>2 DEF Pair
  <2> QED
    BY <2>1, <2>2, SMTT(20), ZenonT(20), SMTT(30) DEF IInv, MeshInv
<1> QED
  BY <1>1, Invariant, PTL

\* ping_loop never reads the answer to an earlier ping: after a timeout it
\* sends no other.
THEOREM EchoesMatch == Spec => []PingsMatch
<1>1. IInv => PingsMatch
  BY DEF IInv, PingInv, PingsMatch
<1> QED
  BY <1>1, Invariant, PTL
=============================================================================
