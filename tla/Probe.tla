------------------------------- MODULE Probe -------------------------------
(***************************************************************************)
(* kt-probe: probes that meet in one topic of the SFU, build a mesh of     *)
(* direct connections and measure both delivery paths.                     *)
(*                                                                         *)
(* The SFU is what the other modules of this project promise: a session    *)
(* stream per probe that is in order, and lane streams and datagrams that  *)
(* are not ordered against it or against each other.  Deliveries are not   *)
(* dropped, as the load is far from the queues' limits; a datagram may     *)
(* never arrive.                                                           *)
(* JOINED and ERROR, which a probe only prints, are left out.              *)
(***************************************************************************)
EXTENDS Naturals, Sequences, FiniteSets

CONSTANTS
  Probes,    \* endpoint ids, positive numbers: ids are ordered
  Loads      \* what a behaviour may do: [ticks |-> each probe's number of ticks,
             \* pings |-> the pings on a connection, leavers |-> the probes that may leave]

ASSUME ProbeAssumption ==
  /\ IsFiniteSet(Probes) /\ Probes \subseteq Nat \ {0}
  /\ Loads \subseteq [ticks : [Probes -> Nat], pings : Nat, leavers : SUBSET Probes]

VARIABLES
  probe,     \* probe[p]: the state of room() and its Mesh
  toSfu,     \* toSfu[p]: frames on their way up p's session stream
  members,   \* the SFU's members of the topic
  announced, \* those with a blob
  inbox,     \* inbox[p]: session frames p has not handled
  msgs,      \* lane messages and datagrams on their way to or from the SFU
  link,      \* link[c]: the mesh connection of the pair c = <<dialer, peer>>
  load       \* the load of this behaviour

sfu == <<members, announced>>
vars == <<probe, toSfu, sfu, inbox, msgs, link, load>>

Pairs == {c \in Probes \X Probes : c[1] # c[2]}
NoPair == <<0, 0>>
NoBlob == 0

\* PeerStats, as far as it steers a probe: the entries of the peers map,
\* learned_at, conn, and whether bulk_rtt is set.
Init ==
  /\ probe = [p \in Probes |->
       [pc |-> "off", joined |-> FALSE, entries |-> {}, learned |-> {},
        slot |-> [q \in Probes |-> NoPair], ticks |-> 0, bulk |-> 0, acked |-> {}]]
  /\ toSfu = [p \in Probes |-> <<>>]
  /\ members = {} /\ announced = {}
  /\ inbox = [p \in Probes |-> <<>>]
  /\ msgs = {}
  /\ link = [c \in Pairs |->
       [state |-> "none", accepted |-> FALSE, loop |-> "none", seq |-> 0, out |-> <<>>, back |-> <<>>]]
  /\ load \in Loads

\* The probe's SFU connection is open.
Session(p) == probe[p].pc \in {"subscribed", "on"}

-----------------------------------------------------------------------------
(***************************************************************************)
(* The SFU.                                                                *)
(***************************************************************************)
\* The inboxes after frame has gone to the sessions of ps.
Sent(frame, ps) ==
  [p \in Probes |-> IF p \in ps /\ Session(p) THEN Append(inbox[p], frame) ELSE inbox[p]]

Member(q) == [id |-> q, blob |-> IF q \in announced THEN q ELSE NoBlob]

SfuFrame(p) ==
  /\ toSfu[p] # <<>>
  /\ toSfu' = [toSfu EXCEPT ![p] = Tail(@)]
  /\ \/ /\ Head(toSfu[p]) = "SUBSCRIBE"
        /\ members' = members \cup {p}
        /\ inbox' = Sent([kind |-> "snapshot", members |-> {Member(q) : q \in members}], {p})
        /\ UNCHANGED announced
     \/ /\ Head(toSfu[p]) = "ANNOUNCE"
        /\ announced' = announced \cup {p}
        /\ inbox' = Sent([kind |-> "presence", members |-> {[id |-> p, blob |-> p]}], members \ {p})
        /\ UNCHANGED members
  /\ UNCHANGED <<probe, msgs, link, load>>

\* PUBLISH goes to the other members, PUBLISH_TO to one; from a connection
\* that is not a member it is refused.
SfuPublish(m) ==
  /\ m \in msgs /\ m.at = "sfu"
  /\ LET to == IF m.from \notin members THEN {}
               ELSE IF m.to = 0 THEN members \ {m.from} ELSE members \cap {m.to}
     IN  msgs' = (msgs \ {m}) \cup {[m EXCEPT !.at = "probe", !.to = q] : q \in {r \in to : Session(r)}}
  /\ UNCHANGED <<probe, toSfu, sfu, inbox, link, load>>

\* The SFU notices that the probe's connection is closed.
SfuGone(p) ==
  /\ ~Session(p)
  /\ p \in members \/ toSfu[p] # <<>> \/ \E m \in msgs : m.from = p /\ m.at = "sfu"
  /\ toSfu' = [toSfu EXCEPT ![p] = <<>>]
  /\ members' = members \ {p}
  /\ announced' = announced \ {p}
  /\ msgs' = {m \in msgs : ~(m.from = p /\ m.at = "sfu")}
  /\ inbox' = IF p \in members
              THEN Sent([kind |-> "left", members |-> {[id |-> p, blob |-> NoBlob]}], members \ {p})
              ELSE inbox
  /\ UNCHANGED <<probe, link, load>>

-----------------------------------------------------------------------------
(***************************************************************************)
(* room.                                                                   *)
(***************************************************************************)
\* Faulty: the probe counts as joined once it has asked for it.
SubscribeJoined(p) ==
  /\ probe[p].pc = "off"
  /\ probe' = [probe EXCEPT ![p].pc = "subscribed", ![p].joined = TRUE]
  /\ toSfu' = [toSfu EXCEPT ![p] = Append(@, "SUBSCRIBE")]
  /\ UNCHANGED <<sfu, inbox, msgs, link, load>>

Subscribe(p) ==
  /\ probe[p].pc = "off"
  /\ probe' = [probe EXCEPT ![p].pc = "subscribed"]
  /\ toSfu' = [toSfu EXCEPT ![p] = Append(@, "SUBSCRIBE")]
  /\ UNCHANGED <<sfu, inbox, msgs, link, load>>

\* announce, then the tasks and the loop.
Announce(p) ==
  /\ probe[p].pc = "subscribed"
  /\ probe' = [probe EXCEPT ![p].pc = "on"]
  /\ toSfu' = [toSfu EXCEPT ![p] = Append(@, "ANNOUNCE")]
  /\ UNCHANGED <<sfu, inbox, msgs, link, load>>

\* Ctrl-c, the deadline, or the end of the SFU connection: sfu.close.
LeaveRoom(p) ==
  /\ probe[p].pc = "on" /\ p \in load.leavers
  /\ probe' = [probe EXCEPT ![p].pc = "left"]
  /\ inbox' = [inbox EXCEPT ![p] = <<>>]
  /\ msgs' = {m \in msgs : ~(m.to = p /\ m.at = "probe")}
  /\ UNCHANGED <<toSfu, sfu, link, load>>

\* The connections cs are closed, and the ping loops on them end.
Closed(cs) ==
  [c \in Pairs |->
     IF c \notin cs THEN link[c]
     ELSE [link[c] EXCEPT !.state = IF @ = "none" THEN "none" ELSE IF @ = "dialing" THEN "failed" ELSE "closed",
                          !.loop = IF @ \in {"tick", "wait"} THEN "ended" ELSE @,
                          !.out = <<>>, !.back = <<>>]]

\* endpoint.close; the summary.
CloseEndpoint(p) ==
  /\ probe[p].pc = "left"
  /\ probe' = [probe EXCEPT ![p].pc = "gone"]
  /\ link' = Closed({c \in Pairs : p \in {c[1], c[2]}})
  /\ UNCHANGED <<toSfu, sfu, inbox, msgs, load>>

-----------------------------------------------------------------------------
(***************************************************************************)
(* session_frame, learn and forget.                                        *)
(***************************************************************************)
\* The peers among ms whose blob parses and names the reported id.
Valid(ms) == {m.id : m \in {n \in ms : n.blob # NoBlob /\ n.blob = n.id}}

\* Faulty: a peer with an entry counts as learned.
NewByEntry(p, ms) == Valid(ms) \ (probe[p].learned \cup probe[p].entries)

\* The peers that learn has not seen: by learned_at, not by the entry.
New(p, ms) == Valid(ms) \ probe[p].learned

\* Faulty: both sides dial.
DialsAll(p, q) == TRUE

\* The lower id dials.
Dials(p, q) == p < q

Learned(pr, p, ms) ==
  [pr EXCEPT ![p].learned = @ \cup New(p, ms), ![p].entries = @ \cup New(p, ms)]

Dialled(p, ms) ==
  [c \in Pairs |-> IF c[1] = p /\ c[2] \in New(p, ms) /\ Dials(p, c[2])
                   THEN [link[c] EXCEPT !.state = "dialing"] ELSE link[c]]

SessionFrame(p) ==
  /\ probe[p].pc = "on" /\ inbox[p] # <<>>
  /\ inbox' = [inbox EXCEPT ![p] = Tail(@)]
  /\ LET frame == Head(inbox[p]) IN
       \/ /\ frame.kind = "snapshot"
          /\ probe' = [Learned(probe, p, frame.members) EXCEPT ![p].joined = TRUE]
          /\ link' = Dialled(p, frame.members)
       \/ /\ frame.kind = "presence"
          /\ probe' = Learned(probe, p, frame.members)
          /\ link' = Dialled(p, frame.members)
       \/ /\ frame.kind = "left"
          /\ LET q == (CHOOSE m \in frame.members : TRUE).id
             IN  /\ probe' = [probe EXCEPT ![p].slot[q] = NoPair]
                 /\ link' = Closed({probe[p].slot[q]})
  /\ UNCHANGED <<toSfu, sfu, msgs, load>>

-----------------------------------------------------------------------------
(***************************************************************************)
(* sfu_ping_loop, sfu_message and sfu_datagram_reader.                     *)
(***************************************************************************)
Msg(kind, from, to, seq) == [at |-> "sfu", kind |-> kind, from |-> from, to |-> to, seq |-> seq]

\* Waits for joined; the bulk publish once a peer is known, then the ping and
\* the datagram.
Tick(p) ==
  /\ probe[p].pc = "on" /\ probe[p].joined
  /\ probe[p].ticks < load.ticks[p]
  /\ LET seq == probe[p].ticks + 1
         peers == Cardinality(probe[p].learned)
         bulk == probe[p].bulk = 0 /\ peers > 0
     IN  /\ probe' = [probe EXCEPT ![p].ticks = seq, ![p].bulk = IF bulk THEN peers ELSE @]
         /\ msgs' = msgs \cup {Msg("ping", p, 0, seq), Msg("datagram", p, 0, seq)}
                         \cup (IF bulk THEN {Msg("bulk", p, 0, seq)} ELSE {})
  /\ UNCHANGED <<toSfu, sfu, inbox, link, load>>

\* Faulty: only a learned peer's bulk publish is acknowledged.
ReplyLearned(p, m) ==
  CASE m.kind = "ping" -> {Msg("pong", p, m.from, m.seq)}
    [] m.kind = "bulk" /\ m.from \in probe[p].learned -> {Msg("ack", p, m.from, m.seq)}
    [] OTHER -> {}

\* What sfu_message publishes for m.
Reply(p, m) ==
  CASE m.kind = "ping" -> {Msg("pong", p, m.from, m.seq)}
    [] m.kind = "bulk" -> {Msg("ack", p, m.from, m.seq)}
    [] OTHER -> {}

\* All but a ping create the sender's entry.
Message(p, m) ==
  /\ probe[p].pc = "on"
  /\ m \in msgs /\ m.at = "probe" /\ m.to = p
  /\ msgs' = (msgs \ {m}) \cup Reply(p, m)
  /\ probe' = [probe EXCEPT ![p].entries = IF m.kind = "ping" THEN @ ELSE @ \cup {m.from},
                            ![p].acked = IF m.kind = "ack" THEN @ \cup {m.from} ELSE @]
  /\ UNCHANGED <<toSfu, sfu, inbox, link, load>>

-----------------------------------------------------------------------------
(***************************************************************************)
(* The mesh: learn's dial, accept_loop and run_peer.                       *)
(***************************************************************************)
Establish(c) ==
  /\ link[c].state = "dialing" /\ probe[c[2]].pc \in {"on", "left"}
  /\ link' = [link EXCEPT ![c].state = "open"]
  /\ UNCHANGED <<probe, toSfu, sfu, inbox, msgs, load>>

DialFails(c) ==
  /\ link[c].state = "dialing"
  /\ link' = [link EXCEPT ![c].state = "failed"]
  /\ UNCHANGED <<probe, toSfu, sfu, inbox, msgs, load>>

\* The connection was established, and may be closed by now.
Established(c) == link[c].state \in {"open", "closed"}

\* connect returned: run_peer as the initiator, up to ping_loop's first tick,
\* which is also its end on a closed connection.
Connected(c) ==
  /\ Established(c) /\ link[c].loop = "none"
  /\ probe' = [probe EXCEPT ![c[1]].slot[c[2]] = c]
  /\ link' = [link EXCEPT ![c].loop = IF link[c].state = "open" THEN "tick" ELSE "ended"]
  /\ UNCHANGED <<toSfu, sfu, inbox, msgs, load>>

\* incoming.await returned: the peer counts as learned, run_peer.
Accepted(c) ==
  /\ Established(c) /\ ~link[c].accepted
  /\ probe' = [probe EXCEPT ![c[2]].entries = @ \cup {c[1]}, ![c[2]].learned = @ \cup {c[1]},
                            ![c[2]].slot[c[1]] = c]
  /\ link' = [link EXCEPT ![c].accepted = TRUE]
  /\ UNCHANGED <<toSfu, sfu, inbox, msgs, load>>

\* ping_loop: one ping is on the stream at a time.
Ping(c) ==
  /\ link[c].loop = "tick" /\ link[c].seq < load.pings
  /\ link' = [link EXCEPT ![c].seq = @ + 1, ![c].out = Append(@, link[c].seq + 1), ![c].loop = "wait"]
  /\ UNCHANGED <<probe, toSfu, sfu, inbox, msgs, load>>

\* echo_loop.
Echo(c) ==
  /\ link[c].state = "open" /\ probe[c[2]].slot[c[1]] = c
  /\ link[c].out # <<>>
  /\ link' = [link EXCEPT ![c].out = Tail(@), ![c].back = Append(@, Head(link[c].out))]
  /\ UNCHANGED <<probe, toSfu, sfu, inbox, msgs, load>>

Pong(c) ==
  /\ link[c].loop = "wait" /\ link[c].back # <<>>
  /\ link' = [link EXCEPT ![c].back = Tail(@),
                          ![c].loop = IF Head(link[c].back) = link[c].seq THEN "tick" ELSE "mismatch"]
  /\ UNCHANGED <<probe, toSfu, sfu, inbox, msgs, load>>

\* Faulty: a ping that timed out is given up and the next one sent.
PingTimeoutRetry(c) ==
  /\ link[c].loop = "wait"
  /\ link' = [link EXCEPT ![c].loop = "tick"]
  /\ UNCHANGED <<probe, toSfu, sfu, inbox, msgs, load>>

\* No answer within ten seconds: the loop ends, the connection stays.
PingTimeout(c) ==
  /\ link[c].loop = "wait"
  /\ link' = [link EXCEPT ![c].loop = "ended"]
  /\ UNCHANGED <<probe, toSfu, sfu, inbox, msgs, load>>

-----------------------------------------------------------------------------
Room(p) == Subscribe(p) \/ Announce(p) \/ LeaveRoom(p) \/ CloseEndpoint(p) \/ SessionFrame(p) \/ Tick(p)
Mesh(c) == Establish(c) \/ DialFails(c) \/ Connected(c) \/ Accepted(c)
Pings(c) == Ping(c) \/ Echo(c) \/ Pong(c) \/ PingTimeout(c)

Next ==
  \/ \E p \in Probes : Room(p) \/ SfuFrame(p) \/ SfuGone(p)
  \/ \E m \in msgs : SfuPublish(m) \/ \E p \in Probes : Message(p, m)
  \/ \E c \in Pairs : Mesh(c) \/ Pings(c)

\* Each task runs while it has work: room's loop, the SFU, a dial, an accept.
\* A probe need not start, leave or tick, a datagram need not arrive.
Lanes == {m \in msgs : m.kind # "datagram"}
Fairness ==
  /\ \A p \in Probes : WF_vars(Announce(p) \/ SessionFrame(p) \/ \E m \in Lanes : Message(p, m))
  /\ WF_vars((\E p \in Probes : SfuFrame(p)) \/ \E m \in Lanes : SfuPublish(m))
  /\ \A c \in Pairs : WF_vars(Establish(c) \/ DialFails(c) \/ Connected(c)) /\ WF_vars(Accepted(c))

Spec == Init /\ [][Next]_vars /\ Fairness

-----------------------------------------------------------------------------
\* "only then may we publish (lane streams are not ordered against our
\* SUBSCRIBE)": no ping, pong, bulk publish, ack or datagram of a connected
\* probe can reach the SFU before its SUBSCRIBE has been handled.
PublishesAccepted ==
  \A m \in msgs : m.at = "sfu" /\ Session(m.from) => m.from \in members

\* The conn of a pair's two PeerStats is the same connection: the lower id
\* dials, so no second one replaces it on one side only.
SlotsAgree ==
  \A c \in Pairs : LET a == probe[c[1]].slot[c[2]]
                       b == probe[c[2]].slot[c[1]]
                   IN  a # NoPair /\ b # NoPair => a = b

\* An echo ping_loop reads answers the ping it waits for, whatever timed out
\* before: "ping sequence mismatch" is never reported.
PingsMatch == \A c \in Pairs : link[c].loop # "mismatch"

Left(p) == ~Session(p) /\ probe[p].pc # "off"

\* Two probes in the room are connected in the end, unless one leaves or the
\* dial fails, although SFU traffic, presence and the dial arrive in any order.
PairsMesh ==
  \A c \in Pairs :
    c[1] < c[2] /\ Session(c[1]) /\ Session(c[2])
      ~> \/ probe[c[1]].slot[c[2]] = c /\ probe[c[2]].slot[c[1]] = c
         \/ link[c].state = "failed" \/ Left(c[1]) \/ Left(c[2])

\* "one 256 KiB bulk-lane publish per run, which every receiver acknowledges":
\* every peer known when it was published acknowledges it, unless one leaves.
BulkAcked ==
  \A p \in Probes :
    probe[p].bulk > 0 ~> Cardinality(probe[p].acked) >= probe[p].bulk \/ \E q \in Probes : Left(q)
=============================================================================
