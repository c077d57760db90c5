------------------------------- MODULE PubSub -------------------------------
(***************************************************************************)
(* What the SFU promises about publishing, seen from the endpoints: rooms  *)
(* have members, a member publishes a message to the other members (or to  *)
(* one of them) in one instant, each of them gets it at most once, and     *)
(* nobody else gets it.  A receiver that does not keep up may lose it.     *)
(* There are no connections, streams or tasks here.                        *)
(***************************************************************************)
CONSTANTS Peers, Topics, Messages

VARIABLES
  members,  \* members[t]: the endpoints in room t
  sent,     \* messages that were published
  inbox     \* inbox[p]: messages queued towards endpoint p

vars == <<members, sent, inbox>>

Init ==
  /\ members = [t \in Topics |-> {}]
  /\ sent = {}
  /\ inbox = [p \in Peers |-> {}]

Join(p, t) ==
  /\ p \notin members[t]
  /\ members' = [members EXCEPT ![t] = @ \cup {p}]
  /\ UNCHANGED <<sent, inbox>>

Leave(p, t) ==
  /\ p \in members[t]
  /\ members' = [members EXCEPT ![t] = @ \ {p}]
  /\ UNCHANGED <<sent, inbox>>

\* The message reaches some of the other members.
Publish(p, t, m) ==
  /\ p \in members[t]
  /\ m \notin sent
  /\ sent' = sent \cup {m}
  /\ UNCHANGED members
  /\ \E reached \in SUBSET (members[t] \ {p}) :
       inbox' = [q \in Peers |-> IF q \in reached THEN inbox[q] \cup {m} ELSE inbox[q]]

Next ==
  \E p \in Peers, t \in Topics :
    \/ Join(p, t)
    \/ Leave(p, t)
    \/ \E m \in Messages : Publish(p, t, m)

Spec == Init /\ [][Next]_vars
=============================================================================
