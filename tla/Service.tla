------------------------------ MODULE Service ------------------------------
(***************************************************************************)
(* The kt-sfu process around the SFU: the key file that gives the SFU its  *)
(* id across restarts, the order in which main brings the parts up and     *)
(* takes them down, and the info listener with the clients that fetch from *)
(* it.  Several processes may start on one key file, as when a service     *)
(* manager starts a new instance before the old one is gone; a process may *)
(* be killed at any point.                                                 *)
(*                                                                         *)
(* tokio's File::write_all hands the bytes to a blocking thread and        *)
(* returns: write_private is over, and the process goes on, before the key *)
(* is in the file, and a failure of that write is reported to nobody.      *)
(***************************************************************************)
EXTENDS InfoDoc, FiniteSets

CONSTANTS
  Procs,      \* processes, which share one key file and one set of ports
  Clients,    \* connections to the info listener
  Silent,     \* those of clients that never send a request
  Keys,       \* secret keys; the SFU id stands for its key
  NoKey,      \* not a key: what a file of other than 32 bytes holds
  NoProc,
  OldBuild,   \* processes of a build that speaks OldAlpn
  OldAlpn,
  MaxStarts,  \* bound: starts of a process
  MaxErrors   \* bound: failures of accept

ASSUME ServiceAssumption ==
  /\ NoKey \notin Keys
  /\ OldAlpn # OurAlpn
  /\ Silent \subseteq Clients
  /\ {MaxStarts, MaxErrors} \subseteq Nat

VARIABLES
  exists,    \* the key file exists
  contents,  \* the key in it
  pc,        \* pc[p]: where main is
  key,       \* key[p]: sfu_secret
  unsaved,   \* unsaved[p]: its write of a new key is still to be done
  relay,     \* relay[p]: the embedded relay runs
  asleep,    \* asleep[p]: serve waits after a failed accept
  fresh,     \* keys not generated yet
  ids,       \* ids under which an SFU has come up
  starts, errors,
  conn,      \* conn[c]: the client's TCP connection
  server,    \* server[c]: the process at its other end
  request,   \* request[c]: what the client has asked for
  response,  \* response[c]: what respond wrote
  result     \* result[c]: what fetch_info returned

file == <<exists, contents, fresh>>
procs == <<pc, key, unsaved, relay, ids, starts>>
listener == <<asleep, errors>>
client == <<conn, server, request, response, result>>
vars == <<file, procs, listener, client>>

Init ==
  /\ exists = FALSE /\ contents = NoKey /\ fresh = Keys
  /\ pc = [p \in Procs |-> "down"]
  /\ key = [p \in Procs |-> NoKey]
  /\ unsaved = [p \in Procs |-> FALSE]
  /\ relay = [p \in Procs |-> FALSE]
  /\ asleep = [p \in Procs |-> FALSE]
  /\ ids = {} /\ starts = 0 /\ errors = 0
  /\ conn = [c \in Clients |-> "none"]
  /\ server = [c \in Clients |-> NoProc]
  /\ request = [c \in Clients |-> "none"]
  /\ response = [c \in Clients |-> <<>>]
  /\ result = [c \in Clients |-> Refused]

-----------------------------------------------------------------------------
(***************************************************************************)
(* load_or_create_key and write_private.                                   *)
(***************************************************************************)
\* tokio::fs::read: a key is used, a file of another length refused; without
\* a file a key is generated.
Start(p) ==
  /\ pc[p] = "down" /\ ~unsaved[p]
  /\ starts < MaxStarts
  /\ starts' = starts + 1
  /\ \/ /\ exists /\ contents # NoKey
        /\ key' = [key EXCEPT ![p] = contents]
        /\ pc' = [pc EXCEPT ![p] = "starting"]
        /\ UNCHANGED fresh
     \/ /\ exists /\ contents = NoKey
        /\ UNCHANGED <<pc, key, fresh>>
     \/ /\ ~exists /\ fresh # {}
        /\ LET k == CHOOSE k \in fresh : TRUE
           IN  key' = [key EXCEPT ![p] = k] /\ fresh' = fresh \ {k}
        /\ pc' = [pc EXCEPT ![p] = "creating"]
  /\ UNCHANGED <<exists, contents, unsaved, relay, ids, listener, client>>

\* Faulty: the file is opened with create(true).
CreateKeyAnyway(p) ==
  /\ pc[p] = "creating"
  /\ exists' = TRUE
  /\ unsaved' = [unsaved EXCEPT ![p] = TRUE]
  /\ pc' = [pc EXCEPT ![p] = "starting"]
  /\ UNCHANGED <<contents, fresh, key, relay, ids, starts, listener, client>>

\* create_new fails if the file has appeared since the read.
CreateKey(p) ==
  /\ pc[p] = "creating"
  /\ exists' = TRUE
  /\ unsaved' = [unsaved EXCEPT ![p] = ~exists]
  /\ pc' = [pc EXCEPT ![p] = IF exists THEN "down" ELSE "starting"]
  /\ UNCHANGED <<contents, fresh, key, relay, ids, starts, listener, client>>

\* The blocking thread writes the key, or fails to.
WriteKey(p) ==
  /\ unsaved[p]
  /\ unsaved' = [unsaved EXCEPT ![p] = FALSE]
  /\ contents' \in {contents, key[p]}
  /\ UNCHANGED <<exists, fresh, pc, key, relay, ids, starts, listener, client>>

-----------------------------------------------------------------------------
(***************************************************************************)
(* main.                                                                   *)
(***************************************************************************)
\* States in which the SFU's endpoint is bound.
Up(p) == pc[p] \in {"spawned", "serving", "closing"}
\* States in which the info listener is open.
Listening(p) == pc[p] \in {"serving", "closing"}

\* The connections cs are over, with what is still on them.
End(cs) ==
  /\ conn' = [c \in Clients |-> IF c \in cs THEN "over" ELSE conn[c]]
  /\ server' = [c \in Clients |-> IF c \in cs THEN NoProc ELSE server[c]]
  /\ request' = [c \in Clients |-> IF c \in cs THEN "none" ELSE request[c]]
  /\ response' = [c \in Clients |-> IF c \in cs THEN <<>> ELSE response[c]]

\* The process is gone, and with it its connections that have no answer yet.
Exit(p) ==
  /\ pc' = [pc EXCEPT ![p] = "down"]
  /\ relay' = [relay EXCEPT ![p] = FALSE]
  /\ asleep' = [asleep EXCEPT ![p] = FALSE]
  /\ End({c \in Clients : server[c] = p /\ conn[c] \in {"queued", "accepted"}})
  /\ UNCHANGED <<file, key, ids, starts, errors, result>>

\* Sfu::spawn starts the relay, whose ports one process can hold,
SpawnRelay(p) ==
  /\ pc[p] = "starting"
  /\ \A q \in Procs : ~relay[q]
  /\ pc' = [pc EXCEPT ![p] = "relaying"]
  /\ relay' = [relay EXCEPT ![p] = TRUE]
  /\ UNCHANGED <<file, key, unsaved, ids, starts, listener, client>>

\* and then binds the endpoint under the id and spawns accept_loop.
BindEndpoint(p) ==
  /\ pc[p] = "relaying"
  /\ \A q \in Procs : ~Up(q)
  /\ pc' = [pc EXCEPT ![p] = "spawned"]
  /\ ids' = ids \cup {key[p]}
  /\ UNCHANGED <<file, key, unsaved, relay, starts, listener, client>>

\* The info listener is bound and its task spawned; main waits.
BindInfo(p) ==
  /\ pc[p] = "spawned"
  /\ \A q \in Procs : ~Listening(q)
  /\ pc' = [pc EXCEPT ![p] = "serving"]
  /\ UNCHANGED <<file, key, unsaved, relay, ids, starts, listener, client>>

\* The certificate or one of these steps fails and main returns the error.  The
\* write of the key goes on: the runtime waits for it.
StartFails(p) ==
  /\ pc[p] \in {"starting", "relaying", "spawned"}
  /\ UNCHANGED unsaved
  /\ Exit(p)

CtrlC(p) ==
  /\ pc[p] = "serving"
  /\ pc' = [pc EXCEPT ![p] = "closing"]
  /\ UNCHANGED <<file, key, unsaved, relay, ids, starts, listener, client>>

\* Sfu::shutdown has returned.
Shutdown(p) ==
  /\ pc[p] = "closing"
  /\ UNCHANGED unsaved
  /\ Exit(p)

RelayStops(p) ==
  /\ relay[p]
  /\ relay' = [relay EXCEPT ![p] = FALSE]
  /\ UNCHANGED <<file, pc, key, unsaved, ids, starts, listener, client>>

\* Faulty: main waits for ctrl-c alone.
RelayStoppedIgnored(p) == FALSE

\* The branch of main's select that waits for relay_stopped.
RelayStopped(p) == pc[p] = "serving" /\ ~relay[p]

Bail(p) ==
  /\ RelayStopped(p)
  /\ UNCHANGED unsaved
  /\ Exit(p)

Kill(p) ==
  /\ pc[p] # "down" \/ unsaved[p]
  /\ unsaved' = [unsaved EXCEPT ![p] = FALSE]
  /\ Exit(p)

-----------------------------------------------------------------------------
(***************************************************************************)
(* serve and respond.                                                      *)
(***************************************************************************)
Accept(p) ==
  /\ Listening(p) /\ ~asleep[p]
  /\ \E c \in Clients :
       /\ conn[c] = "queued" /\ server[c] = p
       /\ conn' = [conn EXCEPT ![c] = "accepted"]
  /\ UNCHANGED <<file, procs, listener, server, request, response, result>>

AcceptFails(p) ==
  /\ Listening(p) /\ ~asleep[p]
  /\ errors < MaxErrors
  /\ errors' = errors + 1
  /\ asleep' = [asleep EXCEPT ![p] = TRUE]
  /\ UNCHANGED <<file, procs, client>>

\* Faulty: a failed accept ends the listener's task.
WakeNever(p) == FALSE /\ UNCHANGED vars

Wake(p) ==
  /\ asleep[p]
  /\ asleep' = [asleep EXCEPT ![p] = FALSE]
  /\ UNCHANGED <<file, procs, errors, client>>

\* SFU_ALPN of a process's build.
Alpn(p) == IF p \in OldBuild THEN OldAlpn ELSE OurAlpn

\* The request head is there: the answer is written and the stream shut down.
\* (A HEAD request, which fetch_info never makes, is left out.)
Respond(c) ==
  /\ conn[c] = "accepted" /\ request[c] # "none"
  /\ conn' = [conn EXCEPT ![c] = "answered"]
  /\ response' = [response EXCEPT ![c] =
       IF request[c] = "info" THEN Found(key[server[c]], Alpn(server[c])) ELSE NotFound]
  /\ UNCHANGED <<file, procs, listener, server, request, result>>

\* REQUEST_TIMEOUT passes without a head.
HeadTimeout(c) ==
  /\ conn[c] = "accepted" /\ request[c] = "none"
  /\ End({c})
  /\ UNCHANGED <<file, procs, listener, result>>

-----------------------------------------------------------------------------
(***************************************************************************)
(* fetch_info, and clients that connect and say nothing.                   *)
(***************************************************************************)
Connect(c, p) ==
  /\ conn[c] = "none"
  /\ Listening(p)
  /\ conn' = [conn EXCEPT ![c] = "queued"]
  /\ server' = [server EXCEPT ![c] = p]
  /\ UNCHANGED <<file, procs, listener, request, response, result>>

SendRequest(c, path) ==
  /\ c \notin Silent
  /\ conn[c] \in {"queued", "accepted"} /\ request[c] = "none"
  /\ request' = [request EXCEPT ![c] = path]
  /\ UNCHANGED <<file, procs, listener, conn, server, response, result>>

\* exchange reads to the end of the response, or of its first n tokens if the
\* process or a proxy goes away.
Receive(c, n) ==
  /\ conn[c] = "answered"
  /\ result' = [result EXCEPT ![c] = FetchInfo(SubSeq(response[c], 1, n))]
  /\ End({c})
  /\ UNCHANGED <<file, procs, listener>>

\* The client's own timeouts.
GiveUp(c) ==
  /\ conn[c] \in {"queued", "accepted", "answered"}
  /\ End({c})
  /\ UNCHANGED <<file, procs, listener, result>>

-----------------------------------------------------------------------------
Main(p) ==
  \/ Start(p) \/ CreateKey(p) \/ WriteKey(p) \/ SpawnRelay(p) \/ BindEndpoint(p) \/ BindInfo(p)
  \/ StartFails(p) \/ CtrlC(p) \/ Shutdown(p) \/ RelayStops(p) \/ Bail(p) \/ Kill(p)

Info(p) == Accept(p) \/ AcceptFails(p) \/ Wake(p)

Fetch(c) ==
  \/ Respond(c) \/ HeadTimeout(c) \/ GiveUp(c)
  \/ \E p \in Procs : Connect(c, p)
  \/ \E path \in {"info", "other"} : SendRequest(c, path)
  \/ \E n \in 0 .. Len(response[c]) : Receive(c, n)

Next == (\E p \in Procs : Main(p) \/ Info(p)) \/ (\E c \in Clients : Fetch(c))

\* Tokio runs main and the listener's tasks; a bind returns, with the socket or
\* an error; sleeps and shutdowns end.  Nothing is assumed of clients, and not
\* even that a silent one is timed out.
Fairness ==
  /\ \A p \in Procs : WF_vars(BindEndpoint(p) \/ BindInfo(p) \/ StartFails(p))
  /\ \A p \in Procs : WF_vars(Bail(p)) /\ WF_vars(Shutdown(p)) /\ WF_vars(Accept(p)) /\ WF_vars(Wake(p))
  /\ \A c \in Clients : WF_vars(Respond(c))

Spec == Init /\ [][Next]_vars /\ Fairness

-----------------------------------------------------------------------------
\* "The SFU id must stay stable because clients pin it" (kt-sfu.rs): whatever
\* processes start, overlap, fail, lose their write of the key or are killed,
\* no two come up under different ids.  A file that a crash left short is
\* refused, never replaced.
IdStable == \A i, j \in ids : i = j

\* What fetch_info accepts names an SFU that came up, its whole relay URL and
\* this build's protocol, wherever the response was cut and whichever build
\* answered.  Only the QAD port may be missing or cut.
FetchedNamesSfu ==
  \A c \in Clients : result[c].ok =>
    /\ \E id \in ids : result[c].sfu = Value(id)
    /\ result[c].relay = Value(Relay)
    /\ result[c].alpn = Value(OurAlpn)

\* "so the listener never dies while the process looks healthy" (info.rs) and
\* "idle clients don't block it" (README.md): a client that has sent its
\* request is answered, after failed accepts and beside clients that send
\* nothing, unless it or the process goes away.
RequestsAnswered ==
  \A c \in Clients :
    conn[c] \in {"queued", "accepted"} /\ request[c] # "none" ~> conn[c] \in {"answered", "over"}

\* A relay that stops takes its process down whenever it does: while the
\* endpoint or the info listener is still being bound, when nobody waits for
\* relay_stopped yet, while main waits, or during a shutdown.  No process keeps
\* the ports, which would make its successors fail to start, or serves the info
\* document of an SFU that relay-only clients cannot reach.
RelayLossFreesPorts ==
  \A p \in Procs : (pc[p] = "relaying" \/ Up(p)) /\ ~relay[p] ~> pc[p] = "down"
=============================================================================
