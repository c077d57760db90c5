# TLA+ specifications of KeepTalkingSFU

This directory specifies the forwarding unit (SFU) of this repository in TLA+:
what its tasks, locks, queues and counters do, which properties they keep under
every interleaving, and machine-checked proofs of the main ones. The source is
the reference: each definition translates the lines `PROJECT.json` names for it
under `map`. Line numbers below are those of `src/src/server.rs` unless another
file is named.

## The system

A client opens one QUIC connection to the SFU. On its *session stream* it
subscribes to topics and announces presence; it publishes on *lane streams*
(control, interactive, bulk) and sends datagrams. The SFU keeps one *room* per
topic: a map from endpoints to slots, each holding the connection that joined
last for that endpoint. It forwards publishes to the other members and tells
them who joins, announces and leaves.

| Part | Source | State | Operations | What makes it hard |
|---|---|---|---|---|
| Room table | `Rooms`, 1367-1586 | sharded maps of slots, presence blobs | join, leave, announce, publish, datagram targets, each under one shard lock | several connections of one endpoint, takeover, the old connection's teardown |
| Session | 748-825 | subscriptions, join rate | SUBSCRIBE, UNSUBSCRIBE, ANNOUNCE, leave_all | order of snapshot and events per client, refusals, slow consumers |
| Lane readers | 678-745, 829-908 | one task per stream | decode, check membership, rate limit, publish | membership is stale between check and publish; readers outlive their abort |
| Outbound queues | 981-991, 1087-1277 | byte budget, overflow flag, three channels | reserve, send, release, close as slow consumer | lock-free accounting by many tasks at once |
| Bulk queue | 995-1083, 1281-1337 | waiting deliveries, bytes on streams, closed flag | push with drop-oldest, dispatch, done, close | lost wake-ups, unsigned differences, shutdown |
| Rate buckets | 1589-1635 | levels and last refill | try_take | debt after a frame larger than the burst |
| Connections | 386-673 | `Stats::connections`, phases of serve_connection | accept, handshake, open, end, drain, shutdown | each ending gives its place back once; deadlines |
| Datagrams | 913-934 | targets of the datagram in hand | look up, forward | use of targets after the lock |
| Wire format | `proto.rs` 186-199, 338-821 | none | encode and decode of every frame, `read_frame` | lengths at their limits, bodies too short or too long, streams cut off anywhere |
| Snapshot chunks | 1181-1211, `proto.rs` 650-711, `client.rs` 256-310 | chunks in flight, partial snapshots, the client's channel | encode, write, merge, hand out | cut points, counts in 16 bits, loss between chunks, a client that does not receive |
| Stream readers | 641-657, 755-765, 827-908, `client.rs` 313-370 | one task per stream | read the lane byte, read frames, take, report, stop, close | one stream's error closes the connection under the others |
| Client sending | `client.rs` 92-249 | a mutex per stream, the lanes' slots | subscribe, announce, publish on each lane | concurrent calls, stream credit, failed writes, calls dropped in mid-write |
| Service | `bin/kt-sfu.rs` | key file, phases of `main` | create or read the key, spawn, serve, end | two processes on one file, a crash between creating and writing it, a relay lost before `main` looks |
| Info listener | `info.rs` | one task per connection | accept with backoff, respond, fetch | silent clients, failed accepts, responses cut off, another build's answer |
| Probe | `bin/kt-probe.rs` | peers, connections of the mesh | join, learn, dial, accept, ping, echo, bulk | session frames, lanes, datagrams and dials have no common order |
| TLS, relay | `tls.rs`, 386-400 | | | libraries; see "Not modelled" |

## Modules

| Module | Models | Checked by | Proofs |
|---|---|---|---|
| `RoomTable` | slots and room entries, shared by three modules | (through the others) | |
| `Rooms` | sessions, session frames, takeover, teardown | `MCRooms` | `RoomsProofs` |
| `Fanout` | publishing by lane readers | `MCFanout` | `PublishingProofs` |
| `PubSub` | what publishing promises, without connections | (as a property of `Fanout`) | |
| `Outbound` | the tasks and sizes that the two modules of queues share | (through them) | |
| `Outbox` | the session, control and interactive queues and their budget | `MCOutbox` | `OutboundProofs` |
| `BulkQueue` | the bulk queue, its dispatcher and streams | `MCBulkQueue` | `OutboundProofs` |
| `Bucket` | the rate buckets | `MCBucket` | `PublishingProofs` |
| `Proto` | frames, their wire form, `read_frame` | `MCConnection` | `SessionProofs` |
| `SessionStream` | chunking, the session stream and the client's merge | `MCConnection` | `SessionProofs` |
| `FrameReaders` | the other streams' readers at both ends | `MCConnection` | `ReadersProofs` |
| `Connection` | composes the two: all streams of one connection | `MCConnection` | `SessionProofs`, `ReadersProofs` |
| `Lifecycle` | places, deadlines, teardown, datagrams, shutdown | `MCLifecycle` | `LinksProofs` |
| `ClientLanes` | the client's calls and the streams they write | `MCClientLanes` | `ClientLanesProofs` |
| `InfoDoc` | the info document and what `fetch_info` makes of it | `MCService` | `ServiceProofs` |
| `Service` | the processes, their key file, the info listener, its clients | `MCService` | `ServiceProofs` |
| `Probe` | probes, the SFU as they see it, the mesh between them | `MCProbe` | `LinksProofs` |

`Outbox`, `BulkQueue`, `Bucket`, `Fanout` and `Lifecycle` name their initial
predicate, next-state relation and specification after themselves (`OutboxSpec`,
`BulkSpec`, `BucketSpec`, `FanoutSpec`, `LifecycleSpec`), because a proof module
extends each of them together with another specification. `Proto` and `InfoDoc` do without `SequencesExt`: the prover's copy of
that module brings in the library's theorems, and the time for an obligation
grows with the square of what is in scope.

A definition preceded by "Faulty:" is a plausible bug in the definition after
it. No specification uses it; substituting it must break the property that
`PROJECT.json` pairs it with under `mutants`.

### How state and actions correspond to the code

- **RoomTable.** `owner[t][p]` is the `conn_id` in the slot of endpoint `p` of
  room `t`, `NoConn` for no slot; `rooms` is the set of topics with a map entry.
  Everything between taking and releasing a shard lock is one step.
- **Rooms.** `phase` follows `serve_connection`; `subscribed` is
  `Session::subscribed`; `backlog` counts frames in the session channel;
  `picture[c][t]` is what a client that reads all of them will know of room `t`.
  The channel is first-in first-out, so the picture says everything the frames
  would. Bytes are counted as frames. The zero topic, the topic cap, rate limits
  and oversized blobs appear as refusals.
- **Fanout.** A reader's `publish` is three steps: membership check (`Check`),
  rate bucket (`RateLimit`), publish under the lock (`Publish`). `running` is the
  set of readers that were being polled when `JoinSet` aborted them; they go on
  until they next wait. A delivery that the recipient's queue does not take is
  `lost`.
- **Outbox.** `reserve` is taken apart into its atomic operations (`Begin` reads
  the flag, `Add` adds, `Release`, `Swap`, `CloseSlow`), so that pushes of several
  rooms interleave at each. The three writers receive, write, fail, stall, return.
- **BulkQueue.** The lock's critical sections are steps; `notify_one` after the
  unlock is another. The stored permit of `Notify` is a variable.
- **Bucket.** Time and levels are whole numbers; the levels go below zero as in
  the code. Rounding of `f64` is not modelled.
- **Proto.** A byte is a number, a frame in flight is a sequence of them. Topics
  and ids are `Width` bytes; a field of fixed width (length prefix, entry count,
  blob length) is one number. The entry count is written modulo the width of its
  field. `Peek` is what `read_frame` returns for the bytes a stream still has.
  `IsFrame` is the Rust types of the frames, `Said` what a client is to read of a
  frame of the server.
- **SessionStream.** The queue of `session_writer`, the frames in flight, and
  `pump_frames`' partial snapshots and inbox. `ChunkEnd` gives the cut of the
  inner loop of `encode_snapshot`. The stream's frames go through `Encode` and
  `ServerDecode`. The channel `Inbox::frames` has room for `InboxLen` frames:
  `tx.send` waits while it is full (the frame stays at the head of `wire`) and
  fails once the application has dropped its receiver, which ends the pump
  (`PumpEnds`) and stops the stream. The writer then returns with `Closed`
  (`WriteFails`); when the window stays full it returns with `Stalled` and closes
  the connection (`Stall`). `Receive` and `DropFrames` are the application's.
- **FrameReaders.** `content[s]` is what a peer put on stream `s`: a lane byte, and
  frames, bodies no frame has and bad length prefixes, cut off after any byte.
  `input[s]` is what is still to be read, `state[s]` where the task is. The first
  bad length that the SFU meets closes the connection (`closed`); the end of the
  session stream, and a lost connection, end all readers (`gone`). A DELIVER that
  `pump_lane` cannot hand out because the application has dropped
  `Inbox::deliveries` ends that reader (`LoseDelivery`, state `left`). What a lane
  reader takes is the DELIVER it would queue. What it *should* take is stated
  without decoding: `Meant` tries every way to split an item's body and keeps the
  frames whose encoding is the item.
- **Connection.** Both together. A reader that closes the connection cuts the
  session stream with what is in flight on it, and a stall of the session stream
  ends the readers.
- **Lifecycle.** `connections` is the counter; a refused connection is counted
  between `acquire`'s two atomic operations. `targets[c]` is the rest of the
  `for` loop of `datagram_loop`.
- **ClientLanes.** Each call of `subscribe`, `unsubscribe`, `announce`, `publish`
  or `publish_to` has a number and a program counter (`lock`, `open`, `write`).
  `wire[s]` holds the lane byte and the halves of frames written on stream `s`;
  a lane stream is named after the call that opened it. Dropping a `SendStream`
  finishes it. `Cancel` drops a call at any point where it waits. `Stop`,
  `Retire` and `CloseConn` are what the SFU and QUIC do.
- **InfoDoc.** A response is a sequence of tokens (status, end of the head, and
  for each field its name, two halves of its value and its end), so that a cut
  between any two of them leaves what a cut in the text would. `JsonField`
  searches it the way `json_field` does.
- **Service.** `pc[p]` follows `main`; `Sfu::spawn` is two steps (`SpawnRelay`,
  `BindEndpoint`), since the relay runs, and may stop, before the endpoint is
  bound. `create_new` is one step; the write of the
  key is another that the process does not wait for (`unsaved`), because
  `tokio::fs::File` hands it to a blocking thread, and it may fail unnoticed.
  `Kill` may come at any point. `conn`, `request` and `response` are the TCP
  connections of the info listener. The SFU's id stands for its key.
- **Probe.** `probe[p]` holds what steers a probe: `joined`, the entries of
  `peers`, who is learned, the connection in each `PeerStats`, `bulk_sent` and
  the acks. The SFU is taken to be what the other modules show: an ordered
  session stream, and lanes and datagrams in any order. `link[c]` is the mesh
  connection of a pair with its ping stream; each end takes note of it in its own
  time, even after it was closed (`Connected`, `Accepted`). Timestamps, round trips and what is
  only printed are left out.

## Runs

Bounds are constants named in the modules. The runs check no type invariants: where
a proof needs typing, it is part of the proved invariant.

| Run | Properties | Bounds and why they are enough |
|---|---|---|
| `rooms` | `SlotsHaveLiveOwners`, `MembersSeeTheRoom`, `RoomsWithinCap`, `OnlyOwnerOrSuccessorFreesSlot` | three connections of up to three endpoints, a room for two, two blobs, one frame of budget: a takeover, a third member or a refused join all occur, and so does an overflow; proved in general |
| `rooms_newer` | `NewerConnectionOwnsSlot`, violated | see Findings |
| `bulk` | `WithinBudget`, `NewestSurvive`, `NoLostWakeup`, `DeliveriesMoveOn`, `ClosingEndsDispatcher` | deliveries below, at and above the budget of 3, two streams, two pushers: drops of several deliveries, an oversized one, a close at any point; the three safety properties proved in general |
| `outbox` | `QueuesWithinBudget`, `NoGapAfterRefusal`, `OverflowCloses`, `WritersFinish` | two pushers and four pushes, a frame above the budget included: two tentative additions overlap; `QueuesWithinBudget` and `NoGapAfterRefusal` proved in general |
| `outbox_empty` | `EmptyBudgetTakesOne`, violated | see Findings |
| `bucket` | `FramesWithinRate`, `BytesWithinRate`, `IdleBucketAdmits` | burst smaller than the longest frame, time up to 4; proved in general |
| `fanout` | `ImplementsPubSub`, `OnlyOwnersExchange`, `StreamsStayOrdered` | three connections of two endpoints, two frames: a takeover or a leave falls between check and publish, and two frames of a stream straddle it; proved in general |
| `connection` | `SnapshotsArriveWhole`, `TakesWhatIsWanted`, `NoFrameVanishes`, `QueuedArrives` | one stream with any frame, malformed body or bad length, cut within its last four bytes, alone or followed by one or two of a selection of these, or three streams with one item each; rooms of up to three members with entries that fit and that do not fit a chunk, a count field that holds 2, up to three queued items (any first, a few second, two third: `Quota`) where the other streams carry little, two frames in flight, an inbox for one frame that the application empties or not, and a receiver dropped at any point (`Drops` says which, where it receives something): the channel and the window both fill up; the three safety properties proved in general |
| `lifecycle` | `PlacesCounted`, `DatagramsBetweenMembers`, `ClosedConnectionsFinish`, `ShutdownEmpties` | three connections for two places: refusals, takeovers, datagrams and a shutdown at any point |
| `client_lanes` | `FramesStayWhole`, `OkMeansSent`, `FailsOnce`, `WaitsEnd` | three calls (one holds a lane, one waits, one takes the credit), one long-lived lane, two streams at a time, frames of two halves; proved in general |
| `service` | `IdStable`, `FetchedNamesSfu`, `RequestsAnswered`, `RelayLossFreesPorts` | two processes of two builds and three starts (an overlap and a restart), two clients of which one is silent, one failed accept: a create race, a lost write, a kill or the loss of the relay in any state, an answer from the other build and a cut at any token; `IdStable` and `FetchedNamesSfu` proved in general |
| `probe` | `PublishesAccepted`, `SlotsAgree`, `PingsMatch`, `PairsMesh`, `BulkAcked` | two probes, and in each behaviour one of four loads: traffic from either side with or without leaving, or two pings on the connection. The properties are about pairs of probes; the three safety ones are proved for rooms of any size |

`CHECK_DEADLOCK` is off where the system may stop: all connections are done, or
a bound is used up. Only `Bucket` can always go on.

### Fairness

Liveness rests on these assumptions only: Tokio runs a task that can make
progress (weak fairness of task steps); a write either progresses, fails or
reaches the stall timeout; handshakes, stream opening and draining have the
timeouts the code sets; a read on a closed connection fails. Nothing is assumed
of clients: in `SessionStream` the application may stop receiving for ever, and
`QueuedArrives` says what the SFU's writer does then, and what arrives *if* the
channel is not left full. The transport moves what was written while the
connection lasts. In `Service`, `main`, the listener and the answering tasks run,
a bind returns (with an error or without), and sleeps and `Sfu::shutdown` end;
nothing makes a process start, and nothing makes the relay's start return. In `Probe`, each task of a probe and the SFU run, a
dial ends either way, and nothing is assumed of starting, ticking, leaving or of
datagrams. `SessionStream` states weak fairness with `ENABLED` written out as
`Busy` and `MayPump`, which is equivalent because each of these steps changes
the stream; `WriterStep` is always enabled while `Busy` holds, since it includes
the failure and the stall. One action has strong fairness: an aborted datagram loop of a
*closed* connection eventually finds no datagram, since a closed connection
receives none.

## Findings

Each is a violated property that states what a comment or document says.

1. `rooms_newer`: "A newer connection owns the slot" (`src/README.md:35`).
   `Rooms::join` gives the slot to the connection that *joined* last. An older
   connection that is still open and subscribes after the newer one takes it.
2. `outbox_empty`: "An empty budget always takes one frame" (line 148).
   `session_writer` returns when the client stops the session stream, and the
   bytes in its channel stay counted. With nothing queued, an open connection can
   then be refused a frame and be closed as a slow consumer.

Observed and not stated as runs:

- Dropping the acceptor's `JoinSet` (644) does not wait for lane readers that are
  running, although the comment at 648 says "Every queue handle is gone now".
  Nothing bad follows for publishing (`ImplementsPubSub` holds with such readers);
  the writers finish only when those readers are gone.
- `pump_lane` is documented to count what it skips (`client.rs:319`); the DELIVER it
  has in hand when it finds the application's receiver gone is neither delivered
  nor counted. `NoFrameVanishes` says that this is the only one.
- `NoGapAfterRefusal` is about each task by itself. A task that read the flag before
  another raised it may still queue its frame behind the refused one, on a
  connection that is being closed.
- `proto.rs:132` says that the receiver of a bad length prefix closes the
  connection, on any stream; the client's pumps only end their stream
  (`FrameReaders`, `Closes`).
- `read_frame` returns `Ok(None)` also when a stream ends inside the length
  prefix, though its comment speaks of a frame boundary. An ERROR about the
  all-zero topic reaches the client as one about no topic.
- A publish whose future is dropped inside `write_chunk` (`client.rs:231`) leaves
  half a frame on a stream that stays in its slot, so later frames on it are
  misread; no caller in the repository drops one, and `FramesStayWhole` says that
  this is the only way.
- A key file that a crash or a failed write left short is refused by every later
  start until someone removes it (`kt-sfu.rs:241`). That keeps the id stable; an
  id that was already printed may be lost with it, since the process serves
  before the key is known to be in the file.
- A probe does not repeat a failed dial, and more peers may acknowledge its bulk
  publish than the number it was "published to" (`kt-probe.rs:225`), which counts
  the peers that are known, not the members.

## Proofs

The proof modules hold for every value of the constants that satisfies the
assumptions named in the modules (finite sets of endpoints, positive caps).

- **RoomsProofs**: `TypeCorrect`, `LiveOwners`, `PicturesAgree`, `NoEmptyRooms`,
  `CapHolds`, `NoForeignEviction`. `MembersSeeTheRoom` is not inductive alone: a
  broadcast reaches the right members only if slots have live owners of the
  right endpoint, and a blob must be empty where there is no slot. The inductive
  invariant joins these. Each action is one step of the proof.
- **OutboundProofs**, on `Outbox`: `NoGap` and `BudgetHolds`. For the first: the flag is raised
  before a refusing task returns, never lowered, and read at the start of each push.
  `QueuesWithinBudget` is about sums of sizes over queues and over tasks in the
  middle of a push. Its inductive invariant `Budgeted` adds the types of the queues
  and pushes, and that what is counted is what will be sent plus what will be
  taken back. Only a push that read a total within the limit, or zero, goes on to
  send; the total is exact, so when it does so over the limit nothing else is
  queued. The module begins with what every step needs: how a sum
  (`SumFunction`) changes when a term is added, changed, removed or moved.
- **OutboundProofs**, on `BulkQueue`: `DropsOldestFirst` (what waits is the newest unbroken run
  and `waiting_bytes` is its length), `WakeupsArrive` (a parked dispatcher has
  nothing to do, or a notification is under way) and `CountersExact`
  (`WithinBudget`). A sum over a *set* of deliveries counts each one only if they
  differ, so `OnStreams` places the deliveries that are on streams before the
  front of the waiting run: the one that `Take` moves over is new there. It also
  counts the permit that the dispatcher holds between acquiring and spawning.
- **PublishingProofs**, on `Bucket`: `TypeCorrect`, `FramesBounded`, `BytesBounded`,
  `IdleAdmits`. The invariant bounds, for every earlier moment, what was admitted
  since by rate, burst and the present level.
- **LinksProofs**, on `Lifecycle`: `PlacesAreCounted` and `LoopAwaited`. The invariant adds
  that ids not handed out belong to nobody (so a handshake adds one connection to
  those in progress) and that a datagram loop is beside an open session or
  aborted and awaited; and, for the targets in hand, that slots are held by
  connections of their own endpoint, so that a lookup that leaves out the sender's
  endpoint never yields another connection of it. The fairness in `LifecycleSpec`
  is not used.
- **ClientLanesProofs**: `NoMixedFrames`, `OkIsSent`, `FailureOnce`,
  `NoWaitingCircle`. None of the four properties is inductive; one invariant serves
  them all. It says who may touch a stream: a call that opens or writes a kept
  lane, or the session stream, holds its mutex (`Mutex`); a slot holds a stream
  that its lane's calls alone write and that was not ended (`Slots`, `Ends`); half
  a frame is the last thing on its stream until its own call goes on, or was
  dropped there (`Halves`). `NoWaitingCircle` counts: kept lanes keep at most one
  stream each, so when the credit is used up and is larger than their number, some
  stream is finished or a bulk upload under way. That the credit is larger is the
  assumption `ClientAssumption`; `Limits::max_lane_streams` is documented as the
  long-lived lanes plus concurrent bulk publishes (141-145).
- **ServiceProofs**: `IdIsStable` and `FetchedIsNamed`. `IdStable` is not
  inductive: a process that is about to come up holds a key that is not an id yet,
  and a write under way carries one that is not in the file. `Claims` collects
  every key that is or can become an id. The invariant says that there is at most
  one, and that there is none without a file; `create_new` is what adds the first
  and only the first. `FetchedNamesSfu` needs to know where an answer comes from: a
  process with its sockets is among the ids, and a response is the document of one
  that is (`FetchInv`). The rest is about `JsonField` on a document cut at any
  token: `FetchFound` shows that what `fetch_info` accepts has the whole id, relay
  and protocol, because the protocol's field comes after the other two and a part
  of it is not equal to the whole.
- **PublishingProofs**, on `Fanout`: `Refines` (the initial states and the steps of `Fanout` are
  those of `PubSub`), `InOrder`, `OwnersExchange`. The invariant: a slot is held by
  a connection of its endpoint, so a join or a leave of the owner changes one
  endpoint's membership and a takeover none; a connection id not handed out has
  nothing queued, so opening a connection changes no endpoint's inbox; the frame a
  reader has in hand is newer than all it has published, so what is published is a
  new message and comes after the earlier ones of its stream in every queue.
- **LinksProofs**, on `Probe`: `NoEarlyPublish`, `OneConnection`, `EchoesMatch`. A probe may
  publish once it has its SNAPSHOT or answers what was delivered to it. The
  invariant says of each SNAPSHOT under way and each message of a probe that the
  SFU has handled its SUBSCRIBE, and that it stays a member as long as its
  connection is open. A pair can only have the connection that its smaller id
  dialled, so there are no two to disagree on. The ping that is waited for is the
  only one on its stream. The fairness in `Spec` is not used.

- **SessionProofs**, on `Proto`: `FramesSurvive` (decoding inverts encoding, of an
  ERROR about the zero topic up to `Said`, and a client's frame has one wire form)
  and `ChunksSurvive`. Bytes are sequences, so the lemmas below them are about
  where a field lies in a concatenation of two or three (`Halved`, `Thirded`,
  `Sliced`) and about `FlattenSeq` of the first n sequences (`First`). A SNAPSHOT is
  read in as many turns as it has entries; `turn` gives the rest of the body after
  each.
- **SessionProofs**, on `Connection`: `ArriveWhole` (`SnapshotsArriveWhole`). The
  property compares what the room queued with what the client has, and says nothing
  of the frames between, so it is far from inductive. The invariant describes the
  stream by *positions*, each a number of items and of members of the next item.
  There is one for the client, one after each frame in flight, and the last is the
  writer's; from each to the next the frame is what `session_writer` writes there
  (`Trail`). The inbox and the partial snapshot are what lies before the client's
  position (`Inbox`, `Merged`). Writing appends a position, pumping drops the first,
  and losing frames drops the last ones (`Flowing`). Once the pump has ended, what
  matters is only that the inbox is a beginning of what was queued (`Stopped`). That a chunk has at least one member and
  its count fits its field (`EntryLimit`) is what makes each step one forward.
- **ReadersProofs**: `TakeWanted` and `NoneVanishes`. The invariant gives each
  reader a number n (`Progress`): its input is what arrives after the first n items,
  what it took is what those items mean, and taken and reported frames add up to n.
  `NextFrame` shows that below `Intact` the bytes at the boundary hold the next item
  whole, and at `Intact` they hold no frame: the end, a cut or a bad length. So a
  reader that ends has dealt with every item it was to. A reader that left has read
  item n + 1 too (`Left`), and that item is one it would have taken. `ReadMeaning`, from the
  codec, shows that what a reader makes of an item is the one thing it means on
  that stream, and `ClosedRight` says which reader closed the connection.
  The assumptions are on types only: topics and ids are byte strings of their
  width, an item has a length prefix that is right or bad, a cut leaves no less
  than nothing. The fairness in `Spec` is not used.

The inductive invariants of `OutboundProofs`, `ClientLanesProofs` and `ServiceProofs`
were checked with TLC, on the instance of the component's run, before they were
proved.

Sums need induction over finite sets, and streams induction over the number of
items or entries; the library's induction theorems take an
operator as a parameter, which the installed provers cannot instantiate.
`OutboundProofs` and `SessionProofs` therefore state induction about a *set* (`NatSteps`:
a set that has 0 and n + 1 with n has every number), derived from the existence of
minimal elements, and apply it to the set of numbers for which the claim holds.

Only model-checked is every liveness property (`DeliveriesMoveOn`,
`ClosingEndsDispatcher`, `OverflowCloses`, `WritersFinish`, `QueuedArrives`,
`ClosedConnectionsFinish`, `ShutdownEmpties`, `RequestsAnswered`,
`RelayLossFreesPorts`, `PairsMesh`, `BulkAcked`), which is out of the prover's reach. Every safety property
that a passing run checks is proved.

## Not modelled

- TLS certificates (`tls.rs`), and the embedded relay beyond its start and stop:
  calls into libraries.
- Statistics other than `connections`, logging, and the wording of errors.
- `snapshot_wire_len`: an estimate that only sizes a reservation.
- In the service: argument parsing and the statistics log. In the info listener:
  HEAD requests, URLs and TLS. The response is written and read as one piece that
  may be cut.
- In the probe: the status and path loops and the summary, which only read and
  print; datagrams between probes, which only count; the printed JOINED and ERROR.
- Configuration (`Limits`, `SfuConfig`, QUIC windows) beyond the limits that are
  constants of the modules, and accessors that read a field.

## Plan

*Compose* `Rooms` over `SessionStream`, so that the picture of a room is what the
merged snapshots and events give; `ArriveWhole` then carries `MembersSeeTheRoom` to
the client's end of the stream.
