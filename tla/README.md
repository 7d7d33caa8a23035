# Tangentfeed: specification, model checking and proofs

Tangentfeed is a library for local-first applications: each device holds a full
replica of a *space* (tables of rows of cells), writes to it without asking
anybody, and exchanges operations with other replicas whenever a transport lets
it. This directory models the TypeScript implementation under `src/packages`.
Paths below are relative to `src/`.

## 1. Inventory

| Part | Source | State it keeps | Operations | Interacts with |
|---|---|---|---|---|
| Hybrid logical clock | `packages/core/src/hlc.ts` | millis, counter | `now`, `receive` | engine calls it under its lock; physical clock is read |
| Ops and frontiers | `op.ts` | none (pure) | `validateOp`, `advanceFrontier`, `aboveFrontier` | engine, storage, replicator |
| Sync engine | `engine.ts` | clock, key directory, mutex, subscribers | `insert/update/delete`, `applyRemoteOps`, `observeRemoteClock`, `learnKey`, `recordPeerFrontier`, `compact`, `open` | storage (async calls), replicator (calls and change events) |
| Storage | `storage.ts`, `adapter-idb`, `adapter-sqlite` | op log, winning cells, frontier, persisted clock, device key, peer frontiers | `applyBatch`, `compact`, `setPeerFrontier`, `opsSince`, reads | engine |
| Compaction | `compaction.ts` | none (pure plan over a snapshot) | `compactionHorizon`, `planCompaction`, `blockingPeers` | engine's `compact` |
| Replicator | `replicator.ts` | `started`, peers listed | `start`, `stop`, one handler per message, live tail | engine (calls, events), transport (messages, connect callbacks) |
| Broadcast transport | `transport-broadcast` | listeners | `send`, `onMessage` | replicators of the other tabs |
| WebRTC transport | `transport-webrtc/src/index.ts` | signaling socket, backoff, one peer record per device | signaling client, offers/answers/candidates, data channels | signaling server, replicator |
| Manual pairing | `transport-webrtc/src/manual.ts` | one connection | create offer, accept offer/answer, close | replicator |
| Signaling server | `signaling-server` | rooms: space to device to socket | join, signal, leave, evict | WebRTC clients |
| openSpace | `packages/tangentfeed` | transports, replicators | open, typed writes, compact, close | all of the above |
| React hooks | `packages/react` | the space open, the rows shown | open on mount, close on unmount, refresh on change | openSpace, the engine's change events |
| Schema | `packages/schema` | none (pure) | builders, `validateInsert`, `validateUpdate`, `parseRow`, inferred types | openSpace |
| Encryption, signing, row ids | `packages/crypto`, `core/src/{cipher,signing,ulid}.ts` | none | pure functions | engine |
| Dart and Flutter | `impl/dart`, `impl/flutter` | a second implementation of all of the above | the same | the same |

What makes each correct:

* **Clock**: a stamp is issued once, ever, whatever restarts, failures and
  wall-clock steps come between; a write is stamped after all its writer saw.
* **Engine and storage**: the cells are the last-writer-wins merge of what was
  delivered; the frontier says exactly what was applied; dedup by id never drops
  an op; a crash between two steps loses at most what was not committed.
* **Compaction**: no reader notices; winners stay logged; a row goes whole;
  deleted data stays deleted; nothing anybody still needs is dropped.
* **Replicator**: connected replicas that have gone quiet hold the same ops;
  handshakes end; no frontier claims an op that is missing; what is recorded of
  a peer is true of the peer.
* **Transports and signaling**: a pair of present clients ends up connected;
  no duel of evictions; an answer reaches the connection it was made for.

* **Adapters**: between any two transactions log, cells, frontier and clock
  belong together, whatever fails or dies; reads by index equal reads by scan.
* **openSpace and hooks**: a replica keeps one identity; a space nobody shows is
  closed; a view ends up showing what the database holds.
* **Schema**: the validator refuses nothing the inferred types allow and accepts
  nothing else, with differences that can be named; what one schema wrote is stored
  as it declares.

Hard behaviour: JavaScript is single-threaded but every handler has `await`s, so
handlers, application calls and callbacks interleave there; the engine's promise
mutex serialises mutations and nothing else; processes die between awaits; wall
clocks step; transports drop links, messages and peers. `PROJECT.json` lists each
hazard at its line with the property that covers it, or why none does yet.

## 2. Modules

```
Hlc          stamps, their order, now() and receive()
  Ops        ops, last-writer-wins merge, frontiers
    LwwSpace     abstract: what a space promises (refinement target)
    SyncEngine   the replica: engine + storage + compaction, network left open
      MCSyncEngine, SyncEngineProofs (with OpsProofs), MergeProofs
      SyncOnce     syncOnce between engines, await by await; closes the network
        MCSyncOnce, SyncOnceProofs
      Replicator   one replicator per replica over a bus or links; closes the network
        MCReplicator, MCReconnecting, ReplicatorProofs
    Store        a database behind the storage contract: IndexedDB, SQLite
      Spaces       openSpace and the React hooks over it
        MCSpaces, SpacesProofs (with OpsProofs)

Schema         fields, validation and inferred types (pure)
  TypedRows      a row written through schemas, by this device and by peers
    MCTypedRows

Signaling      the signaling server, and the sockets, joins and retries of its clients
  MCSignaling, SignalingProofs
  PeerConnections   the peer life cycle of the WebRTC transport, over Signaling
    MCPeerConnections, PeerProofs
```

Spaces looks at the same engine as SyncEngine from below: SyncEngine takes a
storage call to be atomic and looks at many replicas, Spaces has one replica and
takes every storage call apart. Replicator and PeerConnections meet in a connection: what PeerConnections promises of a channel
between two present clients is a link of Replicator, with `ChannelOpens` its
`Connect` and `Drop` its `Disconnect`.

### Hlc
`now()` and `receive()` are the functions `Now(clock, pt)` and
`Receive(clock, remote, pt)`; `pt` is the physical clock reading, which the
callers choose from `Times` *at every call*, so the wall clock may stand still,
jump or step back. `MAX_COUNTER`, `MAX_MILLIS` and `MAX_DRIFT_MS` are constants.
Stamps are records: the string form has fixed-width hex fields, so string
comparison is the order `Lt`. Device ids are numbers standing for their rank; so, in Spaces, are row ids.

### Ops
An op is its stamp, row, column and a Boolean: of a value only `value === true`
on the tombstone column has any effect on control. `(table, row)` is one `Row`.
`Winners(S)` is the merge of a set of ops; `View` what reads return.

### SyncEngine
All replicas at once, indexed by device.

| Variable | Code |
|---|---|
| `log`, `cells`, `frontier`, `disk`, `peerFrontiers` | the five stored maps of a `StorageAdapter` (`opsById`, `tables`, `frontier`, `clock`, `peerFrontiers`) |
| `mem` | `HybridLogicalClock` in memory |
| `keys` | the ids in `SyncEngine.keys` |
| `draft` | ops an `update` has built and not committed: non-empty while it holds the mutex |
| `compacting`, `settled` | a `compact` holds the mutex, with the ops it found at or below the horizon |
| `applied` | history: every op ever committed at the replica |

| Action | Code |
|---|---|
| `MakeLocalOp`, `CommitLocal` | `update`/`insert`/`delete`: one `makeLocalOp` per column, then `commit` |
| `RejectLocalOp`, `CommitFails` | `makeLocalOp` throws; `applyBatch` rejects |
| `ApplyRemoteOps` | `applyRemoteOps`: size and key checks, `receive` of the newest stamp, dedup, commit or clock-only persist |
| `ObserveRemoteClock` | `observeRemoteClock` |
| `ReceiveFails` | either of the two failing after the clock moved |
| `LearnKeys`, `RecordPeerFrontier` | `learnKey`, `recordPeerFrontier` (no lock) |
| `CompactBegin`, `CompactEnd`, `CompactAbandon` | `compact`: frontiers and log read; plan carried out; dry run or failure |
| `Restart` | the process dies at any point and `open` runs over the same storage |

The mutex makes each of these a critical section; a section is split exactly
where something not under the mutex (a crash, a failure, `recordPeerFrontier`)
can come between its steps. The network of this module delivers any subset of
the ops issued so far, at any time, any number of times, and reports of a peer's
frontier however late: any frontier it may have had (`Reported`). Replicator is
shown to stay within that (`ImplementsEngine`).

### LwwSpace
The promise, without clocks, logs or storage: devices issue ops stamped above
what they were delivered, ops are delivered in any order, and each device sees
the merge of exactly what it was delivered. `ImplementsLwwSpace` states that
SyncEngine implements it (`delivered <- applied, view <- cells`) when tombstones
are not collected.

### SyncOnce
The exchange of `syncOnce`: where SyncEngine lets any batch arrive, here a batch is
what the sender's log held above a frontier the receiver had. The function takes
no lock, so each of its awaits is a step, and writes, compactions, crashes and other
calls come between them.

| Variable | Code |
|---|---|
| `syncs[i]` | call `i`: what it does next (`at`), its two engines, and its locals `fa`, `fb`, `aToB`, `bToA` and the frontier about to be recorded (`have`) |
| `collected` | history: some compaction has collected tombstones |

| Action | Code |
|---|---|
| `Begin`, `KeysBack` | the two `learnKey` loops |
| `ReadFrontiers`, `ReadOps` | `await a.frontier()`, `await b.frontier()`; the two `opsSince` |
| `DeliverOps` | the two `applyRemoteOps`, each only of a batch that is not empty |
| `ReadAck`, `RecordAck` | the frontier of the one read, and recorded at the other |
| `Rejects` | an awaited call rejects, and the function with it |
| `Local`, `Collect`, `Crash` | what the engines do besides: SyncEngine's own actions; a crash ends the calls that use the engine |

Its invariants but the type invariant speak of the time before tombstones are
collected, since of a row that was collected whole nothing tells that it was
there. `NothingMissed`: a frontier claims no op that has not arrived, or been
overwritten by one that has. `EqualFrontiersEqualData`: equal frontiers, equal
cells. `HorizonReached`: what lies below a compaction horizon has reached every known
peer. `SyncDelivers`: a call that has come to its acks has brought each side what
the other had.

### Replicator
Adds the replicators and the transport. A message is taken up to its handler's
first `await` by `Arrive`; the rest is a task that continues by one action per
`await`, interleaved with everything else:

| Action | Code |
|---|---|
| `Announce` | `sendHello` from `start` or `onPeerConnect` |
| `Arrive` | `handle`, up to the first await (a stopped replicator discards; `keys`, `ack` end here) |
| `Observe`, `Greet`, `Ask` | the `hello` handler: clock observed and peer listed; hello back and keys; `since` |
| `Reply`, `Send` | the `since` handler: read what is missing; send keys and chunks |
| `Apply`, `Acknowledge` | the `ops` handler |
| `HandlerFails` | the engine rejects, `handle` catches |
| `Edit`, `Commit` | an application's update, and the live tail |
| `Start`, `Stop`, `Connect`, `Disconnect`, `Crash` | life cycle of replicators, links and processes |
| `Lose`, `Delay`, `Duplicate` | what `Transport` allows ("fire-and-forget; loss is acceptable") |

`FirstInLine` is the mutex's promise chain: tasks that wait for it are served in
order of arrival. Channels are sequences: data channels and `BroadcastChannel`
deliver in order; `Delay` lifts that. A message with an addressee reaches all of
a bus and is discarded unread by the others; the model delivers it to the
addressee only.

### Signaling
The room of one space and the sockets to it. A client is one `WebRTCTransport`;
several clients may have one device id (`DeviceOf`), as a duplicated or a
reloaded tab does. A client opens numbered sockets one after the other.

| Variable | Code |
|---|---|
| `phase`, `sock` | `ws`, `closed` and where `connectSignaling` stands: idle, connecting, open, waiting for the retry timer, conflict, closed |
| `up`, `down` | what a socket has in flight to and from the server |
| `conn` | the server's end of a socket: none, open, closing (evicted), closed |
| `me`, `room` | `me` of each connection, `rooms` |
| `told`, `broken`, `evictions` | history: who a client was told is present, the sockets that broke, evictions under each id |

| Action | Code |
|---|---|
| `Construct`, `Retry`, `Opened`, `ConnectFails` | `connectSignaling` from the constructor and from the timer, `onopen`, `onclose` of a socket that never opened |
| `Receive` | `onmessage`, and `onclose` with code 4000 |
| `Break`, `Notice`, `Close` | `onclose` of a broken socket, of one the server has closed; `close()` or the end of the process |
| `Serve` (`Join`, `Relay`) | the server's message handler |
| `Closes`, `Loses` | the server's close handler (`leave`), after the client has gone or before it notices |

Both ends of a socket learn of a break at different times. What is in flight to
the end that goes is lost; of what it had sent, some beginning arrives. An
evicted socket is `closing` until its client has closed too, and the server still
reads from it, as `ws` does: its signals are relayed and its `close` comes late.

### PeerConnections
`peers` is the map of the transport, `pcs` the connections made so far, `calls`
what the handlers are awaiting: an offer being made, a description being set, an
answer being made. A connection `<<c, d, n>>` is the `n`-th that client `c` makes
for device `d`; a description or a candidate is known by the connection it
describes.

| Action | Code |
|---|---|
| `HearPresent`, `HearLeft`, `HearClose` | `handleSignaling`: `peers` and `peer-joined` (`Ensure` is `ensurePeer` up to its first await), `peer-left`, eviction, which leaves connections alone |
| `HearSignal`, `HearSignalEarly` | `handleSignal` up to its first await, with the peer listed or to be listed; for an initiator the signal waits until its offer is made |
| `Offer`, `OfferFails` | `ensurePeer` after its awaits; its `catch`, which drops whatever is listed for the device by then |
| `SetRemote`, `RejectRemote`, `Answer`, `AnswerFails` | `handleSignal` after each await; its `catch`, which leaves the peer listed |
| `Trickle`, `ChannelOpens`, `Fails`, `PathBreaks` | the callbacks of a connection and its channel |
| `NeverSettles` | a call pending on a connection that is closed |
| `Ends` | `close()`, or the end of the process |

`RTCPeerConnection` is external. It is taken to run the calls made on it in
order; to refuse an answer when it has no offer out and an offer when it has one;
to refuse a candidate of another description than its remote one; to open a
channel once two connections describe each other and one knows the other's
candidate; and to fail once its other end is closed or describes another
connection. A connection that is handed an offer of another connection than
before may take or refuse it, and one that took an answer to an earlier offer
(`crossed`) never opens. A connection whose remote description never comes waits
for ever: it neither opens nor fails. `onconnectionstatechange` drops whatever is listed for
the device, also on `closed`, and does not ask whether it is the connection that
changed (index.ts:255-259); `onclose` of a channel asks. A connection that is no
longer listed has been closed by `dropPeer`, and one closed by `close()` is
taken to fire no state change, as the standard has it; where a browser does fire
one, it would drop its successor.

### Store
A database and the calls made on it and not answered yet. `adapter` says which of
the two it is; both keep the same contents (`db`: ops, cells, frontier, clock,
peers' frontiers, device key).

| Definition | Code |
|---|---|
| `BatchPuts`, `CompactPuts` | what `applyBatch` and `compact` write: a record of the parts of the database they write |
| `IdbTransaction`, `SqliteTransaction` | the transactions this is made in |
| `Perform`, `PutWinners`, `KeepCells` | what a transaction does: ops added or deleted, cells replaced by newer winners or deleted by their keys, values of meta |
| `Spread` | `setPeerFrontier` between its read and its write |
| `ListRows`, `GetRow`, `IdbOpsSince`, `SqliteOpsSince` | reads; SQLite's `opsSince` asks by author and scans for the rest |
| `Scope`, `Waits`, `Ready` | which pending call may be answered next; what a transport factory awaits uses no store and waits for nobody |

`Ready` is where the adapters differ. IndexedDB serves transactions that share an
object store in the order they were made and others in any order, and events come
in between. SQLite works inside the call; its promises settle in order, before the
next event (`Settled` in Spaces). A crash leaves `db` and nothing else.

### Spaces
One component of an application that calls `useSpace` and shows rows with
`useRows` or `useRow` (`hook`). Each opened space is an engine with its own
clock, key and mutex over the one `db`.

| Action | Code |
|---|---|
| `Mount`, `Unmount` | `useSpace`'s effect and its cleanup, with `close()` |
| `OpenDb`, `GetKey`, `SetKey`, `CallFactory`, `MakeTransport`, `Finish`, `OpenFails` | `openSpace` from await to await: adapter, `SyncEngine.open`, one factory and replicator after the other, `then` of `useSpace` |
| `Begin`, `ReadDone`, `WriteDone`, `WriteFails` | a critical section of the engine: stamps and reads, what was read, the commit and its subscribers, an aborted transaction |
| `Plan` (`Passed`, `Doomed`) | `planCompaction`: superseded ops, and with `includeTombstones` (`collect`) deleted rows with their cells |
| `GetPeersDone`, `SetPeersDone` | `recordPeerFrontier`, which takes no lock |
| `RunEffect`, `ListDone`, `RowDone` | the hooks' effect: subscribe and refresh; `list()` and `get()` call by call |
| `Mutate`, `Compact`, `Hear`, `Record`, `Crash` | events: `useTable`, `compact`, ops and frontiers from a peer, the end of the process |

A transport's factory may take any time, and a replicator listens as soon as it
is started, before its space is returned. A component that is unmounted while its
space opens and mounted again therefore has two engines over one database for a
while, both hearing peers; and for good, if the first fails to open after it began to
listen. Nothing in the code keeps their jobs apart and nothing in the model
does. `crowded` is history: it says that an engine had a job while another one
was not closed, which is when what one has read may change under it.
`OneWriterAgrees`, `StampsUnique` and `ViewSettles` speak of behaviours without
that, and section 5 gives two that have it and break them. The condition asks more
than it must: two engines may well be there, and one of them have a job, without harm.
`OneIdentity`, `OneLiveSpace`, `RecordsKept` and `EventuallyReady` need no such
condition.

`swept` is the other one: deleted rows were collected while the hook was
reading. Collecting them deletes cells and calls no subscriber, which shortens
refreshes that list the table later, so that a longer one that listed it earlier
may end last (section 5). `ViewSettles` speaks of behaviours without it.

Two things are assumed. An SQLite adapter, which is an object of the
application's and is closed with the space it was handed to, is handed to one
space, or to the next after an opening failed. And
IndexedDB serves reads of one store in the order they were made; its standard
demands it only where a write is involved. Two properties rest on this, and fail
without it: `ViewSettles`, for two refreshes under way would set their rows in
either order, and `OneIdentity`, for of two mounts that both find a fresh database
the first could store its key last. The others hold either way. A compaction's
four reads (frontier, peers' frontiers, ops, cells) are one, as a job's are: the
mutex keeps the engine's own batches out, and a recording that comes between
them is as good as one that comes before.

`OneIdentity` also needs that no more than two openings overlap. `SyncEngine.open`
asks for the stored key and stores a new one in two calls. With three slots TLC
finds three mounts over a fresh IndexedDB, each unmounted while it opens; the
first two find no key; the first stores its own; the third finds that one and goes
on with it; the second stores its own over it. The third space, which is shown,
writes under a key that is no longer in the database, and the next one opened is
another device.

### Schema and TypedRows
`Valid`, `InsertAccepted`, `Inserted`, `UpdateAccepted`, `Updated` and
`ParseIssues` are the validator; `OutOf`, `IsRow`, `IsInsertInput` and
`IsUpdateInput` are the inferred types as sets of values and rows, built up from
the atoms where the validator takes values apart. They differ in one point:
`s.object` infers every key of its shape as present (builders.ts:110-114), whatever
its flags, and `checkValue` lets those that are optional be absent. `OutOf` follows
the builders; `ValuesOf` is either reading (`lax`: the validator's), and the properties
say that nothing else differs. TypedRows is one row: `Insert`
and `Update` through the facade, `PeerUpdate` by a device of the same schema, any
part of which wins, `ForeignWrite` by one of another schema. `Read` is
`materialize`.

## 3. Runs

All constants of a run are in its `.cfg`. In the engine and replicator runs: two devices, one row with one data
column and its tombstone. Deadlock is not checked: applications may stop
editing, replicas may be in agreement, the bounds are reached.

| Run | Environment | Shows |
|---|---|---|
| `engine` | writes, deletes, undeletes, batches in any order, hellos, failures, restarts; clock readings {0, 1} in any order; counter wraps at 2; 2 ops | `TypeOK`, `ClockCovers`, `UniqueIds`, `FrontierExact`, `WritesFollowReads`, `ImplementsLwwSpace` |
| `engine_compaction` | writes and deletes, three ops, of which the third is not delivered; a sync (`syncOnce`) with a write, a compaction with or without tombstones, a crash between any two of its awaits, or a rejected await | `WinnersLogged`, `CompactionKeepsView`, `EqualFrontiersEqualData`, `HorizonReached` |
| `replicator_reconnect` | two environments, one chosen at the start. Two ops, written at either replica before anyone connects or over the last link, chunks of one op, two sessions, crashes and dropped links anywhere; or one op, one session, one message lost, delayed or repeated or one handler failed, at any point | `NoGaps`, `Converged`, `PeerFrontierSound` |
| `bus_join` | a bus; replicators start at different times, both edit, one stops | `ReplicatorTypeOK`, `Converged`, `Quiesces`, `ImplementsEngine` |
| `signaling` | one client of its own device and two under one id; two sockets each; one break | `RoomExact`, `PresenceExact`, `NoDuel`, `EventuallySettled` |
| `mesh_reload` | a pair of which the answering device leaves and comes back; one call or path fails | `PeerTypeOK`, `NoStrayConnections`, `OneSideOffers`, `AnswersMatch`, `CandidatesKept`, `EventuallyMeshed` |
| `app` | a component over IndexedDB or SQLite with two transports that take their time: three events among unmount, write, delete, compaction with or without tombstones, a peer's batch or frontier, crash; mounts at any time, also while an abandoned space is still opening and hears peers; one failed opening or transaction | `SpacesTypeOK`, `OneWriterAgrees`, `OpsSinceExact`, `OneIdentity`, `StampsUnique`, `OneLiveSpace`, `ViewSettles`, `RecordsKept`, `EventuallyReady` |
| `schema` | four tables of two columns with every kind and flag, 17 values, right and wrong; one cell of a foreign schema | `AcceptsWhatIsTyped`, `RowsStoredTyped`, `ParseIsExact`, `UpdatesTouchOnlyGiven` |
| `engine_resurrection` | violated: `NoResurrection` | a collected row comes back although the conditions of PROTOCOL 9.2 were met |
| `replicator_gap` | violated: `Converged` | an edit during a handshake leaves two idle, connected replicas different |
| `bus_rejoin` | violated: `Converged` | a returning replica is not greeted back and stays behind |
| `mesh_rejoin` | violated: `MeshComplete` | an offer lost with its signaling socket is never made again |

In the signaling and mesh runs clients may stay away, close and fall silent, so
deadlock is not checked there either. `MeshComplete` and `CandidatesKept` speak
of states in which nothing is under way (`Quiet`).

Why the bounds are enough. Two devices are enough for every exchange, since the
protocol is between pairs; relaying through a third is in the plan. In `engine`
two ops let a cell be won by one device and lost to the other in either order of
arrival; more ops are the business of the proofs, which cover every property of
that run. A counter that wraps at 2 and clock readings of {0, 1} make rollover,
ties and backward steps happen with two ops; a replica stops when its clock
leaves its bounds, so the bound on the clock also bounds the batches a replica
receives: the six readings there allow a newer op to be received before an older
one. Three ops in `engine_compaction` let a row be written, deleted and written
again, with a sync before and between. The counter ends at 3, so the third op uses it
up: it is written, it counts in every frontier and compaction of its author, and no
replica can receive it. (With one reading more the run has more than five million states.)
One call of `syncOnce` is under way
at a time, always in the same direction, and no other step comes between the steps
of one engine's critical section (`SmallNext`), so nothing is recorded between a
compaction's reads and its write there, and no process dies in between. Only compactions that
have something to reclaim are tried, as others change nothing (`Reclaimable`).
Recordings between those steps, third ops that arrive, calls that overlap, more
devices and more ops are covered by `SyncOnceProofs` and `MergeProofs`, which
prove all four properties without those limits, and such recordings are also in `app`. The run `engine` exchanges
keys first (a batch by an unknown author changes nothing). One op per message makes
an answer of two ops a transfer that can be cut in the middle. Two sessions let
a dropped transfer be resumed; when a link drops or a process dies, one of the
replicas alone has ops, either of them may die, and transfers in both directions
at once are looked at over the links that stay. A lost message may be all there
was to tell of an op, so `Converged` speaks of behaviours without faults;
`NoGaps` and `PeerFrontierSound` hold with them. `MaxCounter = 30` in the replicator runs keeps
the clock from stopping a run: with `MaxMillis = 0` the counter alone advances.

Presence of a device depends on its own sockets and on one observer: two clients
under one id and one under another give every order of join, eviction, late
close and announcement. Two sockets each let an evicted or broken client be back
before its old socket is closed; a third changes nothing with one break, since a
client opens another socket only after one broke. A connection is between two
devices. In `mesh_reload` one of them has two clients, the second its next
incarnation. Four connections (`MaxConns`) suffice: a late candidate makes an
initiator list a departed device once more, which is one connection more than
the incarnations, and a step the bound disabled for good would leave two present
clients unconnected, which `EventuallyMeshed` excludes. A call or a path fails
while nobody has left, and then nobody comes or goes any more; what holds only
as long as nothing failed says so (`failures = 0`).

`mesh_reload` lets a device come back once the server and the other clients have
seen it leave and nothing is on its way to it (`CarefulReload`). Signals name
device ids, not connections: with a quick return, offers and candidates meant for
the earlier incarnation reach the later one, and an answer may then meet a newer
offer. What becomes of that depends on the browser; `PROJECT.json` lists it as a
hazard no run covers.

The passing replicator runs restrict *when* an application edits: while alone or
when no handshake is under way (`CarefulEditing`). `replicator_gap` lifts exactly
that restriction and fails, so the restriction is the boundary of the guarantee
and not a convenience. In the larger runs keys, acknowledgements and
announcements are dealt with as soon as they come up (`PromptFirst`);
where faults are looked at, this is done for announcements and keys alone
(`HelloFirst`), and every other order is left open.

In `app` two slots let a space be opened while another is still being opened or
closed (with three `OneIdentity` fails, see Spaces; what is proved of the other
invariants is proved for any number), and two transports let ops arrive at a space that is not shown yet. Three
events are enough for a write, an unmount or crash, and a write after it, for
two recordings that overlap, or for a row that is deleted and collected. The run
has 0.94 million states; what holds only without `crowded` or `swept` is proved for any
number of events, and so are the rest but `OpsSinceExact` and `EventuallyReady`. The wall
clock stands still there, since the engine run is where it moves. The device writes and
deletes row 1, and its peer has written both: two rows tell
`useRow`'s row from another, and make `list()` two reads that commits come
between. `OpsSinceExact` is asked for frontiers that name any of the log's authors
and perhaps one that is unknown. In `schema` a table has two columns because validation looks at columns
one by one; nesting goes one level below an array or an object, as `checkValue`
calls itself in the same way at every depth.

Fairness (`EventLoop`, used by `bus_join` only): a message under way
arrives, a ready continuation resumes, an update under way commits. This is what
a JavaScript event loop does with callbacks and resolved promises. Nothing is
assumed of applications, links or faults: nobody has to connect, edit or stop.
`WF(Running)`, for `app`: the database answers calls and the event loop runs what
waits for the answers and the effects React has scheduled; nobody has to mount,
write or stay alive. `SignalingFairness`: a socket that is being opened opens (or fails), the retry
timer fires, what is in flight arrives and is served, and a client learns that
the server has closed its socket, which TCP tells it. The server need not notice
that a client has gone: it sends no pings. `PeerFairness` adds that calls on an
open connection settle, and that a connection opens or fails when it can; there
the server also notices a closed client, since nothing breaks in those runs.

## 4. Proofs

`SyncEngineProofs` and `MergeProofs` prove, for every set of devices, rows,
columns and writes, every clock reading and every bound:

| Theorem | Statement |
|---|---|
| `TypeCorrect` | `Spec => []TypeOK` |
| `ClockCoversHistory` | `Spec => []ClockCovers` |
| `IdsAreUnique` | `Spec => []UniqueIds` |
| `WritesComeAfterReads` | `Spec => WritesFollowReads` |
| `FrontiersAreExact` | `Spec => []FrontierExact` |
| `WinnersStayLogged` | `Spec => []WinnersLogged` |
| `CompactionIsInvisible` | `Spec => CompactionKeepsView` |
| `EngineImplementsSpace` | `TRUE \notin Compactions` implies `Spec => ImplementsLwwSpace` |

`SyncOnceProofs`, for any number of devices and of calls under way, in any
direction, and any writes, compactions, failures and crashes between their awaits:

| Theorem | Statement |
|---|---|
| `SyncTypeCorrect` | `SyncSpec => []SyncTypeOK` |
| `SyncImplementsEngine` | `SyncSpec => Spec`: a call does to engines what SyncEngine's network may |
| `NothingIsMissed` | `SyncSpec => []NothingMissed` |
| `FrontiersTellTheData` | `SyncSpec => []EqualFrontiersEqualData` |
| `HorizonHasReachedPeers` | `SyncSpec => []HorizonReached` |
| `CallsDeliver` | `SyncSpec => []SyncDelivers` |
| `CallsKeepWinners`, `CallsSeeNoCompaction` | `SyncSpec => []WinnersLogged`, `SyncSpec => CompactionKeepsView`, by the refinement |

`ReplicatorProofs`, for every bus or set of links, every fault and every size of
chunk:

| Theorem | Statement |
|---|---|
| `ReplicatorImplementsEngine` | `ReplicatorSpec => ImplementsEngine`, that is `Spec` of SyncEngine |
| `ReplicatorTypeCorrect` | `ReplicatorSpec => []ReplicatorTypeOK` |
| `RecordedFrontiersAreSound` | `ReplicatorSpec => []PeerFrontierSound` |
| `ReplicasStayCorrect` | the engine's theorems of clocks, stamps, frontiers and winners, of connected replicas |
| `ReplicasImplementSpace` | `TRUE \notin Compactions` implies `ReplicatorSpec => ImplementsLwwSpace` |

`SignalingProofs`, for every finite set of transports, any
devices and blobs, and any number of sockets and breaks:

| Theorem | Statement |
|---|---|
| `SignalingTypeCorrect` | `SignalingSpec => []SignalingTypeOK` |
| `RoomStaysExact` | `SignalingSpec => []RoomExact` |
| `PresenceStaysExact` | `SignalingSpec => []PresenceExact` |
| `DuelsAreFinite` | `SignalingSpec => []NoDuel` |

and `PeerProofs`, for every finite set of devices and any number of connections and
failures, in an environment without restrictions (`PeerSpec`: whatever breaks,
fails, is evicted, leaves or comes back, as soon as it likes):

| Theorem | Statement |
|---|---|
| `PeerTypeCorrect` | `PeerSpec => []PeerTypeOK` |
| `ConnectionsAreListed` | `PeerSpec => []NoStrayConnections` |
| `OnlyOneSideOffers` | `PeerSpec => []OneSideOffers` |
| `RoomStaysRightUnderMesh` | `PeerSpec => [](RoomExact /\ PresenceExact /\ NoDuel)` |

`SpacesProofs`, for any number of spaces, transports, writes, events and failures:

| Theorem | Statement |
|---|---|
| `SpacesTypeCorrect` | `SpacesSpec => []SpacesTypeOK` |
| `CellsAreWinners` | `SpacesSpec => []OneWriterAgrees`, that is `~crowded => LogAndCellsAgree` |
| `NoStampTwice` | `SpacesSpec => []StampsUnique`, unless `crowded` |
| `RecordingsStay` | `SpacesSpec => []RecordsKept` |
| `NoSpaceLeftOpen` | `SpacesSpec => []OneLiveSpace` |
| `OneIdentityKept` | `Slots <= 2` implies `SpacesSpec => []OneIdentity` |
| `ViewIsLive` | `SpacesSpec => []ViewSettles`, unless `crowded` or `swept` |

The assumptions are those the modules state of their constants.
`HlcAssumption` and `EngineAssumption`: devices are positive
numbers, bounds are natural numbers, writes are well-formed;
`ReplicatorAssumption`: chunks are not empty, bounds are natural numbers;
`SignalingAssumption`: every transport has a device id, and there are finitely
many transports; `PeerAssumption` and `BlobAssumption`: device ids are ordered,
there are finitely many, and what clients relay are the signals of connections;
`SpacesAssumption`: there is a slot, keys are devices, row ids are ranks, writes and the ops and
frontiers peers send are well-formed, and a batch is finite and not empty.
TLC evaluates each in every run of its module.

The argument. `ClockCovers` is not inductive alone: `UniqueIds` needs that a new
stamp of a device differs from every stamp *any* replica holds of that device.
The invariant `IInv` therefore adds that a replica has applied every op it is the
author of before anyone else has (nobody else can issue under its id), so the
author's persisted clock covers them all, and that the ops of a draft lie
strictly above the persisted clock and at most at the running one. `Now` is
shown to be strictly above the clock it starts from, `Receive` strictly above
both the clock and the stamp received (`OpsProofs`), and every action is shown
to preserve `IInv`, one step per action, one conjunct at a time.
`WritesFollowReads` follows from `IInv` on the single action that adds ops of
one's own.

`MergeProofs` rests on `IInv` and on one lemma about the whole next-state
relation, `StoreStep`: what a replica stores changes only by a finite batch of
ops, its own draft or ops issued before, or by a compaction. Each theorem is
then proved for those two steps:

* `FrontierExact`: `Advance` returns the largest of a finite set of stamps, which
  exists because `Leq` is a total order (`LatestExists`).
* `WinnersLogged` is inductive beside `IInv`. Every cell of a finite set of ops
  has a newest op (`WinnerExists`) and, ids being unique, one only
  (`WinnerIsUnique`). A compaction spares winners, and takes a row whole.
* `CompactionKeepsView`: the rows a compaction dooms are hidden by a winning
  tombstone before it, and gone after it.
* The refinement needs one more invariant, `Merged`: the cells are the merge of
  everything applied, not of what the log still holds. Merging a batch into the
  winners is merging it into everything (`MergeOfWinners`). A batch is then a
  `Gain` of LwwSpace, by `ClockCovers` and `UniqueIds` when it is the replica's
  own; all other steps stutter. With tombstone collection `Merged` is false,
  which is the finding of `engine_resurrection`.

`SyncOnceProofs` is about gaps. `NoGap`, every op a frontier claims is covered (has
arrived, or a later write of its cell has), is not inductive alone: a batch raises the
receiver's frontier to its newest op of each author, so it must bring, or find there,
everything below its ops. That was so when the batch was worked out, of the receiver's
frontier and the sender's log at two earlier moments; `Fills` says that it still is
when the batch arrives. It was, because the sender had no gap itself, and its log
has the winner of every cell (`WinnersLogged`), which is above the frontier and in the
batch, or below it and covered (`SentCovers`). It still is, because what a
replica has covered it keeps covered, and an op issued since is newer than all its
author's before (`NewOpsAreLater`), hence not below anything in hand
(`CarriesOn`). `Brings` says the same of the frontier a call has read: with the ops in
hand the other side has all that it claims. Compaction drops superseded ops from
logs and leaves cells and frontiers alone as long as it spares tombstones. `Merged` then
makes equal frontiers equal cells: each side covers the other's winners, and
covering both ways is equality, ids being unique. Acks are frontiers the peer has had
(`Recorded`), and what was once below a replica's frontier stays there
(`SeenStaysSeen`).

`RoomExact` is not inductive alone. The server reads from a socket it is closing,
so a second join of an evicted socket would bring it back into the room while it
closes. `RoomInv` adds that a join is the first thing a socket says and is on its
way only before the socket is a member (`JoinsOnce`), that a socket is closing
only after it has joined (`Members`), that the room holds each socket under its
own device id (`RoomOwn`), and that nothing is in flight on a socket that is not
open yet (`Untouched`). A late close then finds either its own socket in the room
or another one, which it leaves alone.

Presence is proved device by device. Whether a client takes `d` to be present once
it has heard its queue is decided by the last message about `d`, or by what it was
told before if there is none: `HeardAll` says so without recursion, and
`HeardLast` and `HeardFirst` say what a message more at the end or one less at the
front changes. A step of the server then appends to the queue of a watcher exactly
the message its change of the room calls for; `RoomInv` is needed for the socket
that joins being greeted once, and for the one that leaves not being in the room
under another socket's name.

Evictions are counted. A socket evicts once at most, when its join is read, so there
are no more evictions under a device id than sockets of it whose join is no longer
to come (`Spent`), and fewer, since the first of them found nobody (`Charged`). A
client opens a second socket only after its last one broke, so all but one socket
of each transport are `broken` (`Paid`). `NoDuel` is the sum.

ReplicatorProofs follows what is in flight. Its invariant says of every message and
of every task that waits in a handler that the ops it carries were issued, that a
stamp it carries is one, and that a frontier it carries is one its sender has had.
Since frontiers only grow, a report that was lost, repeated or delayed is still
true of its sender when it is recorded, and every step of a handler is a step the
environment of SyncEngine allows. So Replicator implements SyncEngine, and what is
proved of the engine carries over. `NoGaps` and `Converged` hold only in the
environments of the runs (`replicator_gap` violates them in the full one) and are
left to TLC.

PeerProofs builds on the signaling proofs in the same way. Every step of
PeerConnections is one of the signaling actions or a client that signals
(`SignalingStep`, `Speak`), for which the signaling lemmas are stated. What a signal means depends
on where it came from, which the client cannot see: `Directed` follows signals
through the server and says that one is never relayed to its own device and an offer only from
the lower device to the higher. From it follows what clients may be awaiting
(`CallsHeld`): offers on connections they initiate, another's offer only on those
they do not. `Listing`, a connection is open exactly while it is listed, needs that
a new connection is not one already made, hence that those made for a device are
numbered without gaps (`InOrder`).

SpacesProofs has one invariant, `IInv`, for five of its theorems. It says of every
pending call what its caller has read and still relies on. As long as no engine had
a job while another one was not closed (`crowded`), a batch on its way to
the database was worked out from the cells, the frontier and the clock that are
still there, because no other engine that is not closed has its clock yet
(`WorkOk`, and `Alone` in `LifeOk`: an engine with a job is closed, or the only one);
and it stays so, also when its space is closed meanwhile and the next one
mounted, because IndexedDB answers a new engine's `getClock`
only after the writes queued before it, and nothing can write between that answer
and the end of the batch (`CallsInOrder`, `NothingToWait`). So an engine that acts
starts from a clock that covers the log (`LifeOk`), a write is stamped above all
that is stored, and no stamp comes twice, also when a space is closed with a batch
under way, or the process dies. Of a compaction under way `IsPlan` says what recordings
in the meantime cannot change: some rows go whole, which tombstones hide, and of
the others superseded ops. That cells are winners again after a batch and
after a compaction are two lemmas on sets of ops (`BatchMerges`,
`CompactionSparesWinners`). `RecordsKept` needs of a pending `setPeerFrontier` that
it writes back what is recorded, but for its own entry (`ReadingOk`). What does not
depend on `crowded`, types, openings and what is shown, is proved beside it from the same
invariant.

`OneIdentity` needs more, `KeyInv`. Openings that have no key yet go in a certain
order, and only the last may be the mounted component's (`LastIsMounted`): it stores
its key after those before it. Whoever has stored a key before that waits for its clock
behind the key still to be stored, so nothing has been written by then (`KeysOk`),
and it is no longer mounted. A third opening would find the first key (see Spaces);
with two slots this cannot be (`TwoOpenings`). What is written is then written
under the stored key (`WritesOk`).

`ViewSettles` needs `ViewInv`. Several refreshes of a hook may be under way, each
begun by another commit, and each sets the hook's rows when it has read its last. So it
matters which finishes last, and that it is not one that read before the latest
commit. `FinishesLast` says of a refresh that the others under way wait for no more
answers than it does, or for fewer if they are behind it in the queue; `Current`, that
what it has read and what it has yet to read are together what the hook is to show; and
`Catching`, that one refresh is both. A commit that concerns the hook begins a
refresh that is both (`BegunFinishesLast`); it may add rows, which lengthens other refreshes
that have not listed them, but never beyond the new one. One that does not
concern it leaves the rows the hook shows (`Unconcerned`). The database answers refreshes in their
order, so each answer puts the first of them behind the others with one answer less to
wait for (`RefreshMoves`), and the one that is both can end only when it is the last
(`RefreshEnds`). That an unmounted hook sets nothing, and a slot is not reused while a
call of it is under way, is `OneEffect`. Collecting deleted rows takes answers away from
refreshes that have yet to list the table and from no others, which is why it may only
come while none is under way: then it changes nothing a hook shows (`Collects`,
`HiddenGo`). What is invariant is thus `Watched`: `crowded`, or `swept`, or `ViewInv`.

Only model-checked: `AnswersMatch` and `CandidatesKept`, which hold in the
environment of `mesh_reload` and not in `PeerSpec`; `NoGaps` and `Converged`, for
the like reason; `OpsSinceExact`, since sorting, in the community modules, is a
recursion over data; all of TypedRows. Schema validates and infers by recursion over
fields, which the prover cannot reach. Liveness is outside the prover.

## 5. Findings

Four statements of the documentation that the code does not meet are recorded
in `PROJECT.json` with the run that shows each:

1. *Any gap heals on the next hello/since exchange* (replicator.ts:13):
   `bus_rejoin`. The hello handler greets back only peers it does not list and
   nothing but `stop()` removes a peer, so a returning replica gets no hello and
   sends no `since`.
2. *Ops may arrive in any order* (PROTOCOL 6): `replicator_gap`. A frontier is a
   maximum per author; a live op that overtakes older ones hides them from every
   later `since`. Compaction rests on the same frontiers: *any op at or below the
   horizon has demonstrably reached everyone we know* (compaction.ts:12) is no more
   true than that.
3. *A tombstoned row MAY be reclaimed when...* (PROTOCOL 9.2):
   `engine_resurrection`. The conditions look at the collector's own log only.
4. *Peer connections are rebuilt on rejoin* (transport-webrtc/src/index.ts:16):
   `mesh_rejoin`. A broken signaling socket drops no peer, and after the rejoin
   `ensurePeer` returns early for a listed one, so a handshake that was cut off
   is never resumed.

Seen while modelling, without a run of their own:

* Received keys are not persisted, although PROTOCOL 12.3 says so: the directory is
  a `Map` in memory, and storage has no place for it (engine.ts:77). A replica that
  restarts holds ops of others without the keys to relay with them.
* Two `setPeerFrontier` calls at once lose one of the two recordings (adapter-idb
  :174). `RecordsKept` says that nothing else loses one. The horizon then has no
  entry for a peer it should wait for.
* `SyncEngine.open` reads and stores the device key in two calls (engine.ts:117), so
  *a restart keeps the same device rather than minting a new one* does not hold of
  three overlapping openings of a fresh database (see Spaces above).
* Two engines of one component write over each other (react/src/index.ts:82-96,
  engine.ts:125). First: a component mounts and its space has read the clock and
  begun to listen; it unmounts, and mounts again; the second space reads the
  clock and is shown; a local write on the second and a peer's batch on the first
  begin before either commits. Each writes the frontier, the clock and the winners it
  worked out from what it read, so the later one overwrites the other's: afterwards
  the frontier or the clock does not cover the log, or a cell's winner is the older
  op. Without its condition `OneWriterAgrees` is violated so. Second: the component
  is unmounted during its opening and mounted again, the second space writes twice,
  the first one, abandoned and still listening, hears a batch with a low stamp
  and stores its own older clock, and the process dies. The next space goes on
  from that clock and issues a stamp again that it had used; `StampsUnique` is violated so without its
  condition (with six events). The same comes of an opening that fails: when a later
  transport factory throws, replicators already started keep running
  and nobody can close them (tangentfeed/src/index.ts:173).
* A hook may stay stale after tombstones are collected (react/src/index.ts:117-122,
  compaction.ts:119-180). A refresh of `useRows` lists eight rows, the last seven of
  them deleted, and has read the first when `compact({ includeTombstones: true })`
  commits, which calls no subscriber. The first row is written; the refresh that
  follows lists one row, reads it and sets it, while the earlier one is still
  reading seven rows that are gone. When it is done it sets the row it read before
  the write, and the hook shows that until the next commit. It takes more rows than
  the run `app` has.
* *Always present on read* (schema/README.md:71) is not so of a column that has a
  default and is nullable, and of no nullable column is it so that nullable *widens the
  value, not the presence*: `materialize` leaves out cells that are null
  (engine.ts:389), so such a column, written null, is absent from the row read, and
  `parseRow` reports it. `RowsStoredTyped` therefore speaks of the cells stored, of
  which it holds.
* Of an object field's inner keys the inferred type requires those the validator
  lets be absent (`.optional()`; builders.ts:110-114 against validate.ts:90), so
  a row that `parseRow` accepts need not be of the type it is given, and a write of an
  untyped caller is accepted that the compiler would refuse. `AcceptsWhatIsTyped` and
  `ParseIsExact` say that this is the only difference.
* Two tabs with the default `replica` share a database, and so one identity and
  one clock, in two engines (tangentfeed/src/index.ts:297).
* An adapter or transport object handed to `useSpace` is closed on unmount and
  handed over again, closed, on the next mount.
* *Repeat until both frontiers are equal* (engine.ts:420) may go on for ever after a
  compaction. If all ops of an author were superseded and dropped, a replica that
  syncs afterwards has nothing to raise that author's entry with: its data is
  equal (`NothingMissed` both ways), its frontier never is, and it holds back the
  horizon of those who have the entry. Equal frontiers imply equal data
  (`EqualFrontiersEqualData`); equal data do not imply equal frontiers.
* `createOffer` and `acceptOffer` set their state after awaits in which `close()`
  may have run (manual.ts:92, :128).

## 6. Not modelled

Values, encryption and signature bytes (a signature verifies exactly under its
author's key); string encodings; `onError`/`onPeersChange` callbacks; messages of
another space or wire version, which handlers discard before any state change;
`subscribe` callbacks other than the replicator's and the hooks'. Two processes over one store
(two tabs sharing a replica): SyncEngine has one engine per store and
Spaces one process, in which two engines may be at work. Manual pairing is one connection made by two people
carrying codes, without retries or a third party; once its channel opens it is a
link of Replicator. `usePeers` and `peers()` poll and keep nothing.
The parts with status `not_modelled` in `PROJECT.json` are in the plan or listed
there with the reason.

## 7. Plan

Done: Hlc, Ops, LwwSpace, SyncEngine, SyncOnce, Replicator, Signaling and PeerConnections
with their proofs, Store and Spaces, Schema and TypedRows.

Modelling left, in this order:

1. **ManualPairing**: `createOffer`, `acceptOffer`, `acceptAnswer` and `close`
   over the connection model of PeerConnections; a quick reload of a device, with
   the browser's rules for a connection that is handed another offer.
2. **Two processes over one database**: tabs that share a replica, and what of
   a space would still hold with two engines at work (`crowded`).
3. **CompactionPlan**: `planCompaction` with its statistics and `blockingPeers`
   as functions, against a reference definition over bounded inputs.
4. **Relay**: Replicator with three devices and with compaction.
5. The Dart implementation: the differences in control, and the same modules
   mapped to it where there are none.

Proofs to add: `NoGaps`, of an engine environment that delivers each author's ops in
order.
