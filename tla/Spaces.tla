------------------------------- MODULE Spaces -------------------------------
(***************************************************************************)
(* A component that opens a space and shows it: useSpace and the row hooks *)
(* of packages/react over openSpace of packages/tangentfeed, each opened   *)
(* space an engine of its own over the one database of Store.              *)
(*                                                                         *)
(* What awaits a storage call is a thread: opening a space, the engine's   *)
(* critical section (its jobs queue for the mutex), recording a peer's     *)
(* frontier, refreshing a hook. Its pending call says how far it is. All   *)
(* else happens in events: the component mounts and unmounts, the          *)
(* application writes or compacts, a message arrives, the process dies.    *)
(***************************************************************************)
EXTENDS Store

CONSTANTS Local,       \* ids of the keys generateDeviceKey may return
          Writes,      \* the writes an application makes
          RemoteOps,   \* batches a peer may send, their authors' keys known
          Recordings,  \* peers' frontiers that arrive: [peer, have]
          TheRow,      \* the row a useRow hook shows
          Slots,       \* bound: spaces opened and not done with, at once
          Transports,  \* number of transport factories
          MaxEvents,   \* bound: events in a behaviour, not counting mounts
          MaxFaults    \* bound: failures in a behaviour

ASSUME SpacesAssumption ==
  /\ Local \subseteq Device
  /\ Writes \subseteq Write
  /\ \A ops \in RemoteOps : ops \subseteq Op /\ ops # {} /\ IsFiniteSet(ops)
  /\ \A r \in Recordings : r.peer \in Device
  /\ Row \subseteq Nat   \* an id stands for its rank
  /\ TheRow \in Row
  /\ Slots \in Nat \ {0}
  /\ Transports \in Nat
  /\ MaxEvents \in Nat
  /\ MaxFaults \in Nat

VARIABLES
  inst,      \* the spaces opened
  jobs,      \* jobs[i]: what waits for engine i's mutex, the holder first
  mounted,   \* the space the mounted component has opened, or 0
  shown,     \* the space useSpace returns, or 0
  hook,      \* the hook the component shows its rows with: "rows" or "row"
  view,      \* the hook: the space its effect runs for, and what it returns
  \* history
  issued,      \* ops this device has written
  recorded,    \* the frontiers stored of each peer
  overlapped,  \* one recording began while another was under way
  crowded,     \* an engine had a job while another one was not closed
  swept,       \* deleted rows were collected while a hook was reading
  events, faults

ui == <<mounted, shown, hook, view>>
store == <<adapter, db, calls>>
history == <<issued, recorded, overlapped, crowded, swept>>
counts == <<events, faults>>
spaceVars == <<store, inst, jobs, ui, history, counts>>

Slot == 1 .. Slots
Unused == [at |-> "free", key |-> NoKey, clock |-> FreshClock, started |-> 0,
           listening |-> FALSE, closed |-> FALSE, cancelled |-> FALSE]
NoView == [of |-> 0, rows |-> {}, loading |-> TRUE]

SpacesTypeOK ==
  /\ \A i \in Slot :
       /\ inst[i].at \in {"free", "opening", "open", "failed"}
       /\ inst[i].key \in Local \cup {NoKey}
       /\ inst[i].clock \in Clock
       /\ inst[i].started \in 0 .. Transports
  /\ \A k \in DOMAIN calls : inst[calls[k].by].at # "free"
  /\ db.cells \subseteq Op /\ db.ops \subseteq Op
  /\ db.frontier \in Frontier /\ db.clock \in Clock
  /\ DOMAIN db.peers \subseteq Device
  /\ mounted \in 0 .. Slots /\ shown \in {0, mounted} /\ view.of \in {0, shown}
  /\ view.rows \subseteq Op

SpacesInit ==
  /\ adapter \in {"indexeddb", "sqlite"}
  /\ db = EmptyDb
  /\ calls = <<>>
  /\ inst = [i \in Slot |-> Unused]
  /\ jobs = [i \in Slot |-> <<>>]
  /\ mounted = 0
  /\ shown = 0
  /\ hook \in {"rows", "row"}
  /\ view = NoView
  /\ issued = {}
  /\ recorded = db.peers
  /\ overlapped = FALSE
  /\ crowded = FALSE
  /\ swept = FALSE
  /\ events = 0
  /\ faults = 0

Fault == faults < MaxFaults /\ faults' = faults + 1 /\ UNCHANGED events

\* A call on a closed database throws instead of being made.
Then(i, call) == IF inst[i].closed THEN <<>> ELSE <<call>>

Call(i, at) == [by |-> i, at |-> at]

-----------------------------------------------------------------------------
\* openSpace.

OpenDb(k) ==
  /\ calls[k].at = "openDb"
  /\ Answer(k, <<Call(calls[k].by, "getKey")>>)
  /\ UNCHANGED <<adapter, db, inst, jobs, ui, history, counts>>

\* What generateDeviceKey returns is new to this device.
FreshKeys ==
  {d \in Local : /\ \A i \in Slot : inst[i].key # d
                 /\ \A o \in issued \cup db.ops : Author(o) # d}

\* SyncEngine.open's getDeviceKey: the stored identity, or a new one.
Identities == IF db.key # NoKey THEN {db.key} ELSE FreshKeys

\* Faulty variant: a generated key is not stored before it is used.
GetKeyUnclaimed(k) ==
  LET i == calls[k].by
  IN  /\ calls[k].at = "getKey"
      /\ \E key \in Identities : inst' = [inst EXCEPT ![i].key = key]
      /\ Answer(k, <<Call(i, "getClock")>>)
      /\ UNCHANGED <<adapter, db, jobs, ui, history, counts>>

\* A new identity is claimed before it is used.
GetKey(k) ==
  LET i == calls[k].by
  IN  /\ calls[k].at = "getKey"
      /\ \E key \in Identities : inst' = [inst EXCEPT ![i].key = key]
      /\ Answer(k, <<Call(i, IF db.key # NoKey THEN "getClock" ELSE "setKey")>>)
      /\ UNCHANGED <<adapter, db, jobs, ui, history, counts>>

SetKey(k) ==
  LET i == calls[k].by
  IN  /\ calls[k].at = "setKey"
      /\ db' = Perform(db, [key |-> inst[i].key])
      /\ Answer(k, <<Call(i, "getClock")>>)
      /\ UNCHANGED <<adapter, inst, jobs, ui, history, counts>>

\* The calls after which openSpace goes on to its next transport: the
\* clock's, or a hello's, which ends a replicator's start().
MadeBefore(k) ==
  LET i == calls[k].by
  IN  IF calls[k].at = "getClock" THEN [inst[i] EXCEPT !.clock = db.clock] ELSE inst[i]

\* The next transport factory is called. What it awaits may take any time.
CallFactory(k) ==
  LET i == calls[k].by
  IN  /\ calls[k].at \in {"getClock", "hello"}
      /\ inst[i].started < Transports
      /\ inst' = [inst EXCEPT ![i] = [MadeBefore(k) EXCEPT !.started = @ + 1]]
      /\ Answer(k, <<Call(i, "make")>>)
      /\ UNCHANGED <<adapter, db, jobs, ui, history, counts>>

\* The transport is made and its replicator listens, and reads the log for
\* its hello.
MakeTransport(k) ==
  LET i == calls[k].by
  IN  /\ calls[k].at = "make"
      /\ inst' = [inst EXCEPT ![i].listening = TRUE]
      /\ Answer(k, <<Call(i, "hello")>>)
      /\ UNCHANGED <<adapter, db, jobs, ui, history, counts>>

\* Faulty variant: what opens is shown, whoever is waiting for it.
FinishUncancelled(k) ==
  LET i == calls[k].by
  IN  /\ calls[k].at \in {"getClock", "hello"}
      /\ inst[i].started = Transports
      /\ inst' = [inst EXCEPT ![i] = [MadeBefore(k) EXCEPT !.at = "open"]]
      /\ shown' = IF mounted = 0 THEN shown ELSE i
      /\ Answer(k, <<>>)
      /\ UNCHANGED <<adapter, db, jobs, mounted, hook, view, history, counts>>

\* openSpace resolves: useSpace shows the space, or closes it when it was
\* unmounted in the meantime.
Finish(k) ==
  LET i == calls[k].by
  IN  /\ calls[k].at \in {"getClock", "hello"}
      /\ inst[i].started = Transports
      /\ inst' = [inst EXCEPT ![i] =
           [MadeBefore(k) EXCEPT !.at = "open", !.closed = inst[i].cancelled]]
      /\ shown' = IF inst[i].cancelled THEN shown ELSE i
      /\ Answer(k, <<>>)
      /\ UNCHANGED <<adapter, db, jobs, mounted, hook, view, history, counts>>

\* openSpace rejects: the database does not open, the key cannot be stored,
\* or a factory throws. Replicators started before stay.
OpenFails(k) ==
  /\ calls[k].at \in {"openDb", "setKey", "make"}
  /\ inst' = [inst EXCEPT ![calls[k].by].at = "failed"]
  /\ Answer(k, <<>>)
  /\ Fault
  /\ UNCHANGED <<adapter, db, jobs, ui, history>>

-----------------------------------------------------------------------------
\* The engine's critical sections.

Working(i) == \E k \in DOMAIN calls : calls[k].by = i /\ calls[k].at \in {"read", "write"}

EndJob(i) == jobs' = [jobs EXCEPT ![i] = Tail(@)]

\* A job gets the mutex: a local write is stamped, a remote batch moves the
\* clock, and the reads begin: hasOp, getFrontier and getWinner; for a
\* compaction all of the database.
Begin(i) ==
  /\ jobs[i] # <<>>
  /\ ~Working(i)
  /\ LET job == Head(jobs[i])
         clock == CASE job.does = "write" -> Now(inst[i].clock, 0)
                    [] job.does = "receive" ->
                         Receive(inst[i].clock, Latest({o.stamp : o \in job.ops}), 0)
                    [] OTHER -> inst[i].clock
         ops == CASE job.does = "write" -> {OpOf(StampOf(clock, inst[i].key), job.write)}
                  [] job.does = "receive" -> job.ops
                  [] OTHER -> {}
         read == [by |-> i, at |-> "read", does |-> job.does, ops |-> ops]
     IN  /\ inst' = [inst EXCEPT ![i].clock = clock]
         /\ calls' = calls \o Then(i, read)
  /\ IF inst[i].closed THEN EndJob(i) ELSE UNCHANGED jobs
  /\ UNCHANGED <<adapter, db, ui, history, counts>>

\* commit: the winners and the frontier, worked out from what was read.
BatchOf(i, fresh) ==
  [ops |-> fresh,
   winners |-> {o \in Winners(db.cells \cup fresh) : \E p \in fresh : SameCell(o, p)},
   frontier |-> Advance(db.frontier, fresh),
   clock |-> inst[i].clock]

\* At or below compactionHorizon: seen by this device and by every peer recorded.
Passed(o) ==
  /\ ~Above(o, db.frontier)
  /\ \A p \in DOMAIN db.peers : ~Above(o, db.peers[p])

\* The deleted rows whose tombstone and whose every op have been passed.
Doomed ==
  {r \in ListRows(db) :
     /\ \E o \in GetRow(db, r) : o.column = Tombstone /\ o.value /\ Passed(o)
     /\ \A o \in db.ops : o.row = r => Passed(o)}

\* planCompaction: the superseded ops that have been passed, and, if tombstones
\* are included ("collect"), doomed rows whole.
Plan(does) ==
  LET doomed == IF does = "collect" THEN Doomed ELSE {}
  IN  [ops   |-> {o \in db.ops : o.row \in doomed \/ (o \notin db.cells /\ Passed(o))},
       cells |-> {o \in db.cells : o.row \in doomed}]

Compacts(does) == does \in {"compact", "collect"}

\* The reads are answered, and the job writes; a compaction that finds nothing
\* does not. In a database closed by now the transaction cannot be made.
ReadDone(k) ==
  LET i == calls[k].by
      does == calls[k].does
      fresh == calls[k].ops \ db.ops
      plan == Plan(does)
      puts == IF Compacts(does) THEN CompactPuts(plan) ELSE BatchPuts(BatchOf(i, fresh))
      write == [by |-> i, at |-> "write", txs |-> Transactions(puts),
                does |-> does, ops |-> fresh]
      ends == inst[i].closed \/ (Compacts(does) /\ plan.ops = {} /\ plan.cells = {})
  IN  /\ calls[k].at = "read"
      /\ Answer(k, IF ends THEN <<>> ELSE <<write>>)
      /\ IF ends THEN EndJob(i) ELSE UNCHANGED jobs
      /\ UNCHANGED <<adapter, db, inst, ui, history, counts>>

\* A hook re-reads what it shows: all rows, or its own.
Refresh(i) ==
  IF hook = "rows" THEN [by |-> i, at |-> "list"]
                   ELSE [by |-> i, at |-> "row", todo |-> {TheRow}, got |-> {}]

\* Faulty variant: the hook subscribes once its first refresh is done.
ConcernsOnceLoaded(i, ops) ==
  /\ view.of = i
  /\ ~view.loading
  /\ \E o \in ops : hook = "rows" \/ o.row = TheRow

\* The hook is subscribed to engine i, and a commit of these ops makes it
\* refresh.
Concerns(i, ops) ==
  view.of = i /\ \E o \in ops : hook = "rows" \/ o.row = TheRow

\* The hook is reading.
Refreshing == \E k \in DOMAIN calls : calls[k].by = view.of /\ calls[k].at \in {"list", "row"}

\* A transaction commits. With the last one the job is done and the
\* subscribers are called; of a compaction nobody is told.
WriteDone(k) ==
  LET i == calls[k].by
      tx == Head(calls[k].txs)
      more == Tail(calls[k].txs)
      ops == calls[k].ops
  IN  /\ calls[k].at = "write"
      /\ db' = Perform(db, tx)
      /\ swept' = (swept \/ (Entry(tx, "cleared", {}) # {} /\ Refreshing))
      /\ IF more # <<>>
           THEN /\ Answer(k, <<[calls[k] EXCEPT !.txs = more]>>)
                /\ UNCHANGED <<jobs, issued>>
           ELSE /\ Answer(k, IF Concerns(i, ops) THEN Then(i, Refresh(i)) ELSE <<>>)
                /\ EndJob(i)
                /\ issued' = IF calls[k].does = "write" THEN issued \cup ops ELSE issued
      /\ UNCHANGED <<adapter, inst, ui, recorded, overlapped, crowded, counts>>

\* A transaction aborts: the call rejects and the next job has the mutex.
WriteFails(k) ==
  /\ calls[k].at = "write"
  /\ Answer(k, <<>>)
  /\ EndJob(calls[k].by)
  /\ Fault
  /\ UNCHANGED <<adapter, db, inst, ui, history>>

-----------------------------------------------------------------------------
\* recordPeerFrontier: it takes no lock, and setPeerFrontier reads in one
\* transaction and writes in another.

GetPeersDone(k) ==
  LET c == calls[k]
  IN  /\ c.at = "getPeers"
      /\ Answer(k, Then(c.by, [by |-> c.by, at |-> "setPeers", peer |-> c.peer,
                               have |-> c.have, peers |-> Spread(db.peers, c.peer, c.have)]))
      /\ UNCHANGED <<adapter, db, inst, jobs, ui, history, counts>>

SetPeersDone(k) ==
  LET c == calls[k]
  IN  /\ c.at = "setPeers"
      /\ db' = Perform(db, [peers |-> c.peers])
      /\ recorded' = [q \in DOMAIN recorded \cup {c.peer} |->
                        IF q = c.peer THEN c.have ELSE recorded[q]]
      /\ Answer(k, <<>>)
      /\ UNCHANGED <<adapter, inst, jobs, ui, issued, overlapped, crowded, swept, counts>>

-----------------------------------------------------------------------------
\* The hooks.

\* The effect of useRows and useRow, when useSpace has a new space: refresh
\* and subscribe.
RunEffect ==
  /\ view.of # shown
  /\ view' = [of |-> shown, rows |-> {}, loading |-> TRUE]
  /\ Make(Refresh(shown))
  /\ UNCHANGED <<adapter, db, inst, jobs, mounted, shown, hook, history, counts>>

\* A refresh has read everything: the rows are set if its effect is live.
SetRows(i, rows) ==
  view' = IF view.of = i THEN [view EXCEPT !.rows = rows, !.loading = FALSE] ELSE view

\* Faulty variant: with no rows there is nothing to wait for, or to set.
ListDoneIfAny(k) ==
  LET i == calls[k].by
  IN  /\ calls[k].at = "list"
      /\ UNCHANGED view
      /\ Answer(k, IF ListRows(db) = {} THEN <<>>
                   ELSE Then(i, [by |-> i, at |-> "row", todo |-> ListRows(db), got |-> {}]))
      /\ UNCHANGED <<adapter, db, inst, jobs, mounted, shown, hook, history, counts>>

\* list(): the rows there are, then each of them in turn.
ListDone(k) ==
  LET i == calls[k].by
  IN  /\ calls[k].at = "list"
      /\ IF ListRows(db) = {} THEN SetRows(i, {}) ELSE UNCHANGED view
      /\ Answer(k, IF ListRows(db) = {} THEN <<>>
                   ELSE Then(i, [by |-> i, at |-> "row", todo |-> ListRows(db), got |-> {}]))
      /\ UNCHANGED <<adapter, db, inst, jobs, mounted, shown, hook, history, counts>>

\* get(), or the next row of list(): the row if no tombstone hides it.
RowDone(k) ==
  LET i == calls[k].by
      row == CHOOSE r \in calls[k].todo : \A q \in calls[k].todo : r <= q
      todo == calls[k].todo \ {row}
      got == calls[k].got \cup View(GetRow(db, row))
  IN  /\ calls[k].at = "row"
      /\ IF todo = {} THEN SetRows(i, got) ELSE UNCHANGED view
      /\ Answer(k, IF todo = {} THEN <<>>
                   ELSE Then(i, [by |-> i, at |-> "row", todo |-> todo, got |-> got]))
      /\ UNCHANGED <<adapter, db, inst, jobs, mounted, shown, hook, history, counts>>

-----------------------------------------------------------------------------
\* Events.

\* Nothing is under way but the making of transports.
Quiet ==
  /\ \A k \in DOMAIN calls : ~Waits(calls[k])
  /\ \A i \in Slot : jobs[i] = <<>>
  /\ view.of = shown

\* SQLite's promises settle before the next event.
Settled == adapter = "sqlite" => Quiet

Event ==
  /\ events < MaxEvents
  /\ events' = events + 1
  /\ Settled
  /\ UNCHANGED faults

\* An engine has a job while another one over the database is not closed. The
\* code does not prevent it: a component that is unmounted while its space is
\* being opened and mounted again has two for a while, and for good when the
\* first fails to open after it began to listen. What the two write is then
\* not worked out from what is stored: see the properties.
Crowded ==
  \E i, j \in Slot : /\ i # j
                     /\ ~inst[i].closed /\ jobs[i] # <<>>
                     /\ ~inst[j].closed /\ inst[j].at # "free"

Remember == crowded' = (crowded \/ Crowded')

\* A slot nothing is under way for, and whose space is closed or never ran.
Reusable(i) ==
  /\ inst[i].at = "free" \/ inst[i].closed \/ (inst[i].at = "failed" /\ ~inst[i].listening)
  /\ jobs[i] = <<>>
  /\ \A k \in DOMAIN calls : calls[k].by # i

\* useSpace's effect. An SQLite adapter is the application's object, which a
\* space closes: it is handed to one space only, or again after a failure.
Mount(i) ==
  /\ Settled
  /\ mounted = 0
  /\ Reusable(i)
  /\ \A j \in 1 .. i - 1 : ~Reusable(j)
  /\ adapter = "sqlite" => \A j \in Slot : inst[j].at \in {"free", "failed"}
  /\ mounted' = i
  /\ inst' = [inst EXCEPT ![i] = [Unused EXCEPT !.at = "opening"]]
  /\ Make(Call(i, "openDb"))
  /\ UNCHANGED <<adapter, db, jobs, shown, hook, view, issued, recorded, overlapped, swept, counts>>
  /\ Remember

\* Faulty variant: the hooks keep what they showed.
UnmountKeepingView ==
  /\ Event
  /\ mounted # 0
  /\ inst' = [inst EXCEPT ![mounted] =
                [@ EXCEPT !.cancelled = TRUE, !.closed = (shown = mounted)]]
  /\ mounted' = 0
  /\ shown' = 0
  /\ UNCHANGED <<store, jobs, hook, view, history>>

\* Its cleanup, and that of the hooks.
Unmount ==
  /\ Event
  /\ mounted # 0
  /\ inst' = [inst EXCEPT ![mounted] =
                [@ EXCEPT !.cancelled = TRUE, !.closed = (shown = mounted)]]
  /\ mounted' = 0
  /\ shown' = 0
  /\ view' = NoView
  /\ UNCHANGED <<store, jobs, hook, history>>

\* Engine i has one more job.
Engage(i, job) ==
  /\ Event
  /\ jobs' = [jobs EXCEPT ![i] = Append(@, job)]
  /\ UNCHANGED <<store, inst, ui, issued, recorded, overlapped, swept>>
  /\ Remember

\* insert, update or delete of the space shown.
Mutate(w) == shown # 0 /\ Engage(shown, [does |-> "write", write |-> w])

\* compact, with or without tombstones.
Compact(does) == shown # 0 /\ Engage(shown, [does |-> does])

Listening(i) == inst[i].listening /\ ~inst[i].closed

\* Ops from a peer, to a space that may still be opening.
Hear(i, ops) == Listening(i) /\ Engage(i, [does |-> "receive", ops |-> ops])

\* A since or an ack from a peer.
Record(i, r) ==
  /\ Event
  /\ Listening(i)
  /\ Make([by |-> i, at |-> "getPeers", peer |-> r.peer, have |-> r.have])
  /\ overlapped' = (overlapped \/ \E k \in DOMAIN calls : calls[k].at \in {"getPeers", "setPeers"})
  /\ UNCHANGED <<adapter, db, inst, jobs, ui, issued, recorded, crowded, swept>>

\* The process dies, in SQLite also between a promise and the next.
Crash ==
  /\ events < MaxEvents
  /\ events' = events + 1
  /\ calls' = <<>>
  /\ inst' = [i \in Slot |-> Unused]
  /\ jobs' = [i \in Slot |-> <<>>]
  /\ mounted' = 0
  /\ shown' = 0
  /\ view' = NoView
  /\ UNCHANGED <<adapter, db, hook, history, faults>>

-----------------------------------------------------------------------------
Serve(k) ==
  \/ OpenDb(k) \/ GetKey(k) \/ SetKey(k)
  \/ CallFactory(k) \/ MakeTransport(k) \/ Finish(k)
  \/ ReadDone(k) \/ WriteDone(k)
  \/ GetPeersDone(k) \/ SetPeersDone(k)
  \/ ListDone(k) \/ RowDone(k)

Running ==
  \/ \E k \in DOMAIN calls : Ready(k) /\ Serve(k)
  \/ \E i \in Slot : Begin(i)
  \/ RunEffect

Failing == \E k \in DOMAIN calls : Ready(k) /\ (OpenFails(k) \/ WriteFails(k))

Happening ==
  \/ \E i \in Slot : Mount(i)
  \/ Unmount
  \/ \E w \in Writes : Mutate(w)
  \/ \E does \in {"compact", "collect"} : Compact(does)
  \/ \E i \in Slot, ops \in RemoteOps : Hear(i, ops)
  \/ \E i \in Slot, r \in Recordings : Record(i, r)
  \/ Crash

SpacesNext == Running \/ Failing \/ Happening

\* The database answers and the event loop runs what waits for the answer.
SpacesSpec == SpacesInit /\ [][SpacesNext]_spaceVars /\ WF_spaceVars(Running)

-----------------------------------------------------------------------------
\* "A restart keeps the same device rather than minting a new one" (engine.ts,
\* open): all this device ever wrote is under the key in its database, and a
\* space that is shown writes under no other, whatever was remounted or
\* killed while a key was being claimed. No more than two openings may
\* overlap: of three over a fresh IndexedDB the second may store its key when
\* the third has already found the first's.
OneIdentity ==
  /\ \A o \in issued : Author(o) = db.key
  /\ shown # 0 => inst[shown].key = db.key

\* Log, cells, frontier and clock belong together, whatever fails or dies, as
\* long as no engine had a job while another one was not closed. With two, one
\* may commit what the other read before, or a clock behind the log.
OneWriterAgrees == ~crowded => LogAndCellsAgree

\* An id names one op: no two writes of this device share a stamp, across
\* remounts, aborted writes and crashes. With two engines at work the clock
\* stored may be one of the past, which the next start would go on from.
StampsUnique == ~crowded => \A o, p \in issued : o.stamp = p.stamp => o = p

\* A space that opened is the one shown or is closed: an unmount while it was
\* opening leaves no engine behind, and a component is never shown a space
\* that another mount opened or that is closed.
OneLiveSpace ==
  /\ \A i \in Slot : inst[i].at = "open" /\ ~inst[i].closed => shown = i
  /\ shown # 0 => mounted = shown /\ inst[shown].at = "open" /\ ~inst[shown].closed

\* "Live view": once nothing is under way a hook shows what the database
\* holds, whatever was committed while it was subscribing or reading. Two
\* things are excepted. A hook is not told of what another engine commits. And
\* collecting deleted rows shortens the refreshes that list the table later: one
\* that lists it before may then end after them, and set what it read earlier.
ViewSettles ==
  Quiet /\ shown # 0 /\ ~crowded /\ ~swept =>
    /\ ~view.loading
    /\ view.rows = View(IF hook = "rows" THEN db.cells ELSE GetRow(db, TheRow))

\* "Last known frontier of each peer" (storage.ts): every recording that was
\* stored is still there, unless two of them overlapped.
RecordsKept == ~overlapped => db.peers = recorded

\* A component that stays mounted over storage that works comes to show its
\* space, and the hook its rows.
EventuallyReady ==
  []<>(\/ mounted = 0
       \/ inst[mounted].at = "failed"
       \/ shown = mounted /\ view.of = mounted /\ ~view.loading)
=============================================================================
