------------------------------- MODULE Store -------------------------------
(***************************************************************************)
(* A replica's database behind the storage contract: in IndexedDB          *)
(* (adapter-idb) or in SQLite (adapter-sqlite).                            *)
(*                                                                         *)
(* Every method of an adapter is a promise. A call that has been made and  *)
(* not answered is pending; when it is served it takes effect and whoever  *)
(* awaits it runs on. IndexedDB serves calls that use a common object      *)
(* store in the order they were made, and events come in between. (For two *)
(* reads the standard leaves the order open; that it is kept is assumed.)  *)
(* SQLite works synchronously and its promises settle one after the other  *)
(* before the next event.                                                  *)
(***************************************************************************)
EXTENDS Ops, SequencesExt

VARIABLES adapter,  \* "indexeddb" or "sqlite"
          db,       \* the database: what a crash leaves
          calls     \* the pending calls, in the order they were made

NoKey == 0

\* A database that has just been created. Its ops, cells and (the other
\* fields) meta are the object stores, or tables.
EmptyDb ==
  [ops |-> {}, cells |-> {}, frontier |-> EmptyFrontier, clock |-> FreshClock,
   peers |-> [p \in {} |-> EmptyFrontier], key |-> NoKey]

-----------------------------------------------------------------------------
\* Writing. A transaction gives the parts it writes what it puts there.

Entry(tx, part, otherwise) == IF part \in DOMAIN tx THEN tx[part] ELSE otherwise

\* A winner replaces the one that was stored for its cell.
PutWinners(cells, winners) ==
  {o \in cells : \A w \in winners : ~SameCell(o, w)} \cup winners

\* The cells whose keys are not deleted.
KeepCells(cells, cleared) == {o \in cells : \A c \in cleared : ~SameCell(o, c)}

\* What its puts or statements do. Ops are added or deleted, so are cells by
\* their keys, the rest are values of meta.
Perform(d, tx) ==
  [ops      |-> (d.ops \cup Entry(tx, "ops", {})) \ Entry(tx, "deleted", {}),
   cells    |-> PutWinners(KeepCells(d.cells, Entry(tx, "cleared", {})), Entry(tx, "cells", {})),
   frontier |-> Entry(tx, "frontier", d.frontier),
   clock    |-> Entry(tx, "clock", d.clock),
   peers    |-> Entry(tx, "peers", d.peers),
   key      |-> Entry(tx, "key", d.key)]

\* Faulty variant: the clock is not written with the batch.
BatchPutsWithoutClock(batch) ==
  [ops |-> batch.ops, cells |-> batch.winners, frontier |-> batch.frontier]

\* applyBatch: the ops, the winners, the frontier and the clock.
BatchPuts(batch) ==
  [ops |-> batch.ops, cells |-> batch.winners,
   frontier |-> batch.frontier, clock |-> batch.clock]

\* compact: the ops and the cells its plan names.
CompactPuts(plan) == [deleted |-> plan.ops, cleared |-> plan.cells]

\* Faulty variant: a transaction for each object store.
IdbTransactionPerStore(puts) ==
  LET parts == SetToSeq(DOMAIN puts)
  IN  [n \in DOMAIN parts |-> [part \in {parts[n]} |-> puts[part]]]

\* All requests are queued on one transaction.
IdbTransaction(puts) == <<puts>>

\* BEGIN IMMEDIATE, the statements, COMMIT; or ROLLBACK.
SqliteTransaction(puts) == <<puts>>

\* The transactions that puts are made in.
Transactions(puts) ==
  IF adapter = "sqlite" THEN SqliteTransaction(puts) ELSE IdbTransaction(puts)

\* Faulty variant: only the newest record of a peer frontier is written back.
SpreadNone(peers, p, have) == [q \in {p} |-> have]

\* setPeerFrontier, second half: what was read, with one entry changed.
Spread(peers, p, have) ==
  [q \in DOMAIN peers \cup {p} |-> IF q = p THEN have ELSE peers[q]]

-----------------------------------------------------------------------------
\* Reading.

ListRows(d) == {o.row : o \in d.cells}
GetRow(d, row) == {o \in d.cells : o.row = row}

InOrder(S) == SetToSortSeq(S, LAMBDA o, p : Lt(o.stamp, p.stamp))

\* IndexedDB's opsSince: a cursor over all ops in the order of their ids. A
\* device the frontier does not name has seen nothing.
Wanted(o, have) ==
  Author(o) \notin DOMAIN have \/ Lt(have[Author(o)], o.stamp)
IdbOpsSince(d, have) == SelectSeq(InOrder(d.ops), LAMBDA o : Wanted(o, have))

\* Faulty variant: only the devices the frontier names are asked for.
SqliteOpsSinceNamed(d, have) ==
  LET above(v) == InOrder({o \in d.ops : Author(o) = v /\ Lt(have[v], o.stamp)})
      found == FlattenSeq([n \in 1 .. Cardinality(DOMAIN have) |->
                             above(SetToSeq(DOMAIN have)[n])])
  IN  IF DOMAIN have = {} THEN InOrder(d.ops)
      ELSE SortSeq(found, LAMBDA o, p : Lt(o.stamp, p.stamp))

\* SQLite's opsSince: a query for each device the frontier names, then a scan
\* for the rest, and a sort of it all.
SqliteOpsSince(d, have) ==
  LET above(v) == InOrder({o \in d.ops : Author(o) = v /\ Lt(have[v], o.stamp)})
      found == FlattenSeq([n \in 1 .. Cardinality(DOMAIN have) |->
                             above(SetToSeq(DOMAIN have)[n])])
      rest == SelectSeq(InOrder(d.ops), LAMBDA o :
                Author(o) \notin DOMAIN have /\ ~Contains(found, o))
  IN  IF DOMAIN have = {} THEN InOrder(d.ops)
      ELSE SortSeq(found \o rest, LAMBDA o, p : Lt(o.stamp, p.stamp))

-----------------------------------------------------------------------------
\* Pending calls.

\* The object stores a call's transaction is opened on. Requests to open a
\* database queue for it, too, and what a transport factory awaits for nothing.
\* (A compaction's write names meta here and does not in the code: it touches
\* nothing there, so their order is all the same.)
Scope(call) ==
  CASE call.at \in {"getKey", "setKey", "getClock", "getPeers", "setPeers"} -> {"meta"}
    [] call.at \in {"list", "row"} -> {"cells"}
    [] call.at = "hello" -> {"ops"}
    [] call.at \in {"read", "write"} -> {"ops", "cells", "meta"}
    [] call.at = "openDb" -> {"database"}
    [] call.at = "make" -> {}

Waits(call) == Scope(call) # {}

Ready(k) ==
  IF adapter = "sqlite" THEN Waits(calls[k]) => \A j \in 1 .. k - 1 : ~Waits(calls[j])
  ELSE \A j \in 1 .. k - 1 : Scope(calls[j]) \cap Scope(calls[k]) = {}

\* Call k is answered, and its caller goes on to make the calls `next`.
Answer(k, next) == calls' = RemoveAt(calls, k) \o next
Make(call) == calls' = Append(calls, call)

-----------------------------------------------------------------------------
\* "A crash mid-apply must never leave the log and materialized state
\* disagreeing" (PROTOCOL.md 8.2): between any two transactions the cells are
\* the winners of the log, and frontier and clock cover it.
LogAndCellsAgree ==
  /\ db.cells = Winners(db.ops)
  /\ \A o \in db.ops : ~Above(o, db.frontier) /\ NotAfter(o.stamp, db.clock)

\* The frontiers a peer may send: what it has of the ops stored here, and
\* perhaps of an author nobody here has heard of.
SomeFrontiers ==
  LET authors == {Author(o) : o \in db.ops}
  IN  UNION {[A \cup B -> {o.stamp : o \in db.ops}] :
               A \in SUBSET authors, B \in {{}} \cup {{d} : d \in Device \ authors}}

\* SQLite answers opsSince through its index and must answer as a scan of the
\* whole log does: "every stored op strictly above `frontier`, sorted by hlc"
\* (storage.ts), each once, whichever authors the frontier names.
OpsSinceExact ==
  adapter = "sqlite" /\ calls = <<>> =>
    \A have \in SomeFrontiers : SqliteOpsSince(db, have) = IdbOpsSince(db, have)
============================================================================
