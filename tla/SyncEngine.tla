----------------------------- MODULE SyncEngine -----------------------------
(***************************************************************************)
(* The replica of packages/core/src/engine.ts with its storage: local      *)
(* writes, remote batches, the clock, the key directory, peer frontiers,   *)
(* compaction and restarts, for every device of a space at once.           *)
(*                                                                         *)
(* The network is left open: a remote batch is any set of ops issued so    *)
(* far, delivered late, twice or out of order. Replicator.tla closes it.   *)
(*                                                                         *)
(* The engine's mutex makes update, applyRemoteOps, observeRemoteClock and *)
(* compact critical sections. A section whose steps a crash, a failure or  *)
(* an unlocked call can come between is split at that point: an update     *)
(* holds the lock while draft is non-empty, a compaction while compacting  *)
(* is TRUE.                                                                *)
(***************************************************************************)
EXTENDS Ops

CONSTANTS Writes,       \* the writes an application makes
          Times,        \* readings of the physical clock: any, in any order
          MaxBatch,     \* MAX_BATCH_OPS
          Compactions,  \* values of includeTombstones the application passes
          MaxOps        \* bound: ops issued in a behaviour

ASSUME EngineAssumption ==
  /\ Writes \subseteq Write
  /\ Times \subseteq Nat
  /\ MaxBatch \in Nat
  /\ Compactions \subseteq BOOLEAN
  /\ MaxOps \in Nat

VARIABLES
  \* in storage
  log,            \* the op log
  cells,          \* winning op of each cell
  frontier,       \* highest stamp applied, per author
  disk,           \* the persisted clock
  peerFrontiers,  \* last frontier recorded of each known peer
  \* in memory
  mem,            \* the running clock
  keys,           \* devices whose public key is known
  draft,          \* ops an update has built and not committed
  compacting,     \* a compaction holds the lock
  settled,        \* ops that compaction found at or below its horizon
  \* history
  applied         \* every op ever committed at the replica

stored == <<log, cells, frontier, disk, peerFrontiers>>
memory == <<mem, keys, draft, compacting, settled>>
vars == <<stored, memory, applied>>

TypeOK ==
  /\ log \in [Device -> SUBSET Op]
  /\ cells \in [Device -> SUBSET Op]
  /\ frontier \in [Device -> Frontier]
  /\ disk \in [Device -> Clock]
  /\ DOMAIN peerFrontiers = Device
  /\ \A r \in Device :
       /\ DOMAIN peerFrontiers[r] \subseteq Device \ {r}
       /\ peerFrontiers[r] \in [DOMAIN peerFrontiers[r] -> Frontier]
  /\ mem \in [Device -> Clock]
  /\ keys \in [Device -> SUBSET Device]
  /\ draft \in [Device -> SUBSET Op]
  /\ compacting \in [Device -> BOOLEAN]
  /\ settled \in [Device -> SUBSET Op]
  /\ applied \in [Device -> SUBSET Op]

\* A fresh store: the constructor seeds the directory with the own key.
Init ==
  /\ log = [r \in Device |-> {}]
  /\ cells = [r \in Device |-> {}]
  /\ frontier = [r \in Device |-> EmptyFrontier]
  /\ disk = [r \in Device |-> FreshClock]
  /\ peerFrontiers = [r \in Device |-> [p \in {} |-> EmptyFrontier]]
  /\ mem = [r \in Device |-> FreshClock]
  /\ keys = [r \in Device |-> {r}]
  /\ draft = [r \in Device |-> {}]
  /\ compacting = [r \in Device |-> FALSE]
  /\ settled = [r \in Device |-> {}]
  /\ applied = [r \in Device |-> {}]

Issued == UNION {applied[r] : r \in Device}

\* The mutex is free: no update and no compaction is under way.
Unlocked(r) == draft[r] = {} /\ ~compacting[r]

-----------------------------------------------------------------------------
\* Local writes.

\* makeLocalOp for one column of an update (or for the tombstone of a
\* delete, an update of the one column "-"). The columns are an object's
\* keys, so they differ, and the row is the update's. now() throws when the
\* clock leaves its bounds and is not called again until a restart.
MakeLocalOp(r, w, pt) ==
  /\ ~compacting[r]
  /\ \A o \in draft[r] : o.row = w.row /\ o.column # w.column
  /\ Cardinality(Issued \cup UNION {draft[q] : q \in Device}) < MaxOps
  /\ InBounds(mem[r])
  /\ mem' = [mem EXCEPT ![r] = Now(mem[r], pt)]
  /\ InBounds(mem'[r])
  /\ draft' = [draft EXCEPT ![r] = @ \cup {OpOf(StampOf(mem'[r], r), w)}]
  /\ UNCHANGED <<stored, keys, compacting, settled, applied>>

\* makeLocalOp throws, from checkBounds or from validateOp: the whole update
\* is dropped and the clock keeps the readings it issued.
RejectLocalOp(r, pt) ==
  /\ ~compacting[r]
  /\ InBounds(mem[r])
  /\ mem' = [mem EXCEPT ![r] = Now(mem[r], pt)]
  /\ draft' = [draft EXCEPT ![r] = {}]
  /\ UNCHANGED <<stored, keys, compacting, settled, applied>>

\* Faulty variant: the op that arrives last wins its cell.
ApplyBatchLastArrivalWins(r, ops, clock) ==
  /\ log' = [log EXCEPT ![r] = @ \cup ops]
  /\ cells' = [cells EXCEPT
       ![r] = {o \in @ : \A p \in ops : ~SameCell(o, p)} \cup Winners(ops)]
  /\ frontier' = [frontier EXCEPT ![r] = Advance(@, ops)]
  /\ disk' = [disk EXCEPT ![r] = clock]
  /\ applied' = [applied EXCEPT ![r] = @ \cup ops]
  /\ UNCHANGED peerFrontiers

\* applyBatch, which commit and the two clock-only writes share: it logs the
\* ops, replaces the cells they win, advances the frontier and persists the
\* clock, all at once.
ApplyBatch(r, ops, clock) ==
  /\ log' = [log EXCEPT ![r] = @ \cup ops]
  /\ cells' = [cells EXCEPT ![r] = Winners(@ \cup ops)]
  /\ frontier' = [frontier EXCEPT ![r] = Advance(@, ops)]
  /\ disk' = [disk EXCEPT ![r] = clock]
  /\ applied' = [applied EXCEPT ![r] = @ \cup ops]
  /\ UNCHANGED peerFrontiers

\* Faulty variant: the clock is not part of the batch, so a restart may find
\* an older one.
CommitLocalWithoutClock(r) ==
  /\ ~compacting[r]
  /\ ApplyBatch(r, draft[r], disk[r])
  /\ draft' = [draft EXCEPT ![r] = {}]
  /\ UNCHANGED <<mem, keys, compacting, settled>>

\* commit of the update. An update of no columns commits too, and persists
\* the clock.
CommitLocal(r) ==
  /\ ~compacting[r]
  /\ ApplyBatch(r, draft[r], mem[r])
  /\ draft' = [draft EXCEPT ![r] = {}]
  /\ UNCHANGED <<mem, keys, compacting, settled>>

\* applyBatch rejects: nothing is stored, the lock is released.
CommitFails(r) ==
  /\ draft[r] # {}
  /\ draft' = [draft EXCEPT ![r] = {}]
  /\ UNCHANGED <<stored, mem, keys, compacting, settled, applied>>

-----------------------------------------------------------------------------
\* Remote batches and remote clocks.

\* receive() in a critical section that then fails, in checkBounds or in
\* storage: only the running clock has moved.
ReceiveFails(r, stamp, pt) ==
  /\ Unlocked(r)
  /\ InBounds(mem[r])
  /\ DriftOk(stamp, pt)
  /\ mem' = [mem EXCEPT ![r] = Receive(mem[r], stamp, pt)]
  /\ UNCHANGED <<stored, keys, draft, compacting, settled, applied>>

\* The checks made before the lock is taken: batch size, and a known key for
\* every author. A batch that fails them is rejected whole.
Acceptable(r, ops) ==
  /\ ops # {}
  /\ IsFiniteSet(ops)
  /\ Cardinality(ops) <= MaxBatch
  /\ \A o \in ops : Author(o) \in keys[r]

\* applyRemoteOps: receive() the newest stamp, drop the ops already logged,
\* commit the rest. With nothing fresh only the clock is persisted.
ApplyRemoteOps(r, ops, pt) ==
  /\ Acceptable(r, ops)
  /\ Unlocked(r)
  /\ InBounds(mem[r])
  /\ \E newest \in ops :
       /\ \A o \in ops : Leq(o.stamp, newest.stamp)
       /\ DriftOk(newest.stamp, pt)
       /\ mem' = [mem EXCEPT ![r] = Receive(mem[r], newest.stamp, pt)]
  /\ InBounds(mem'[r])
  /\ ApplyBatch(r, ops \ log[r], mem'[r])
  /\ UNCHANGED <<keys, draft, compacting, settled>>

\* observeRemoteClock: the stamp of a hello moves and persists the clock.
ObserveRemoteClock(r, stamp, pt) ==
  /\ Unlocked(r)
  /\ InBounds(mem[r])
  /\ DriftOk(stamp, pt)
  /\ mem' = [mem EXCEPT ![r] = Receive(mem[r], stamp, pt)]
  /\ InBounds(mem'[r])
  /\ ApplyBatch(r, {}, mem'[r])
  /\ UNCHANGED <<keys, draft, compacting, settled>>

\* learnKey of ids with the keys they hash to; any other pair is refused.
LearnKeys(r, ids) ==
  /\ keys' = [keys EXCEPT ![r] = @ \cup ids]
  /\ UNCHANGED <<stored, mem, draft, compacting, settled, applied>>

\* recordPeerFrontier: outside the mutex, and overwriting.
RecordPeerFrontier(r, p, f) ==
  /\ p # r
  /\ peerFrontiers' = [peerFrontiers EXCEPT
       ![r] = [q \in DOMAIN @ \cup {p} |-> IF q = p THEN f ELSE @[q]]]
  /\ UNCHANGED <<log, cells, frontier, disk, memory, applied>>

-----------------------------------------------------------------------------
\* Compaction.

\* At or below compactionHorizon: seen, by their frontiers, by the replica
\* itself and by every peer it has recorded.
BelowHorizon(r, o) ==
  /\ ~Above(o, frontier[r])
  /\ \A p \in DOMAIN peerFrontiers[r] : ~Above(o, peerFrontiers[r][p])

\* compact() takes the lock and reads the frontiers. recordPeerFrontier does
\* not take the lock, so what it records from here on is not seen.
CompactBegin(r) ==
  /\ Unlocked(r)
  /\ compacting' = [compacting EXCEPT ![r] = TRUE]
  /\ settled' = [settled EXCEPT
       ![r] = {o \in log[r] \cup cells[r] : BelowHorizon(r, o)}]
  /\ UNCHANGED <<stored, mem, keys, draft, applied>>

\* Pass 1 of planCompaction: rows whose tombstone and whose every logged op
\* have settled.
DoomedRows(r) ==
  {o.row : o \in {w \in cells[r] \cap settled[r] : w.column = Tombstone /\ w.value}}
    \ {o.row : o \in log[r] \ settled[r]}

\* Faulty variant: the ops of a doomed row go, its cells stay.
ReclaimLogOnly(r, doomed) ==
  /\ log' = [log EXCEPT
       ![r] = {o \in @ : o.row \notin doomed /\ (o \in settled[r] => o \in cells[r])}]
  /\ UNCHANGED cells

\* Faulty variant: the tombstone is forgotten and the row's other cells stay.
ReclaimTombstoneOnly(r, doomed) ==
  /\ log' = [log EXCEPT
       ![r] = {o \in @ : o.row \notin doomed /\ (o \in settled[r] => o \in cells[r])}]
  /\ cells' = [cells EXCEPT
       ![r] = {o \in @ : o.row \notin doomed \/ o.column # Tombstone}]

\* Pass 2 and the sweep: superseded settled ops go, and doomed rows go whole,
\* ops and cells.
Reclaim(r, doomed) ==
  /\ log' = [log EXCEPT
       ![r] = {o \in @ : o.row \notin doomed /\ (o \in settled[r] => o \in cells[r])}]
  /\ cells' = [cells EXCEPT ![r] = {o \in @ : o.row \notin doomed}]

\* planCompaction and the storage's compact(), one transaction.
CompactEnd(r, includeTombstones) ==
  /\ compacting[r]
  /\ Reclaim(r, IF includeTombstones THEN DoomedRows(r) ELSE {})
  /\ compacting' = [compacting EXCEPT ![r] = FALSE]
  /\ settled' = [settled EXCEPT ![r] = {}]
  /\ UNCHANGED <<frontier, disk, peerFrontiers, mem, keys, draft, applied>>

\* A dry run, or a storage that rejects: the lock is released.
CompactAbandon(r) ==
  /\ compacting[r]
  /\ compacting' = [compacting EXCEPT ![r] = FALSE]
  /\ settled' = [settled EXCEPT ![r] = {}]
  /\ UNCHANGED <<stored, mem, keys, draft, applied>>

-----------------------------------------------------------------------------
\* The process dies and open() runs again over the same storage: the clock
\* is the persisted one, the directory holds the own key only.
Restart(r) ==
  /\ mem' = [mem EXCEPT ![r] = disk[r]]
  /\ keys' = [keys EXCEPT ![r] = {r}]
  /\ draft' = [draft EXCEPT ![r] = {}]
  /\ compacting' = [compacting EXCEPT ![r] = FALSE]
  /\ settled' = [settled EXCEPT ![r] = {}]
  /\ UNCHANGED <<stored, applied>>

-----------------------------------------------------------------------------
\* The stamps a hello can carry: the newest of some log, or the zero clock of
\* a device whose log is empty.
RemoteStamps == {o.stamp : o \in Issued} \cup {StampOf(FreshClock, d) : d \in Device}

\* What a since or an ack of a peer may say by the time it is handled: entry
\* by entry, something the peer's frontier has been.
Reported(p) ==
  {f \in [Device -> {Zero} \cup {o.stamp : o \in applied[p]}] :
     \A d \in Device : f[d].device \in {0, d}}

\* The steps of one replica, by what drives them: the application writing,
\* the network, a failure, the application compacting.
Writing(r) ==
  \/ \E w \in Writes, pt \in Times : MakeLocalOp(r, w, pt)
  \/ CommitLocal(r)

Receiving(r) ==
  \/ \E ops \in SUBSET Issued, pt \in Times : ApplyRemoteOps(r, ops, pt)
  \/ \E stamp \in RemoteStamps, pt \in Times : ObserveRemoteClock(r, stamp, pt)
  \/ \E ids \in SUBSET Device : LearnKeys(r, ids)

Recording(r) ==
  \E p \in Device : \E f \in Reported(p) : RecordPeerFrontier(r, p, f)

Failing(r) ==
  \/ \E pt \in Times : RejectLocalOp(r, pt)
  \/ CommitFails(r)
  \/ \E stamp \in RemoteStamps, pt \in Times : ReceiveFails(r, stamp, pt)
  \/ Restart(r)

Compacting(r) ==
  \/ CompactBegin(r)
  \/ \E includeTombstones \in Compactions : CompactEnd(r, includeTombstones)
  \/ CompactAbandon(r)

Next ==
  \E r \in Device :
    Writing(r) \/ Receiving(r) \/ Recording(r) \/ Failing(r) \/ Compacting(r)

Spec == Init /\ [][Next]_vars

-----------------------------------------------------------------------------
\* Invariants.

\* now() is documented as strictly greater than every timestamp the clock has
\* issued or observed, and a restart must not reissue one: whatever a replica
\* has applied lies at or below its persisted clock, and that at or below its
\* running clock, as do the ops an update is building. Two distinct ops of
\* one author never share a stamp.
ClockCovers ==
  \A r \in Device :
    /\ \A o \in applied[r] : NotAfter(o.stamp, disk[r])
    /\ NotAfter(disk[r], mem[r])
    /\ \A o \in draft[r] : Earlier(disk[r], o.stamp) /\ NotAfter(o.stamp, mem[r])

\* id = hlc, and hasOp deduplicates by id: no two different ops ever share a
\* stamp, whatever crashes, clock steps and failed commits come between.
UniqueIds ==
  \A o, p \in Issued \cup UNION {draft[r] : r \in Device} :
    o.stamp = p.stamp => o = p

\* The frontier a replica advertises is, per author, exactly the highest
\* stamp it ever applied, compaction and restarts included.
FrontierExact ==
  \A r, d \in Device :
    LET seen == {o \in applied[r] : Author(o) = d}
    IN  /\ \A o \in seen : Leq(o.stamp, frontier[r][d])
        /\ frontier[r][d] = Zero \/ \E o \in seen : o.stamp = frontier[r][d]

\* compact() promises that winners are never dropped (engine.ts) and that a
\* reclaimed row goes whole (compaction.ts): the log holds every winner, and
\* every logged op still has the one winner of its cell beside it.
WinnersLogged ==
  \A r \in Device :
    /\ cells[r] \subseteq log[r]
    /\ \A o \in log[r] : \E w \in cells[r] :
         /\ Leq(o.stamp, w.stamp)
         /\ {v \in cells[r] : SameCell(o, v)} = {w}

\* compact() changes what the log holds and never what a reader sees: a step
\* that removes ops from a log leaves the replica's visible rows as they were.
CompactionKeepsView ==
  [][\A r \in Device :
       ~(log[r] \subseteq log'[r]) => View(cells'[r]) = View(cells[r])]_vars

\* A new op's stamp exceeds every op its author had applied: what a user
\* writes after seeing a value replaces it (hlc.ts, now()).
WritesFollowReads ==
  [][\A r \in Device : \A o \in applied'[r] \ applied[r] :
       Author(o) = r => \A p \in applied[r] : Lt(p.stamp, o.stamp)]_vars

\* Without tombstone collection the replica implements the abstract space:
\* its cells are the merge of everything delivered to it, whatever was
\* compacted, retried, duplicated or interrupted.
Space == INSTANCE LwwSpace WITH delivered <- applied, view <- cells
ImplementsLwwSpace == Space!Spec

\* compaction.ts guards tombstone collection so that no later write can
\* "RESURRECT deleted data": no replica shows a cell that the merge of all it
\* has applied hides behind a tombstone or a newer write.
NoResurrection ==
  \A r \in Device : View(cells[r]) \subseteq View(Winners(applied[r]))
=============================================================================
