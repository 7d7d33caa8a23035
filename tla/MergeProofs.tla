---------------------------- MODULE MergeProofs ----------------------------
(***************************************************************************)
(* Theorems of SyncEngine about what a replica stores, for every value of  *)
(* the constants: the frontier, the winners a log holds, what compaction   *)
(* leaves visible, and the abstract space a replica implements.            *)
(*                                                                         *)
(* Only applyBatch and compact change the stored data. Each theorem is     *)
(* proved for those two, in states that satisfy IInv, and StoreStep        *)
(* carries it to every step.                                               *)
(***************************************************************************)
EXTENDS SyncEngineProofs

\* A batch: of the replica's own draft, or of ops issued before.
BatchStep(r, S) ==
  /\ S \subseteq Op
  /\ IsFiniteSet(S)
  /\ S = draft[r] \/ S \subseteq Issued
  /\ log' = [log EXCEPT ![r] = @ \cup S]
  /\ cells' = [cells EXCEPT ![r] = Winners(@ \cup S)]
  /\ frontier' = [frontier EXCEPT ![r] = Advance(@, S)]
  /\ applied' = [applied EXCEPT ![r] = @ \cup S]

\* A compaction that reclaims the rows it judged doomed, or none.
CompactStep(r, doomed) ==
  /\ doomed = {} \/ (doomed = DoomedRows(r) /\ TRUE \in Compactions)
  /\ Reclaim(r, doomed)
  /\ UNCHANGED <<frontier, applied>>

\* A write commits its draft, or stores nothing.
LEMMA WritingStores ==
  ASSUME IInv, NEW r \in Device, Writing(r)
  PROVE  UNCHANGED <<log, cells, frontier, applied>> \/ BatchStep(r, draft[r])
<1>1. CASE \E w \in Writes, pt \in Times : MakeLocalOp(r, w, pt)
  BY <1>1 DEF MakeLocalOp, stored
<1>2. CASE CommitLocal(r)
  <2>1. draft[r] \subseteq Op /\ IsFiniteSet(draft[r])
    BY DEF IInv, TypeOK, Finite
  <2>. QED  BY <1>2, <2>1 DEF CommitLocal, ApplyBatch, BatchStep
<1>. QED  BY <1>1, <1>2 DEF Writing

\* A remote batch commits what is not in the log.
LEMMA RemoteStores ==
  ASSUME IInv, NEW r \in Device, NEW ops \in SUBSET Issued, NEW pt, ApplyRemoteOps(r, ops, pt)
  PROVE  BatchStep(r, ops \ log[r])
<1>1. ops \ log[r] \subseteq Op /\ ops \ log[r] \subseteq Issued
  BY IssuedType DEF IInv
<1>2. IsFiniteSet(ops \ log[r])
  BY FS_Subset DEF ApplyRemoteOps, Acceptable
<1>. QED  BY <1>1, <1>2 DEF ApplyRemoteOps, ApplyBatch, BatchStep

\* Every step is one of the two, or leaves the stored data alone.
LEMMA StoreStep ==
  ASSUME IInv, [Next]_vars
  PROVE  \/ UNCHANGED <<log, cells, frontier, applied>>
         \/ \E r \in Device : \E S : BatchStep(r, S)
         \/ \E r \in Device : \E doomed : CompactStep(r, doomed)
<1>1. CASE UNCHANGED vars
  BY <1>1 DEF vars, stored
<1>2. ASSUME NEW r \in Device, Writing(r)
      PROVE  \/ UNCHANGED <<log, cells, frontier, applied>>
             \/ \E S : BatchStep(r, S)
  BY <1>2, WritingStores
<1>3. ASSUME NEW r \in Device, Receiving(r)
      PROVE  \/ UNCHANGED <<log, cells, frontier, applied>>
             \/ \E S : BatchStep(r, S)
  <2>1. ASSUME NEW ops \in SUBSET Issued, NEW pt \in Times, ApplyRemoteOps(r, ops, pt)
        PROVE  BatchStep(r, ops \ log[r])
    BY <2>1, RemoteStores
  <2>2. ASSUME NEW stamp \in RemoteStamps, NEW pt \in Times,
               ObserveRemoteClock(r, stamp, pt)
        PROVE  BatchStep(r, {})
    BY <2>2, FS_EmptySet DEF ObserveRemoteClock, ApplyBatch, BatchStep
  <2>3. CASE \E ids \in SUBSET Device : LearnKeys(r, ids)
    BY <2>3 DEF LearnKeys, stored
  <2>. QED  BY <1>3, <2>1, <2>2, <2>3 DEF Receiving
<1>4. ASSUME NEW r \in Device, Recording(r) \/ Failing(r)
      PROVE  UNCHANGED <<log, cells, frontier, applied>>
  BY <1>4 DEF Recording, RecordPeerFrontier, Failing, RejectLocalOp, CommitFails,
              ReceiveFails, Restart, stored
<1>5. ASSUME NEW r \in Device, Compacting(r)
      PROVE  \/ UNCHANGED <<log, cells, frontier, applied>>
             \/ \E doomed : CompactStep(r, doomed)
  <2>1. CASE CompactBegin(r) \/ CompactAbandon(r)
    BY <2>1 DEF CompactBegin, CompactAbandon, stored
  <2>2. ASSUME NEW includeTombstones \in Compactions, CompactEnd(r, includeTombstones)
        PROVE  CompactStep(r, IF includeTombstones THEN DoomedRows(r) ELSE {})
    <3>1. CASE includeTombstones = TRUE
      BY <2>2, <3>1 DEF CompactEnd, CompactStep
    <3>2. CASE includeTombstones = FALSE
      BY <2>2, <3>2 DEF CompactEnd, CompactStep
    <3>. QED  BY <3>1, <3>2, EngineAssumption
  <2>. QED  BY <1>5, <2>1, <2>2 DEF Compacting
<1>. QED  BY <1>1, <1>2, <1>3, <1>4, <1>5 DEF Next

-----------------------------------------------------------------------------
\* The frontier.

\* Fresh replicas have seen nothing.
LEMMA FrontierInit ==
  ASSUME Init
  PROVE  FrontierExact
BY DEF Init, FrontierExact, EmptyFrontier

\* A batch raises each entry to the newest stamp applied, and no other step
\* touches frontier or history.
LEMMA FrontierStep ==
  ASSUME IInv, FrontierExact, [Next]_vars
  PROVE  FrontierExact'
<1>1. ASSUME NEW r \in Device, NEW S, BatchStep(r, S)  PROVE FrontierExact'
  <2>. SUFFICES ASSUME NEW q \in Device, NEW d \in Device
       PROVE  LET seen == {o \in applied'[q] : Author(o) = d}
              IN  /\ \A o \in seen : Leq(o.stamp, frontier'[q][d])
                  /\ frontier'[q][d] = Zero \/ \E o \in seen : o.stamp = frontier'[q][d]
    BY DEF FrontierExact
  <2>1. CASE q # r
    BY <1>1, <2>1 DEF BatchStep, FrontierExact, IInv, TypeOK
  <2>2. CASE q = r
    <3>. DEFINE f == frontier[r]
                g == Advance(f, S)
    <3>1. f \in Frontier /\ applied'[r] = applied[r] \cup S /\ frontier'[r] = g
      BY <1>1 DEF BatchStep, IInv, TypeOK
    <3>2. /\ Leq(f[d], g[d])
          /\ \A h \in StampsBy(S, d) : Leq(h, g[d])
          /\ g[d] \in {f[d]} \cup StampsBy(S, d)
          /\ g \in Frontier
      BY <1>1, <3>1, AdvanceIsLargest DEF BatchStep
    <3>3. f[d] \in StampOrZero /\ g[d] \in StampOrZero
      BY <3>1, <3>2 DEF Frontier
    <3>. HIDE DEF f, g
    <3>4. ASSUME NEW o \in applied'[r], Author(o) = d  PROVE Leq(o.stamp, g[d])
      <4>1. CASE o \in S
        BY <3>2, <3>4, <4>1 DEF StampsBy
      <4>2. CASE o \in applied[r]
        <5>1. Leq(o.stamp, f[d])
          BY <3>4, <4>2 DEF FrontierExact, f
        <5>2. o.stamp \in StampOrZero
          BY <4>2 DEF IInv, TypeOK, Op, StampOrZero
        <5>. QED  BY <3>2, <3>3, <5>1, <5>2, LeqTotalOrder
      <4>. QED  BY <3>1, <4>1, <4>2
    <3>5. g[d] = Zero \/ \E o \in applied'[r] : Author(o) = d /\ o.stamp = g[d]
      <4>1. CASE g[d] = f[d]
        BY <3>1, <4>1 DEF FrontierExact, f
      <4>2. CASE g[d] \in StampsBy(S, d)
        BY <3>1, <4>2 DEF StampsBy
      <4>. QED  BY <3>2, <4>1, <4>2
    <3>. QED  BY <2>2, <3>1, <3>4, <3>5
  <2>. QED  BY <2>1, <2>2
<1>2. ASSUME UNCHANGED <<frontier, applied>>  PROVE FrontierExact'
  BY <1>2 DEF FrontierExact
<1>. QED  BY <1>1, <1>2, StoreStep DEF CompactStep

\* A frontier is, per author, exactly the newest stamp ever applied: neither
\* an old batch, nor a compaction, nor a restart moves it off (op.ts
\* advanceFrontier, engine.ts commit).
THEOREM FrontiersAreExact == Spec => []FrontierExact
<1>1. Init => IInv /\ FrontierExact
  BY IInvInit, FrontierInit
<1>2. IInv /\ FrontierExact /\ [Next]_vars => IInv' /\ FrontierExact'
  BY IInvStep, FrontierStep
<1>. QED  BY <1>1, <1>2, PTL DEF Spec

-----------------------------------------------------------------------------
\* The winners of a cell.

\* No two winners share a cell, ids being unique.
LEMMA WinnerIsUnique ==
  ASSUME NEW S, S \subseteq Op, \A o, p \in S : o.stamp = p.stamp => o = p,
         NEW v \in Winners(S), NEW w \in Winners(S), SameCell(v, w)
  PROVE  v = w
<1>1. v \in S /\ w \in S /\ Leq(v.stamp, w.stamp) /\ Leq(w.stamp, v.stamp)
  BY DEF Winners, SameCell
<1>2. v.stamp \in StampOrZero /\ w.stamp \in StampOrZero
  BY <1>1 DEF Op, StampOrZero
<1>. QED  BY <1>1, <1>2, LeqTotalOrder

\* The ops a batch step brings together have unique ids.
LEMMA BatchIds ==
  ASSUME IInv, NEW r \in Device, NEW S, BatchStep(r, S)
  PROVE  /\ applied[r] \cup S \subseteq Op
         /\ IsFiniteSet(applied[r] \cup S)
         /\ \A o, p \in applied[r] \cup S : o.stamp = p.stamp => o = p
<1>1. applied[r] \subseteq Op /\ IsFiniteSet(applied[r])
  BY DEF IInv, TypeOK, Finite
<1>2. S \subseteq Op /\ IsFiniteSet(S)
  BY DEF BatchStep
<1>3. applied[r] \cup S \subseteq Issued \cup UNION {draft[q] : q \in Device}
  BY DEF BatchStep, Issued
<1>4. \A o, p \in applied[r] \cup S : o.stamp = p.stamp => o = p
  BY <1>3 DEF IInv, UniqueIds
<1>. QED  BY <1>1, <1>2, <1>4, FS_Union

-----------------------------------------------------------------------------
\* Compaction.

\* Fresh replicas have no ops.
LEMMA WinnersInit ==
  ASSUME Init
  PROVE  WinnersLogged
BY DEF Init, WinnersLogged

\* A batch logs what it merges; a compaction spares winners, and takes a row's
\* ops and cells together.
LEMMA WinnersStep ==
  ASSUME IInv, WinnersLogged, [Next]_vars
  PROVE  WinnersLogged'
<1>1. ASSUME NEW r \in Device, NEW S, BatchStep(r, S)  PROVE WinnersLogged'
  <2>. DEFINE C == cells[r] \cup S
  <2>1. /\ log'[r] = log[r] \cup S
        /\ cells'[r] = Winners(C)
        /\ \A q \in Device \ {r} : log'[q] = log[q] /\ cells'[q] = cells[q]
    BY <1>1 DEF BatchStep, IInv, TypeOK
  <2>2. C \subseteq applied[r] \cup S
    BY DEF IInv, Origin
  <2>3. /\ C \subseteq Op
        /\ IsFiniteSet(C)
        /\ \A o, p \in C : o.stamp = p.stamp => o = p
    BY <1>1, <2>2, BatchIds, FS_Subset
  <2>4. log'[r] \subseteq Op
    BY <1>1, <2>1, BatchIds DEF IInv, Origin
  <2>. HIDE DEF C
  <2>5. cells'[r] \subseteq log'[r]
    BY <2>1 DEF Winners, WinnersLogged, C
  <2>6. ASSUME NEW o \in log'[r]
        PROVE  \E w \in cells'[r] :
                 Leq(o.stamp, w.stamp) /\ {v \in cells'[r] : SameCell(o, v)} = {w}
    <3>1. PICK x \in C : SameCell(o, x) /\ Leq(o.stamp, x.stamp)
      <4>1. CASE o \in S
        <5>1. SameCell(o, o) /\ Leq(o.stamp, o.stamp)
          BY DEF SameCell, Leq, SameTime
        <5>. QED  BY <4>1, <5>1 DEF C
      <4>2. CASE o \in log[r]
        <5>1. PICK w \in cells[r] :
                Leq(o.stamp, w.stamp) /\ {v \in cells[r] : SameCell(o, v)} = {w}
          BY <4>2 DEF WinnersLogged
        <5>. QED  BY <5>1 DEF C
      <4>. QED  BY <2>1, <4>1, <4>2
    <3>2. PICK w \in Winners(C) : SameCell(x, w) /\ Leq(x.stamp, w.stamp)
      BY <2>3, WinnerExists
    <3>3. w \in C
      BY <3>2 DEF Winners
    <3>4. Leq(o.stamp, w.stamp)
      <4>1. /\ o.stamp \in StampOrZero
            /\ x.stamp \in StampOrZero
            /\ w.stamp \in StampOrZero
        BY <2>3, <2>4, <3>3 DEF Op, StampOrZero
      <4>. QED  BY <3>1, <3>2, <4>1, LeqTotalOrder
    <3>5. SameCell(o, w)
      BY <3>1, <3>2 DEF SameCell
    <3>6. ASSUME NEW v \in Winners(C), SameCell(o, v)  PROVE v = w
      <4>1. SameCell(v, w)
        BY <3>5, <3>6 DEF SameCell
      <4>. QED  BY <2>3, <4>1, WinnerIsUnique
    <3>. QED  BY <2>1, <3>2, <3>4, <3>5, <3>6
  <2>. QED  BY <2>1, <2>5, <2>6 DEF WinnersLogged
<1>2. ASSUME NEW r \in Device, NEW doomed, CompactStep(r, doomed)
      PROVE  WinnersLogged'
  <2>1. /\ \A o : o \in log'[r] <=>
               /\ o \in log[r] /\ o.row \notin doomed
               /\ o \in settled[r] => o \in cells[r]
        /\ \A o : o \in cells'[r] <=> o \in cells[r] /\ o.row \notin doomed
        /\ \A q \in Device \ {r} : log'[q] = log[q] /\ cells'[q] = cells[q]
    BY <1>2 DEF CompactStep, Reclaim, IInv, TypeOK
  <2>2. cells'[r] \subseteq log'[r]
    BY <2>1 DEF WinnersLogged
  <2>3. ASSUME NEW o \in log'[r]
        PROVE  \E w \in cells'[r] :
                 Leq(o.stamp, w.stamp) /\ {v \in cells'[r] : SameCell(o, v)} = {w}
    <3>1. PICK w \in cells[r] :
            Leq(o.stamp, w.stamp) /\ {v \in cells[r] : SameCell(o, v)} = {w}
      BY <2>1, <2>3 DEF WinnersLogged
    <3>2. w.row = o.row
      BY <3>1 DEF SameCell
    <3>3. w \in cells'[r]
      BY <2>1, <3>2
    <3>. QED  BY <2>1, <3>1, <3>3
  <2>. QED  BY <2>1, <2>2, <2>3 DEF WinnersLogged
<1>3. ASSUME UNCHANGED <<log, cells>>  PROVE WinnersLogged'
  BY <1>3 DEF WinnersLogged
<1>. QED  BY <1>1, <1>2, <1>3, StoreStep

\* The log holds every winner, and beside every logged op the one winner of
\* its cell, through any compaction (engine.ts compact, compaction.ts pass 2).
THEOREM WinnersStayLogged == Spec => []WinnersLogged
<1>1. Init => IInv /\ WinnersLogged
  BY IInvInit, WinnersInit
<1>2. IInv /\ WinnersLogged /\ [Next]_vars => IInv' /\ WinnersLogged'
  BY IInvStep, WinnersStep
<1>. QED  BY <1>1, <1>2, PTL DEF Spec

\* A step that removes ops from a log leaves what readers see as it was: the
\* rows it reclaims were hidden (compaction.ts pass 1).
THEOREM CompactionIsInvisible == Spec => CompactionKeepsView
<1>. DEFINE A == \A r \in Device :
                   ~(log[r] \subseteq log'[r]) => View(cells'[r]) = View(cells[r])
<1>1. ASSUME IInv, NEW r \in Device, NEW doomed, CompactStep(r, doomed)  PROVE A
  <2>1. /\ cells'[r] = {o \in cells[r] : o.row \notin doomed}
        /\ \A q \in Device \ {r} : log'[q] = log[q]
    BY <1>1 DEF CompactStep, Reclaim, IInv, TypeOK
  <2>2. \A o : o.row \in doomed => Hidden(cells[r], o.row)
    BY <1>1 DEF CompactStep, DoomedRows, Hidden
  <2>3. \A o \in cells'[r] : Hidden(cells'[r], o.row) <=> Hidden(cells[r], o.row)
    BY <2>1 DEF Hidden
  <2>4. View(cells'[r]) = View(cells[r])
    BY <2>1, <2>2, <2>3 DEF View
  <2>. QED  BY <2>1, <2>4
<1>2. ASSUME IInv, NEW r \in Device, NEW S, BatchStep(r, S)  PROVE A
  BY <1>2 DEF BatchStep, IInv, TypeOK
<1>3. IInv /\ [Next]_vars => [A]_vars
  BY <1>1, <1>2, StoreStep
<1>. QED  BY <1>3, Invariance, PTL DEF Spec, CompactionKeepsView

-----------------------------------------------------------------------------
\* What peers report.

\* What is recorded of a peer, the peer has had.
Recorded ==
  \A r \in Device : \A p \in DOMAIN peerFrontiers[r] : peerFrontiers[r][p] \in Reported(p)

\* No step of the engine takes an op from the history.
LEMMA AppliedGrows ==
  ASSUME IInv, [Next]_vars
  PROVE  \A r \in Device : applied[r] \subseteq applied'[r]
<1>1. ASSUME NEW r \in Device, NEW S, BatchStep(r, S)
      PROVE  \A q \in Device : applied[q] \subseteq applied'[q]
  BY <1>1 DEF BatchStep, IInv, TypeOK
<1>. QED  BY <1>1, StoreStep DEF CompactStep

\* What a replica may report it may report from then on.
LEMMA ReportsGrow ==
  ASSUME \A r \in Device : applied[r] \subseteq applied'[r]
  PROVE  \A s \in Device : Reported(s) \subseteq Reported(s)'
<1>. SUFFICES ASSUME NEW s \in Device  PROVE Reported(s) \subseteq Reported(s)'
  OBVIOUS
<1>. DEFINE old == {Zero} \cup {o.stamp : o \in applied[s]}
            new == {Zero} \cup {o.stamp : o \in applied'[s]}
<1>1. old \subseteq new
  OBVIOUS
<1>. HIDE DEF old, new
<1>2. [Device -> old] \subseteq [Device -> new]
  BY <1>1
<1>. QED  BY <1>2 DEF Reported, old, new

\* The frontier a replica has is one it may report.
LEMMA OwnFrontierIsReported ==
  ASSUME TypeOK, FrontierExact, NEW r \in Device
  PROVE  frontier[r] \in Reported(r)
<1>1. ASSUME NEW d \in Device
      PROVE  /\ frontier[r][d] \in {Zero} \cup {o.stamp : o \in applied[r]}
             /\ frontier[r][d].device \in {0, d}
  BY DEF FrontierExact, Author, Zero
<1>. QED  BY <1>1 DEF Reported, TypeOK, Frontier

\* Only a report changes what is recorded, and what a peer may report it may
\* report from then on.
LEMMA RecordedStep ==
  ASSUME IInv, Recorded, [Next]_vars
  PROVE  Recorded'
<1>1. \A p \in Device : Reported(p) \subseteq Reported(p)'
  BY AppliedGrows, ReportsGrow
<1>2. \/ UNCHANGED peerFrontiers
      \/ \E r, p \in Device : \E f \in Reported(p) : RecordPeerFrontier(r, p, f)
  BY DEF Next, vars, stored, ApplyBatch,
         Writing, MakeLocalOp, CommitLocal,
         Receiving, ApplyRemoteOps, ObserveRemoteClock, LearnKeys,
         Recording, RecordPeerFrontier,
         Failing, RejectLocalOp, CommitFails, ReceiveFails, Restart,
         Compacting, CompactBegin, CompactEnd, CompactAbandon
<1>3. \A r \in Device : DOMAIN peerFrontiers[r] \subseteq Device
  BY DEF IInv, TypeOK
<1>4. CASE UNCHANGED peerFrontiers
  BY <1>1, <1>3, <1>4 DEF Recorded
<1>5. ASSUME NEW r \in Device, NEW p \in Device, NEW f \in Reported(p),
             RecordPeerFrontier(r, p, f)
      PROVE  Recorded'
  <2>1. /\ \A q \in Device \ {r} : peerFrontiers'[q] = peerFrontiers[q]
        /\ DOMAIN peerFrontiers'[r] = DOMAIN peerFrontiers[r] \cup {p}
        /\ peerFrontiers'[r][p] = f
        /\ \A q \in DOMAIN peerFrontiers[r] \ {p} : peerFrontiers'[r][q] = peerFrontiers[r][q]
    BY <1>5 DEF RecordPeerFrontier, IInv, TypeOK
  <2>. QED  BY <1>1, <1>3, <2>1 DEF Recorded
<1>. QED  BY <1>2, <1>4, <1>5

\* What a peer may report lies at or below the frontier it has.
LEMMA ReportsAreBehind ==
  ASSUME TypeOK, FrontierExact, NEW p \in Device, NEW f \in Reported(p), NEW d \in Device
  PROVE  Leq(f[d], frontier[p][d])
<1>1. frontier[p][d] \in StampOrZero
  BY DEF TypeOK, Frontier
<1>2. CASE f[d] = Zero
  BY <1>1, <1>2, StampFields DEF Zero, Leq, Lt, Earlier, SameTime
<1>3. CASE f[d] # Zero
  <2>1. PICK o \in applied[p] : f[d] = o.stamp
    BY <1>3 DEF Reported
  <2>2. o.stamp.device \in Device /\ o.stamp.device \in {0, d}
    BY <2>1 DEF TypeOK, Op, Stamp, Reported
  <2>3. Author(o) = d
    BY <2>2, HlcAssumption DEF Author
  <2>. QED  BY <2>1, <2>3 DEF FrontierExact
<1>. QED  BY <1>2, <1>3

\* What the engine keeps whatever drives it.
EngineInv == IInv /\ FrontierExact /\ WinnersLogged /\ Recorded

\* It holds of fresh replicas.
LEMMA EngineInvInit ==
  ASSUME Init
  PROVE  EngineInv
BY IInvInit, FrontierInit, WinnersInit DEF EngineInv, Init, Recorded

\* It is inductive.
LEMMA EngineInvStep ==
  ASSUME EngineInv, [Next]_vars
  PROVE  EngineInv'
BY IInvStep, FrontierStep, WinnersStep, RecordedStep DEF EngineInv

-----------------------------------------------------------------------------
\* The abstract space.

\* The abstract space speaks of ops in the replica's own terms.
LEMMA SpaceTerms ==
  /\ \A S : Space!Winners(S) = Winners(S)
  /\ \A g, h : Space!Lt(g, h) <=> Lt(g, h)
  /\ \A o : Space!Author(o) = Author(o)
BY DEF Space!Winners, Winners, Space!SameCell, SameCell, Space!Leq, Leq, Space!Lt, Lt,
       Space!SameTime, SameTime, Space!Earlier, Earlier, Space!Author, Author

\* The cells are the merge of everything applied.
Merged == \A r \in Device : cells[r] = Winners(applied[r])

\* Fresh replicas have merged nothing.
LEMMA MergedInit ==
  ASSUME Init
  PROVE  Merged
BY DEF Init, Merged, Winners

\* Batches merge.
LEMMA BatchMerges ==
  ASSUME IInv, Merged, NEW r \in Device, NEW S, BatchStep(r, S)
  PROVE  Merged'
<1>1. Winners(Winners(applied[r]) \cup S) = Winners(applied[r] \cup S)
  BY MergeOfWinners DEF IInv, TypeOK, Finite, BatchStep
<1>2. ASSUME NEW q \in Device  PROVE cells'[q] = Winners(applied'[q])
  <2>1. CASE q = r
    BY <1>1, <2>1 DEF BatchStep, Merged, IInv, TypeOK
  <2>2. CASE q # r
    BY <2>2 DEF BatchStep, Merged, IInv, TypeOK
  <2>. QED  BY <2>1, <2>2
<1>. QED  BY <1>2 DEF Merged

\* Without tombstone collection the cells stay the merge at every step.
LEMMA MergedStep ==
  ASSUME TRUE \notin Compactions, IInv, Merged, [Next]_vars
  PROVE  Merged'
<1>1. ASSUME NEW r \in Device, NEW S, BatchStep(r, S)  PROVE Merged'
  BY <1>1, BatchMerges
<1>2. ASSUME NEW r \in Device, NEW doomed, CompactStep(r, doomed)  PROVE Merged'
  BY <1>2 DEF CompactStep, Reclaim, Merged, IInv, TypeOK
<1>3. ASSUME UNCHANGED <<cells, applied>>  PROVE Merged'
  BY <1>3 DEF Merged
<1>. QED  BY <1>1, <1>2, <1>3, StoreStep

\* Every op of a batch is either new, of the replica itself and above all it
\* has applied, or already delivered somewhere.
LEMMA BatchIsGain ==
  ASSUME IInv, Merged, Merged', NEW r \in Device, NEW S, BatchStep(r, S)
  PROVE  Space!Gain(r)
<1>. DEFINE new == applied'[r] \ applied[r]
<1>1. /\ applied'[r] = applied[r] \cup S
      /\ new \subseteq S
      /\ applied' = [applied EXCEPT ![r] = @ \cup new]
  BY DEF BatchStep, IInv, TypeOK
<1>2. cells' = [cells EXCEPT ![r] = Winners(applied'[r])]
  BY DEF BatchStep, IInv, TypeOK, Merged
<1>3. CASE S \subseteq Issued
  <2>1. Space!Deliverable(new)
    BY <1>1, <1>3 DEF Space!Deliverable, Issued
  <2>. QED  BY <1>1, <1>2, <2>1, SpaceTerms DEF Space!Gain
<1>4. CASE S = draft[r]
  <2>1. ASSUME NEW o \in S, NEW p \in applied[r]  PROVE Lt(p.stamp, o.stamp)
    <3>1. /\ NotAfter(p.stamp, disk[r]) /\ Earlier(disk[r], o.stamp)
          /\ p \in Op /\ o \in Op
      BY <1>4, <2>1 DEF IInv, ClockCovers, TypeOK
    <3>. QED  BY <3>1, Readings, EarlierOrder DEF IInv
  <2>2. \A o \in S : Author(o) = r
    BY <1>4 DEF IInv, Origin
  <2>3. \A o, p \in S : o.stamp = p.stamp => o = p
    BY <1>4 DEF IInv, UniqueIds
  <2>4. Space!Issuable(r, new)
    BY <1>1, <2>1, <2>2, <2>3, SpaceTerms DEF Space!Issuable
  <2>. QED  BY <1>1, <1>2, <2>4, SpaceTerms DEF Space!Gain
<1>. QED  BY <1>3, <1>4 DEF BatchStep

\* Unless it collects tombstones a replica implements the abstract space: its
\* cells are the merge of what was delivered to it, whatever was compacted,
\* repeated or interrupted (engine.ts commit and applyRemoteOps).
THEOREM EngineImplementsSpace ==
  ASSUME TRUE \notin Compactions
  PROVE  Spec => ImplementsLwwSpace
<1>1. Init => Space!Init
  BY DEF Init, Space!Init
<1>2. Init => IInv /\ Merged
  BY IInvInit, MergedInit
<1>3. IInv /\ Merged /\ [Next]_vars => IInv' /\ Merged'
  BY IInvStep, MergedStep
<1>4. IInv /\ Merged /\ [Next]_vars => [Space!Next]_<<applied, cells>>
  <2>. SUFFICES ASSUME IInv, Merged, [Next]_vars
       PROVE  [Space!Next]_<<applied, cells>>
    OBVIOUS
  <2>1. ASSUME NEW r \in Device, NEW S, BatchStep(r, S)  PROVE Space!Next
    BY <1>3, <2>1, BatchIsGain DEF Space!Next
  <2>2. ASSUME NEW r \in Device, NEW doomed, CompactStep(r, doomed)
        PROVE  UNCHANGED <<applied, cells>>
    BY <2>2 DEF CompactStep, Reclaim, IInv, TypeOK
  <2>. QED  BY <2>1, <2>2, StoreStep
<1>. QED  BY <1>1, <1>2, <1>3, <1>4, PTL DEF Spec, ImplementsLwwSpace, Space!Spec
=============================================================================
