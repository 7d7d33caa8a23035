-------------------------- MODULE SyncEngineProofs --------------------------
(***************************************************************************)
(* Theorems of SyncEngine, for every set of devices, rows, writes and      *)
(* clock readings, and for every bound.                                    *)
(*                                                                         *)
(* The inductive invariant is IInv. It adds to the invariants the runs     *)
(* check what they silently rest on: everything is finite, every op of a   *)
(* replica was first committed by its author, and a log, its cells and the *)
(* ops a compaction looks at are among the ops applied.                    *)
(***************************************************************************)
EXTENDS SyncEngine, OpsProofs

Finite == \A r \in Device : IsFiniteSet(applied[r]) /\ IsFiniteSet(draft[r])

Origin ==
  \A r \in Device :
    /\ \A o \in applied[r] : o \in applied[Author(o)]
    /\ \A o \in draft[r] : Author(o) = r
    /\ log[r] \subseteq applied[r]
    /\ cells[r] \subseteq applied[r]

IInv == TypeOK /\ Finite /\ Origin /\ ClockCovers /\ UniqueIds

-----------------------------------------------------------------------------
\* Type correctness.

\* A stamp made from a clock reading is a stamp, and carries that reading.
LEMMA StampOfType ==
  ASSUME NEW clock \in Clock, NEW d \in Device
  PROVE  StampOf(clock, d) \in Stamp
BY DEF StampOf, Clock, Stamp

\* The stamps a hello carries are stamps.
LEMMA RemoteStampsType ==
  ASSUME TypeOK
  PROVE  RemoteStamps \subseteq Stamp
<1>1. FreshClock \in Clock
  BY HlcAssumption DEF FreshClock, Clock
<1>2. \A o \in Issued : o.stamp \in Stamp
  BY DEF TypeOK, Issued, Op
<1>. QED  BY <1>1, <1>2, StampOfType DEF RemoteStamps

\* Issued ops are ops.
LEMMA IssuedType ==
  ASSUME TypeOK
  PROVE  Issued \subseteq Op
BY DEF TypeOK, Issued

\* What a peer may report is a frontier.
LEMMA ReportedType ==
  ASSUME TypeOK, NEW p \in Device
  PROVE  Reported(p) \subseteq Frontier
<1>1. {Zero} \cup {o.stamp : o \in applied[p]} \subseteq StampOrZero
  BY DEF TypeOK, Op, StampOrZero
<1>. QED  BY <1>1 DEF Reported, Frontier

\* applyBatch keeps the stored state well-typed.
LEMMA ApplyBatchType ==
  ASSUME TypeOK, NEW r \in Device, NEW ops \in SUBSET Op, IsFiniteSet(ops),
         NEW clock \in Clock, ApplyBatch(r, ops, clock)
  PROVE  /\ log' \in [Device -> SUBSET Op]
         /\ cells' \in [Device -> SUBSET Op]
         /\ frontier' \in [Device -> Frontier]
         /\ disk' \in [Device -> Clock]
         /\ applied' \in [Device -> SUBSET Op]
         /\ UNCHANGED peerFrontiers
<1>1. Winners(cells[r] \cup ops) \in SUBSET Op
  BY DEF TypeOK, Winners
<1>2. Advance(frontier[r], ops) \in Frontier
  BY AdvanceIsLargest DEF TypeOK
<1>. QED  BY <1>1, <1>2, Zenon DEF TypeOK, ApplyBatch

\* Every step keeps every variable well-typed.
LEMMA TypeStep ==
  ASSUME TypeOK, Finite, [Next]_vars
  PROVE  TypeOK'
<1>. USE DEF TypeOK
<1>1. CASE UNCHANGED vars
  BY <1>1 DEF vars, stored, memory
<1>2. ASSUME NEW r \in Device, NEW w \in Writes, NEW pt \in Times,
             MakeLocalOp(r, w, pt)
      PROVE  TypeOK'
  <2>1. Now(mem[r], pt) \in Clock
    BY EngineAssumption, NowAdvances
  <2>2. mem'[r] = Now(mem[r], pt) /\ mem' \in [Device -> Clock]
    BY <1>2, <2>1 DEF MakeLocalOp
  <2>3. OpOf(StampOf(mem'[r], r), w) \in Op
    BY <2>1, <2>2, StampOfType, EngineAssumption DEF OpOf, Op, Write
  <2>4. draft' \in [Device -> SUBSET Op]
    BY <1>2, <2>3 DEF MakeLocalOp
  <2>. QED  BY <1>2, <2>2, <2>4 DEF MakeLocalOp, stored
<1>3. ASSUME NEW r \in Device, NEW pt \in Times, RejectLocalOp(r, pt)
      PROVE  TypeOK'
  <2>1. Now(mem[r], pt) \in Clock
    BY EngineAssumption, NowAdvances
  <2>. QED  BY <1>3, <2>1 DEF RejectLocalOp, stored
<1>4. ASSUME NEW r \in Device, CommitLocal(r)  PROVE TypeOK'
  BY <1>4, ApplyBatchType DEF CommitLocal, Finite
<1>5. ASSUME NEW r \in Device, CommitFails(r)  PROVE TypeOK'
  BY <1>5 DEF CommitFails, stored
<1>6. ASSUME NEW r \in Device, NEW ops \in SUBSET Issued, NEW pt \in Times,
             ApplyRemoteOps(r, ops, pt)
      PROVE  TypeOK'
  <2>1. PICK newest \in ops : mem' = [mem EXCEPT ![r] = Receive(mem[r], newest.stamp, pt)]
    BY <1>6 DEF ApplyRemoteOps
  <2>2. newest.stamp \in Stamp
    BY IssuedType DEF Op
  <2>3. mem' \in [Device -> Clock]
    BY <2>1, <2>2, EngineAssumption, ReceiveAdvances
  <2>4. IsFiniteSet(ops \ log[r]) /\ ops \ log[r] \in SUBSET Op
    BY <1>6, IssuedType, FS_Subset DEF ApplyRemoteOps, Acceptable
  <2>. QED  BY <1>6, <2>3, <2>4, ApplyBatchType DEF ApplyRemoteOps
<1>7. ASSUME NEW r \in Device, NEW stamp \in RemoteStamps, NEW pt \in Times,
             ObserveRemoteClock(r, stamp, pt)
      PROVE  TypeOK'
  <2>1. mem' \in [Device -> Clock]
    BY <1>7, EngineAssumption, RemoteStampsType, ReceiveAdvances DEF ObserveRemoteClock
  <2>. QED  BY <1>7, <2>1, ApplyBatchType, FS_EmptySet DEF ObserveRemoteClock
<1>8. ASSUME NEW r \in Device, NEW stamp \in RemoteStamps, NEW pt \in Times,
             ReceiveFails(r, stamp, pt)
      PROVE  TypeOK'
  <2>1. mem' \in [Device -> Clock]
    BY <1>8, EngineAssumption, RemoteStampsType, ReceiveAdvances DEF ReceiveFails
  <2>. QED  BY <1>8, <2>1 DEF ReceiveFails, stored
<1>9. ASSUME NEW r \in Device, NEW ids \in SUBSET Device, LearnKeys(r, ids)
      PROVE  TypeOK'
  BY <1>9 DEF LearnKeys, stored
<1>10. ASSUME NEW r \in Device, NEW p \in Device, NEW f \in Reported(p),
              RecordPeerFrontier(r, p, f)
       PROVE  TypeOK'
  <2>. DEFINE new == [q \in DOMAIN peerFrontiers[r] \cup {p} |->
                        IF q = p THEN f ELSE peerFrontiers[r][q]]
  <2>1. /\ DOMAIN new \subseteq Device \ {r}
        /\ new \in [DOMAIN new -> Frontier]
    BY <1>10, ReportedType DEF RecordPeerFrontier
  <2>2. /\ DOMAIN peerFrontiers' = Device
        /\ peerFrontiers'[r] = new
        /\ \A q \in Device \ {r} : peerFrontiers'[q] = peerFrontiers[q]
    BY <1>10 DEF RecordPeerFrontier
  <2>3. \A q \in Device : /\ DOMAIN peerFrontiers'[q] \subseteq Device \ {q}
                          /\ peerFrontiers'[q] \in [DOMAIN peerFrontiers'[q] -> Frontier]
    BY <2>1, <2>2
  <2>. HIDE DEF new
  <2>. QED  BY <1>10, <2>2, <2>3 DEF RecordPeerFrontier, memory
<1>11. ASSUME NEW r \in Device, CompactBegin(r)  PROVE TypeOK'
  BY <1>11 DEF CompactBegin, stored
<1>12. ASSUME NEW r \in Device, NEW includeTombstones \in Compactions,
              CompactEnd(r, includeTombstones)
       PROVE  TypeOK'
  BY <1>12 DEF CompactEnd, Reclaim
<1>13. ASSUME NEW r \in Device, CompactAbandon(r)  PROVE TypeOK'
  BY <1>13 DEF CompactAbandon, stored
<1>14. ASSUME NEW r \in Device, Restart(r)  PROVE TypeOK'
  BY <1>14 DEF Restart, stored
<1>. QED  BY <1>1, <1>2, <1>3, <1>4, <1>5, <1>6, <1>7, <1>8, <1>9, <1>10,
             <1>11, <1>12, <1>13, <1>14
          DEF Next, Writing, Receiving, Recording, Failing, Compacting

-----------------------------------------------------------------------------
\* Clocks and ids. Steps come in four kinds: those that issue and apply
\* nothing, a new draft op, the commit of a draft, and a batch from outside.

\* Readings of well-typed clocks and ops can be compared.
LEMMA Readings ==
  ASSUME TypeOK
  PROVE  /\ \A r \in Device : /\ mem[r].millis \in Nat /\ mem[r].counter \in Nat
                              /\ disk[r].millis \in Nat /\ disk[r].counter \in Nat
         /\ \A o \in Op : o.stamp.millis \in Nat /\ o.stamp.counter \in Nat
<1>1. \A c \in Clock : c.millis \in Nat /\ c.counter \in Nat
  BY HlcAssumption DEF Clock
<1>2. \A o \in Op : o.stamp.millis \in Nat /\ o.stamp.counter \in Nat
  BY HlcAssumption DEF Op, Stamp
<1>. QED  BY <1>1, <1>2 DEF TypeOK

\* A step is quiet when it issues, applies and persists nothing, drops ops at
\* most, and leaves each clock at or after what it must cover.
Quiet ==
  /\ UNCHANGED <<applied, disk>>
  /\ \A r \in Device :
       /\ log'[r] \subseteq log[r]
       /\ cells'[r] \subseteq cells[r]
       /\ draft'[r] \subseteq draft[r]
       /\ NotAfter(disk[r], mem'[r])
       /\ draft'[r] # {} => NotAfter(mem[r], mem'[r])

\* Quiet steps keep the invariant.
LEMMA QuietStep ==
  ASSUME IInv, TypeOK', Quiet
  PROVE  IInv'
<1>1. Finite'
  BY FS_Subset DEF IInv, Quiet, Finite
<1>2. Origin'
  BY DEF IInv, Quiet, Origin
<1>3. ClockCovers'
  <2> SUFFICES ASSUME NEW r \in Device
               PROVE  /\ \A o \in applied'[r] : NotAfter(o.stamp, disk'[r])
                      /\ NotAfter(disk'[r], mem'[r])
                      /\ \A o \in draft'[r] :
                           Earlier(disk'[r], o.stamp) /\ NotAfter(o.stamp, mem'[r])
    BY DEF ClockCovers
  <2>1. ASSUME NEW o \in draft'[r]
        PROVE  Earlier(disk'[r], o.stamp) /\ NotAfter(o.stamp, mem'[r])
    <3>1. /\ o \in draft[r] /\ o \in Op
          /\ Earlier(disk[r], o.stamp) /\ NotAfter(o.stamp, mem[r])
          /\ NotAfter(mem[r], mem'[r])
      BY <2>1 DEF Quiet, IInv, ClockCovers, TypeOK
    <3>2. mem'[r].millis \in Nat /\ mem'[r].counter \in Nat
      BY HlcAssumption DEF TypeOK, Clock
    <3>3. NotAfter(o.stamp, mem'[r])
      BY <3>1, <3>2, Readings, EarlierOrder DEF IInv
    <3>. QED  BY <3>1, <3>3 DEF Quiet
  <2>. QED  BY <2>1 DEF Quiet, IInv, ClockCovers
<1>4. UniqueIds'
  <2>1. Issued' = Issued
    BY DEF Quiet, Issued
  <2>2. UNION {draft'[r] : r \in Device} \subseteq UNION {draft[r] : r \in Device}
    BY DEF Quiet
  <2>. QED  BY <2>1, <2>2 DEF IInv, UniqueIds
<1>. QED  BY <1>1, <1>2, <1>3, <1>4 DEF IInv

\* A new draft op is later than all its author has applied or drafted.
LEMMA MakeLocalOpStep ==
  ASSUME IInv, TypeOK', NEW r \in Device, NEW w \in Writes, NEW pt \in Times,
         MakeLocalOp(r, w, pt)
  PROVE  IInv'
<1>. DEFINE new == OpOf(StampOf(mem'[r], r), w)
<1>1. /\ UNCHANGED <<log, cells, disk, applied>>
      /\ draft' = [draft EXCEPT ![r] = @ \cup {new}]
      /\ \A q \in Device \ {r} : mem'[q] = mem[q]
      /\ mem'[r] = Now(mem[r], pt)
  BY DEF MakeLocalOp, stored, IInv, TypeOK
<1>2. Earlier(mem[r], mem'[r])
  BY <1>1, NowAdvances, EngineAssumption DEF IInv, TypeOK
<1>3. /\ Author(new) = r
      /\ SameTime(new.stamp, mem'[r])
      /\ new.stamp.millis \in Nat /\ new.stamp.counter \in Nat
      /\ mem'[r].millis \in Nat /\ mem'[r].counter \in Nat
  BY HlcAssumption DEF Author, OpOf, StampOf, SameTime, TypeOK, Clock
<1>4. /\ draft'[r] = draft[r] \cup {new}
      /\ \A q \in Device \ {r} : draft'[q] = draft[q]
  BY <1>1 DEF IInv, TypeOK
<1>5. Finite'
  BY <1>1, <1>4, FS_AddElement DEF IInv, Finite
<1>6. Origin'
  BY <1>1, <1>3, <1>4 DEF IInv, Origin
<1>7. NotAfter(disk[r], mem[r])
  BY DEF IInv, ClockCovers
<1>8. Earlier(disk[r], new.stamp) /\ NotAfter(new.stamp, mem'[r])
  BY <1>2, <1>3, <1>7, Readings DEF IInv, NotAfter, Earlier, SameTime
<1>9. ASSUME NEW o \in applied[r] \cup draft[r]
      PROVE  Earlier(o.stamp, new.stamp) /\ NotAfter(o.stamp, mem'[r])
  <2>1. o \in Op
    BY DEF IInv, TypeOK
  <2>2. NotAfter(o.stamp, mem[r])
    <3>1. CASE o \in applied[r]
      BY <2>1, <3>1, <1>7, Readings, EarlierOrder DEF IInv, ClockCovers
    <3>2. CASE o \in draft[r]
      BY <3>2 DEF IInv, ClockCovers
    <3>. QED  BY <3>1, <3>2
  <2>. QED  BY <1>2, <1>3, <2>1, <2>2, Readings
            DEF IInv, NotAfter, Earlier, SameTime
<1>10. ClockCovers'
  <2> SUFFICES ASSUME NEW q \in Device
               PROVE  /\ \A o \in applied'[q] : NotAfter(o.stamp, disk'[q])
                      /\ NotAfter(disk'[q], mem'[q])
                      /\ \A o \in draft'[q] :
                           Earlier(disk'[q], o.stamp) /\ NotAfter(o.stamp, mem'[q])
    BY DEF ClockCovers
  <2>1. CASE q # r
    BY <2>1, <1>1, <1>4 DEF IInv, ClockCovers
  <2>2. CASE q = r
    <3>1. NotAfter(disk[r], mem'[r])
      BY <1>2, <1>3, <1>7, Readings, EarlierOrder DEF IInv
    <3>. QED  BY <2>2, <3>1, <1>1, <1>4, <1>8, <1>9 DEF IInv, ClockCovers
  <2>. QED  BY <2>1, <2>2
<1>11. UniqueIds'
  <2>. DEFINE before == Issued \cup UNION {draft[q] : q \in Device}
  <2>1. Issued' \cup UNION {draft'[q] : q \in Device} = before \cup {new}
    BY <1>1, <1>4 DEF Issued
  <2>2. ASSUME NEW o \in before  PROVE o.stamp # new.stamp
    <3>1. CASE Author(o) # r
      BY <1>3, <3>1 DEF Author
    <3>2. CASE Author(o) = r
      <4>1. o \in applied[r] \cup draft[r]
        BY <3>2 DEF IInv, Origin, Issued
      <4>. QED  BY <1>3, <1>9, <4>1 DEF Earlier
    <3>. QED  BY <3>1, <3>2
  <2>3. \A o, p \in before : o.stamp = p.stamp => o = p
    BY DEF IInv, UniqueIds
  <2>. QED  BY <2>1, <2>2, <2>3 DEF UniqueIds
<1>. QED  BY <1>5, <1>6, <1>10, <1>11 DEF IInv

\* Committing a draft moves its ops from above the persisted clock to below it.
LEMMA CommitStep ==
  ASSUME IInv, TypeOK', NEW r \in Device, CommitLocal(r)
  PROVE  IInv'
<1>1. /\ applied' = [applied EXCEPT ![r] = @ \cup draft[r]]
      /\ log' = [log EXCEPT ![r] = @ \cup draft[r]]
      /\ cells' = [cells EXCEPT ![r] = Winners(@ \cup draft[r])]
      /\ disk' = [disk EXCEPT ![r] = mem[r]]
      /\ draft' = [draft EXCEPT ![r] = {}]
      /\ mem' = mem
  BY Zenon DEF CommitLocal, ApplyBatch
<1>2. /\ applied'[r] = applied[r] \cup draft[r]
      /\ log'[r] = log[r] \cup draft[r]
      /\ cells'[r] \subseteq cells[r] \cup draft[r]
      /\ disk'[r] = mem[r]
      /\ draft'[r] = {}
  BY <1>1 DEF IInv, TypeOK, Winners
<1>3. \A q \in Device \ {r} :
        /\ applied'[q] = applied[q] /\ log'[q] = log[q] /\ cells'[q] = cells[q]
        /\ disk'[q] = disk[q] /\ draft'[q] = draft[q]
  BY <1>1, Zenon DEF IInv, TypeOK
<1>4. Finite'
  <2>1. IsFiniteSet(applied[r]) /\ IsFiniteSet(draft[r])
    BY DEF IInv, Finite
  <2>2. IsFiniteSet(applied[r] \cup draft[r])
    BY <2>1, FS_Union
  <2>3. IsFiniteSet(applied'[r]) /\ IsFiniteSet(draft'[r])
    BY <1>2, <2>2, FS_EmptySet
  <2>. QED  BY <1>3, <2>3 DEF IInv, Finite
<1>5. Origin'
  <2>1. \A q \in Device : applied[q] \subseteq applied'[q]
    BY <1>2, <1>3
  <2>2. ASSUME NEW q \in Device
        PROVE  /\ \A o \in applied'[q] : o \in applied'[Author(o)]
               /\ \A o \in draft'[q] : Author(o) = q
               /\ log'[q] \subseteq applied'[q]
               /\ cells'[q] \subseteq applied'[q]
    <3>1. \A o \in applied[q] : Author(o) \in Device
      BY HlcAssumption DEF IInv, TypeOK, Author, Op, Stamp
    <3>. QED  BY <1>2, <1>3, <2>1, <3>1 DEF IInv, Origin
  <2>. QED  BY <2>2 DEF Origin
<1>6. ClockCovers'
  <2> SUFFICES ASSUME NEW q \in Device
               PROVE  /\ \A o \in applied'[q] : NotAfter(o.stamp, disk'[q])
                      /\ NotAfter(disk'[q], mem'[q])
                      /\ \A o \in draft'[q] :
                           Earlier(disk'[q], o.stamp) /\ NotAfter(o.stamp, mem'[q])
    BY DEF ClockCovers
  <2>1. CASE q # r
    BY <2>1, <1>1, <1>3 DEF IInv, ClockCovers
  <2>2. CASE q = r
    <3>1. \A o \in applied[r] : NotAfter(o.stamp, mem[r])
      <4>1. ASSUME NEW o \in applied[r]  PROVE NotAfter(o.stamp, mem[r])
        <5>1. o \in Op /\ NotAfter(o.stamp, disk[r]) /\ NotAfter(disk[r], mem[r])
          BY DEF IInv, TypeOK, ClockCovers
        <5>. QED  BY <5>1, Readings, EarlierOrder DEF IInv
      <4>. QED  BY <4>1
    <3>2. \A o \in draft[r] : NotAfter(o.stamp, mem[r])
      BY DEF IInv, ClockCovers
    <3>3. NotAfter(mem[r], mem[r])
      BY DEF NotAfter, SameTime
    <3>. QED  BY <2>2, <1>1, <1>2, <3>1, <3>2, <3>3
  <2>. QED  BY <2>1, <2>2
<1>7. UniqueIds'
  <2>1. Issued' \cup UNION {draft'[q] : q \in Device}
          \subseteq Issued \cup UNION {draft[q] : q \in Device}
    BY <1>2, <1>3 DEF Issued
  <2>. QED  BY <2>1 DEF IInv, UniqueIds
<1>. QED  BY <1>4, <1>5, <1>6, <1>7 DEF IInv

\* A batch from outside brings ops already issued, and persists a clock that
\* has passed them all.
LEMMA RemoteBatchStep ==
  ASSUME IInv, TypeOK', NEW r \in Device, NEW ops \in SUBSET Issued,
         IsFiniteSet(ops), draft[r] = {}, UNCHANGED draft,
         NEW clock \in Clock, mem' = [mem EXCEPT ![r] = clock],
         NotAfter(mem[r], clock), \A o \in ops : NotAfter(o.stamp, clock),
         ApplyBatch(r, ops, clock)
  PROVE  IInv'
<1>1. /\ applied' = [applied EXCEPT ![r] = @ \cup ops]
      /\ log' = [log EXCEPT ![r] = @ \cup ops]
      /\ cells' = [cells EXCEPT ![r] = Winners(@ \cup ops)]
      /\ disk' = [disk EXCEPT ![r] = clock]
  BY Zenon DEF ApplyBatch
<1>2. /\ applied'[r] = applied[r] \cup ops
      /\ log'[r] = log[r] \cup ops
      /\ cells'[r] \subseteq cells[r] \cup ops
      /\ disk'[r] = clock
      /\ mem'[r] = clock
  BY <1>1 DEF IInv, TypeOK, Winners
<1>3. \A q \in Device \ {r} :
        /\ applied'[q] = applied[q] /\ log'[q] = log[q] /\ cells'[q] = cells[q]
        /\ disk'[q] = disk[q] /\ mem'[q] = mem[q]
  BY <1>1, Zenon DEF IInv, TypeOK
<1>4. Finite'
  <2>1. IsFiniteSet(applied[r])
    BY DEF IInv, Finite
  <2>2. IsFiniteSet(applied[r] \cup ops)
    BY <2>1, FS_Union
  <2>3. IsFiniteSet(applied'[r])
    BY <1>2, <2>2
  <2>. QED  BY <1>3, <2>3 DEF IInv, Finite
<1>5. Origin'
  <2>1. \A q \in Device : applied[q] \subseteq applied'[q]
    BY <1>2, <1>3
  <2>2. ASSUME NEW q \in Device, NEW o \in applied[q]
        PROVE  Author(o) \in Device /\ o \in applied[Author(o)]
    BY HlcAssumption DEF IInv, TypeOK, Author, Op, Stamp, Origin
  <2>3. \A o \in ops : Author(o) \in Device /\ o \in applied[Author(o)]
    BY <2>2 DEF Issued
  <2>4. ASSUME NEW q \in Device
        PROVE  /\ \A o \in applied'[q] : o \in applied'[Author(o)]
               /\ log'[q] \subseteq applied'[q]
               /\ cells'[q] \subseteq applied'[q]
    BY <1>2, <1>3, <2>1, <2>2, <2>3 DEF IInv, Origin
  <2>. QED  BY <2>4 DEF IInv, Origin
<1>6. ClockCovers'
  <2> SUFFICES ASSUME NEW q \in Device
               PROVE  /\ \A o \in applied'[q] : NotAfter(o.stamp, disk'[q])
                      /\ NotAfter(disk'[q], mem'[q])
                      /\ \A o \in draft'[q] :
                           Earlier(disk'[q], o.stamp) /\ NotAfter(o.stamp, mem'[q])
    BY DEF ClockCovers
  <2>1. CASE q # r
    BY <2>1, <1>3 DEF IInv, ClockCovers
  <2>2. CASE q = r
    <3>1. ASSUME NEW o \in applied[r]  PROVE NotAfter(o.stamp, clock)
      <4>1. o \in Op /\ NotAfter(o.stamp, disk[r]) /\ NotAfter(disk[r], mem[r])
        BY DEF IInv, TypeOK, ClockCovers
      <4>2. clock.millis \in Nat /\ clock.counter \in Nat
        BY HlcAssumption DEF Clock
      <4>3. NotAfter(o.stamp, mem[r])
        BY <4>1, Readings, EarlierOrder DEF IInv
      <4>. QED  BY <4>1, <4>2, <4>3, Readings, EarlierOrder DEF IInv
    <3>2. NotAfter(clock, clock)
      BY DEF NotAfter, SameTime
    <3>. QED  BY <2>2, <1>2, <3>1, <3>2
  <2>. QED  BY <2>1, <2>2
<1>7. UniqueIds'
  <2>1. Issued' \subseteq Issued
    BY <1>2, <1>3 DEF Issued
  <2>. QED  BY <2>1 DEF IInv, UniqueIds
<1>. QED  BY <1>4, <1>5, <1>6, <1>7 DEF IInv

-----------------------------------------------------------------------------
\* Every step is of one of the four kinds.

\* A step that leaves the stored ops and clocks alone and drops no reading
\* the drafts rest on is quiet.
LEMMA SameClocks ==
  ASSUME IInv, UNCHANGED <<log, cells, disk, mem, draft, applied>>
  PROVE  Quiet
<1>1. \A r \in Device : NotAfter(disk[r], mem[r]) /\ NotAfter(mem[r], mem[r])
  BY DEF IInv, ClockCovers, NotAfter, SameTime
<1>. QED  BY <1>1 DEF Quiet

\* The invariant is inductive.
LEMMA IInvStep ==
  ASSUME IInv, [Next]_vars
  PROVE  IInv'
<1>0. TypeOK'
  BY TypeStep DEF IInv
<1>1. CASE UNCHANGED vars
  <2>1. Quiet
    BY <1>1, SameClocks DEF vars, stored, memory
  <2>. QED  BY <1>0, <2>1, QuietStep
<1>2. ASSUME NEW r \in Device, NEW w \in Writes, NEW pt \in Times,
             MakeLocalOp(r, w, pt)
      PROVE  IInv'
  BY <1>0, <1>2, MakeLocalOpStep
<1>3. ASSUME NEW r \in Device, NEW pt \in Times, RejectLocalOp(r, pt)
      PROVE  IInv'
  <2>1. /\ UNCHANGED <<log, cells, disk, applied>>
        /\ mem' = [mem EXCEPT ![r] = Now(mem[r], pt)]
        /\ draft' = [draft EXCEPT ![r] = {}]
    BY <1>3 DEF RejectLocalOp, stored
  <2>2. Earlier(mem[r], mem'[r])
    BY <2>1, NowAdvances, EngineAssumption DEF IInv, TypeOK
  <2>3. NotAfter(disk[r], mem'[r])
    BY <1>0, <2>2, HlcAssumption, EarlierOrder
       DEF IInv, TypeOK, ClockCovers, Clock
  <2>4. Quiet
    <3>1. ASSUME NEW q \in Device
          PROVE  /\ draft'[q] \subseteq draft[q]
                 /\ NotAfter(disk[q], mem'[q])
                 /\ draft'[q] # {} => NotAfter(mem[q], mem'[q])
      <4>1. CASE q = r
        BY <2>1, <2>3, <4>1 DEF IInv, TypeOK
      <4>2. CASE q # r
        <5>1. mem'[q] = mem[q] /\ draft'[q] = draft[q]
          BY <2>1, <4>2 DEF IInv, TypeOK
        <5>. QED  BY <5>1 DEF IInv, ClockCovers, NotAfter, SameTime
      <4>. QED  BY <4>1, <4>2
    <3>. QED  BY <2>1, <3>1 DEF Quiet
  <2>. QED  BY <1>0, <2>4, QuietStep
<1>4. ASSUME NEW r \in Device, CommitLocal(r)  PROVE IInv'
  BY <1>0, <1>4, CommitStep
<1>5. ASSUME NEW r \in Device, CommitFails(r)  PROVE IInv'
  <2>1. /\ UNCHANGED <<log, cells, disk, mem, applied>>
        /\ \A q \in Device : draft'[q] \subseteq draft[q]
    BY <1>5 DEF CommitFails, stored, IInv, TypeOK
  <2>2. \A q \in Device : NotAfter(disk[q], mem[q]) /\ NotAfter(mem[q], mem[q])
    BY DEF IInv, ClockCovers, NotAfter, SameTime
  <2>3. Quiet
    BY <2>1, <2>2 DEF Quiet
  <2>. QED  BY <1>0, <2>3, QuietStep
<1>6. ASSUME NEW r \in Device, NEW ops \in SUBSET Issued, NEW pt \in Times,
             ApplyRemoteOps(r, ops, pt)
      PROVE  IInv'
  <2>1. PICK newest \in ops :
          /\ \A o \in ops : Leq(o.stamp, newest.stamp)
          /\ mem' = [mem EXCEPT ![r] = Receive(mem[r], newest.stamp, pt)]
    BY <1>6 DEF ApplyRemoteOps
  <2>. DEFINE clock == Receive(mem[r], newest.stamp, pt)
  <2>2. /\ newest.stamp \in Stamp
        /\ \A o \in ops : o \in Op /\ NotAfter(o.stamp, newest.stamp)
    BY <2>1, IssuedType DEF IInv, Op, Leq, Lt, NotAfter
  <2>3. clock \in Clock /\ Earlier(mem[r], clock) /\ Earlier(newest.stamp, clock)
    BY <2>2, ReceiveAdvances, EngineAssumption DEF IInv, TypeOK
  <2>4. ASSUME NEW o \in ops  PROVE NotAfter(o.stamp, clock)
    <3>1. clock.millis \in Nat /\ clock.counter \in Nat
      BY <2>3, HlcAssumption DEF Clock
    <3>2. Earlier(o.stamp, clock)
      BY <2>1, <2>2, <2>3, <3>1, Readings, EarlierOrder DEF IInv
    <3>. QED  BY <3>2 DEF NotAfter
  <2>5. /\ ops \ log[r] \in SUBSET Issued
        /\ IsFiniteSet(ops \ log[r])
        /\ draft[r] = {}
        /\ UNCHANGED draft
        /\ ApplyBatch(r, ops \ log[r], mem'[r])
    BY <1>6, FS_Subset DEF ApplyRemoteOps, Acceptable, Unlocked
  <2>6. mem'[r] = clock
    BY <2>1 DEF IInv, TypeOK
  <2>7. NotAfter(mem[r], clock) /\ \A o \in ops \ log[r] : NotAfter(o.stamp, clock)
    BY <2>3, <2>4 DEF NotAfter
  <2>. HIDE DEF clock
  <2>. QED  BY <1>0, <2>1, <2>3, <2>5, <2>6, <2>7, RemoteBatchStep DEF clock
<1>7. ASSUME NEW r \in Device, NEW stamp \in RemoteStamps, NEW pt \in Times,
             ObserveRemoteClock(r, stamp, pt)
      PROVE  IInv'
  <2>. DEFINE clock == Receive(mem[r], stamp, pt)
  <2>1. clock \in Clock /\ NotAfter(mem[r], clock)
    BY RemoteStampsType, ReceiveAdvances, EngineAssumption DEF IInv, TypeOK, NotAfter
  <2>2. /\ draft[r] = {}
        /\ UNCHANGED draft
        /\ mem' = [mem EXCEPT ![r] = clock]
        /\ ApplyBatch(r, {}, mem'[r])
    BY <1>7 DEF ObserveRemoteClock, Unlocked
  <2>3. mem'[r] = clock
    BY <2>2 DEF IInv, TypeOK
  <2>. HIDE DEF clock
  <2>. QED  BY <1>0, <2>1, <2>2, <2>3, RemoteBatchStep, FS_EmptySet
<1>8. ASSUME NEW r \in Device, NEW stamp \in RemoteStamps, NEW pt \in Times,
             ReceiveFails(r, stamp, pt)
      PROVE  IInv'
  <2>1. /\ UNCHANGED <<log, cells, disk, draft, applied>>
        /\ mem' = [mem EXCEPT ![r] = Receive(mem[r], stamp, pt)]
    BY <1>8 DEF ReceiveFails, stored
  <2>2. Earlier(mem[r], mem'[r])
    BY <2>1, RemoteStampsType, ReceiveAdvances, EngineAssumption DEF IInv, TypeOK
  <2>3. NotAfter(disk[r], mem'[r])
    BY <1>0, <2>2, HlcAssumption, EarlierOrder
       DEF IInv, TypeOK, ClockCovers, Clock
  <2>4. ASSUME NEW q \in Device
        PROVE  NotAfter(disk[q], mem'[q]) /\ NotAfter(mem[q], mem'[q])
    <3>1. CASE q = r
      BY <2>2, <2>3, <3>1 DEF NotAfter
    <3>2. CASE q # r
      <4>1. mem'[q] = mem[q]
        BY <2>1, <3>2 DEF IInv, TypeOK
      <4>. QED  BY <4>1 DEF IInv, ClockCovers, NotAfter, SameTime
    <3>. QED  BY <3>1, <3>2
  <2>5. Quiet
    BY <2>1, <2>4 DEF Quiet
  <2>. QED  BY <1>0, <2>5, QuietStep
<1>9. ASSUME NEW r \in Device, NEW ids \in SUBSET Device, LearnKeys(r, ids)
      PROVE  IInv'
  BY <1>0, <1>9, SameClocks, QuietStep DEF LearnKeys, stored
<1>10. ASSUME NEW r \in Device, NEW p \in Device, NEW f \in Reported(p),
              RecordPeerFrontier(r, p, f)
       PROVE  IInv'
  BY <1>0, <1>10, SameClocks, QuietStep DEF RecordPeerFrontier, memory
<1>11. ASSUME NEW r \in Device, CompactBegin(r)  PROVE IInv'
  BY <1>0, <1>11, SameClocks, QuietStep DEF CompactBegin, stored
<1>12. ASSUME NEW r \in Device, NEW includeTombstones \in Compactions,
              CompactEnd(r, includeTombstones)
       PROVE  IInv'
  <2>1. /\ UNCHANGED <<disk, mem, draft, applied>>
        /\ \A q \in Device : log'[q] \subseteq log[q] /\ cells'[q] \subseteq cells[q]
    BY <1>12 DEF CompactEnd, Reclaim, IInv, TypeOK
  <2>2. \A q \in Device : NotAfter(disk[q], mem[q]) /\ NotAfter(mem[q], mem[q])
    BY DEF IInv, ClockCovers, NotAfter, SameTime
  <2>3. Quiet
    BY <2>1, <2>2 DEF Quiet
  <2>. QED  BY <1>0, <2>3, QuietStep
<1>13. ASSUME NEW r \in Device, CompactAbandon(r)  PROVE IInv'
  BY <1>0, <1>13, SameClocks, QuietStep DEF CompactAbandon, stored
<1>14. ASSUME NEW r \in Device, Restart(r)  PROVE IInv'
  <2>1. /\ UNCHANGED <<log, cells, disk, applied>>
        /\ mem' = [mem EXCEPT ![r] = disk[r]]
        /\ draft' = [draft EXCEPT ![r] = {}]
    BY <1>14 DEF Restart, stored
  <2>2. ASSUME NEW q \in Device
        PROVE  /\ draft'[q] \subseteq draft[q]
               /\ NotAfter(disk[q], mem'[q])
               /\ draft'[q] # {} => NotAfter(mem[q], mem'[q])
    <3>1. CASE q = r
      BY <2>1, <3>1 DEF IInv, TypeOK, NotAfter, SameTime
    <3>2. CASE q # r
      <4>1. mem'[q] = mem[q] /\ draft'[q] = draft[q]
        BY <2>1, <3>2 DEF IInv, TypeOK
      <4>. QED  BY <4>1 DEF IInv, ClockCovers, NotAfter, SameTime
    <3>. QED  BY <3>1, <3>2
  <2>3. Quiet
    BY <2>1, <2>2 DEF Quiet
  <2>. QED  BY <1>0, <2>3, QuietStep
<1>. QED  BY <1>1, <1>2, <1>3, <1>4, <1>5, <1>6, <1>7, <1>8, <1>9, <1>10,
             <1>11, <1>12, <1>13, <1>14
          DEF Next, Writing, Receiving, Recording, Failing, Compacting

\* Fresh stores satisfy the invariant.
LEMMA IInvInit ==
  ASSUME Init
  PROVE  IInv
<1>1. TypeOK
  <2>1. FreshClock \in Clock
    BY HlcAssumption DEF FreshClock, Clock
  <2>2. EmptyFrontier \in Frontier
    BY DEF EmptyFrontier, Frontier, StampOrZero
  <2>. QED  BY <2>1, <2>2 DEF Init, TypeOK
<1>2. Finite
  BY FS_EmptySet DEF Init, Finite
<1>3. Origin
  BY DEF Init, Origin
<1>4. ClockCovers
  BY DEF Init, ClockCovers, NotAfter, SameTime
<1>5. UniqueIds
  BY DEF Init, UniqueIds, Issued
<1>. QED  BY <1>1, <1>2, <1>3, <1>4, <1>5 DEF IInv

-----------------------------------------------------------------------------
\* The theorems.

\* IInv holds throughout: the argument the theorems below share.
LEMMA Invariance == Spec => []IInv
<1>1. Init => IInv
  BY IInvInit
<1>2. IInv /\ [Next]_vars => IInv'
  BY IInvStep
<1>. QED  BY <1>1, <1>2, PTL DEF Spec

\* Every variable keeps its type, whatever the clocks read and whatever
\* fails (engine.ts, storage.ts).
THEOREM TypeCorrect == Spec => []TypeOK
<1>1. IInv => TypeOK
  BY DEF IInv
<1>. QED  BY <1>1, Invariance, PTL

\* The persisted clock covers every op applied, so that no crash, failed
\* commit or backward step of the wall clock takes a replica back over its
\* own history (hlc.ts now(), engine.ts commit).
THEOREM ClockCoversHistory == Spec => []ClockCovers
<1>1. IInv => ClockCovers
  BY DEF IInv
<1>. QED  BY <1>1, Invariance, PTL

\* An id names one op for ever: deduplication by id (hasOp) never confuses
\* two writes.
THEOREM IdsAreUnique == Spec => []UniqueIds
<1>1. IInv => UniqueIds
  BY DEF IInv
<1>. QED  BY <1>1, Invariance, PTL

\* A replica's new ops come later than all it has applied, so that its next
\* write wins over every value it could read.
THEOREM WritesComeAfterReads == Spec => WritesFollowReads
<1>. DEFINE A == \A r \in Device : \A o \in applied'[r] \ applied[r] :
                   Author(o) = r => \A p \in applied[r] : Lt(p.stamp, o.stamp)
<1>1. IInv /\ [Next]_vars => [A]_vars
  <2> SUFFICES ASSUME IInv, Next  PROVE A
    OBVIOUS
  <2>1. ASSUME NEW r \in Device, UNCHANGED applied  PROVE A
    BY <2>1
  <2>2. ASSUME NEW r \in Device, NEW ops \in SUBSET Issued, NEW clock,
               ApplyBatch(r, ops, clock)
        PROVE  A
    <3>1. applied' = [applied EXCEPT ![r] = @ \cup ops]
      BY <2>2 DEF ApplyBatch
    <3>2. ASSUME NEW q \in Device, NEW o \in applied'[q] \ applied[q], Author(o) = q
          PROVE  FALSE
      <4>1. q = r /\ o \in ops
        BY <3>1, <3>2 DEF IInv, TypeOK
      <4>2. o \in applied[Author(o)]
        BY <4>1 DEF Issued, IInv, Origin
      <4>. QED  BY <3>2, <4>2
    <3>. QED  BY <3>2
  <2>3. ASSUME NEW r \in Device, CommitLocal(r)  PROVE A
    <3>1. applied' = [applied EXCEPT ![r] = @ \cup draft[r]]
      BY <2>3, Zenon DEF CommitLocal, ApplyBatch
    <3>2. ASSUME NEW q \in Device, NEW o \in applied'[q] \ applied[q],
                 NEW p \in applied[q]
          PROVE  Lt(p.stamp, o.stamp)
      <4>1. q = r /\ o \in draft[r]
        BY <3>1, <3>2 DEF IInv, TypeOK
      <4>2. /\ NotAfter(p.stamp, disk[r]) /\ Earlier(disk[r], o.stamp)
            /\ p \in Op /\ o \in Op
        BY <4>1 DEF IInv, ClockCovers, TypeOK
      <4>. QED  BY <4>2, Readings, EarlierOrder DEF IInv
    <3>. QED  BY <3>2
  <2>4. CASE \E r \in Device : Writing(r)
    BY <2>1, <2>3, <2>4 DEF Writing, MakeLocalOp
  <2>5. CASE \E r \in Device : Receiving(r)
    <3>1. \A S \in SUBSET Issued, r \in Device : S \ log[r] \in SUBSET Issued
      OBVIOUS
    <3>2. {} \in SUBSET Issued
      OBVIOUS
    <3>. QED  BY <2>1, <2>2, <2>5, <3>1, <3>2
              DEF Receiving, ApplyRemoteOps, ObserveRemoteClock, LearnKeys
  <2>6. CASE \E r \in Device : Recording(r) \/ Failing(r) \/ Compacting(r)
    BY <2>1, <2>6
       DEF Recording, RecordPeerFrontier, Failing, RejectLocalOp, CommitFails,
           ReceiveFails, Restart, Compacting, CompactBegin, CompactEnd, CompactAbandon
  <2>. QED  BY <2>4, <2>5, <2>6 DEF Next
<1>. QED  BY <1>1, Invariance, PTL DEF Spec, WritesFollowReads
=============================================================================
