----------------------------- MODULE OpsProofs -----------------------------
(***************************************************************************)
(* Facts about stamps, clocks and frontiers, for every value of the        *)
(* constants. SyncEngineProofs cites them.                                 *)
(***************************************************************************)
EXTENDS Ops, FiniteSetTheorems, TLAPS

-----------------------------------------------------------------------------
\* The orders.

\* A stamp is its three fields, each a natural number.
LEMMA StampFields ==
  /\ \A h \in StampOrZero :
       h.millis \in Nat /\ h.counter \in Nat /\ h.device \in Nat
  /\ \A g, h \in StampOrZero :
       SameTime(g, h) /\ g.device = h.device => g = h
<1>1. ASSUME NEW h \in StampOrZero
      PROVE  /\ h.millis \in Nat /\ h.counter \in Nat /\ h.device \in Nat
             /\ h = [millis |-> h.millis, counter |-> h.counter, device |-> h.device]
  <2>1. CASE h \in Stamp
    <3>1. h.millis \in Nat /\ h.counter \in 0 .. MaxCounter /\ h.device \in Device
      BY <2>1 DEF Stamp
    <3>2. h = [millis |-> h.millis, counter |-> h.counter, device |-> h.device]
      BY <2>1, Zenon DEF Stamp
    <3>. QED  BY <3>1, <3>2, HlcAssumption
  <2>2. CASE h = Zero
    BY <2>2 DEF Zero
  <2>. QED  BY <2>1, <2>2 DEF StampOrZero
<1>. QED  BY <1>1 DEF SameTime

\* compareHlc is a total order of the stamps.
LEMMA LeqTotalOrder ==
  ASSUME NEW f \in StampOrZero, NEW g \in StampOrZero, NEW h \in StampOrZero
  PROVE  /\ Leq(f, f)
         /\ Leq(f, g) \/ Lt(g, f)
         /\ ~(Leq(f, g) /\ Lt(g, f))
         /\ Leq(f, g) /\ Leq(g, f) => f = g
         /\ Leq(f, g) /\ Leq(g, h) => Leq(f, h)
         /\ Lt(f, g) /\ Leq(g, h) => Lt(f, h)
BY StampFields DEF Leq, Lt, Earlier, SameTime

\* The order of readings is transitive and irreflexive, with SameTime as its
\* equality; a stamp of an earlier reading is a smaller stamp.
LEMMA EarlierOrder ==
  ASSUME NEW a, NEW b, NEW c,
         a.millis \in Nat, a.counter \in Nat,
         b.millis \in Nat, b.counter \in Nat,
         c.millis \in Nat, c.counter \in Nat
  PROVE  /\ NotAfter(a, a)
         /\ ~Earlier(a, a)
         /\ NotAfter(a, b) /\ NotAfter(b, c) => NotAfter(a, c)
         /\ NotAfter(a, b) /\ Earlier(b, c) => Earlier(a, c)
         /\ Earlier(a, b) /\ NotAfter(b, c) => Earlier(a, c)
         /\ Earlier(a, b) => NotAfter(a, b) /\ Lt(a, b)
BY DEF NotAfter, Earlier, SameTime, Lt

-----------------------------------------------------------------------------
\* The clock rules.

\* now() only moves forward, whatever the physical clock reads.
LEMMA NowAdvances ==
  ASSUME NEW clock \in Clock, NEW pt \in Nat
  PROVE  /\ Now(clock, pt) \in Clock
         /\ Earlier(clock, Now(clock, pt))
BY HlcAssumption DEF Clock, Now, Carry, Earlier

\* receive() passes both the clock's own reading and the remote stamp.
LEMMA ReceiveAdvances ==
  ASSUME NEW clock \in Clock, NEW remote \in Stamp, NEW pt \in Nat
  PROVE  /\ Receive(clock, remote, pt) \in Clock
         /\ Earlier(clock, Receive(clock, remote, pt))
         /\ Earlier(remote, Receive(clock, remote, pt))
BY HlcAssumption DEF Clock, Stamp, Receive, Larger, Carry, Earlier

-----------------------------------------------------------------------------
\* The largest stamp of a finite set.

\* A non-empty set of natural numbers has a least element.
LEMMA LeastNatural ==
  ASSUME NEW T, T \subseteq Nat, T # {}
  PROVE  \E n \in T : \A m \in T : n <= m
<1>1. PICK n \in T : \A m \in T : ~(<<m, n>> \in OpToRel(<, Nat))
  BY NatLessThanWellFounded, WFMin
<1>2. ASSUME NEW m \in T  PROVE n <= m
  <2>1. ~(<<m, n>> \in OpToRel(<, Nat))
    BY <1>1, <1>2
  <2>2. ~(m < n)
    BY <2>1, T \subseteq Nat DEF OpToRel
  <2>. QED  BY <2>2, T \subseteq Nat
<1>. QED  BY <1>2

\* A finite non-empty set of stamps has a largest one: the member that the
\* fewest members exceed is exceeded by none.
LEMMA LatestExists ==
  ASSUME NEW H, H \subseteq StampOrZero, IsFiniteSet(H), H # {}
  PROVE  \E h \in H : \A g \in H : Leq(g, h)
<1>. DEFINE Beyond(h) == {g \in H : Lt(h, g)}
            T == {Cardinality(Beyond(h)) : h \in H}
<1>1. ASSUME NEW h \in H
      PROVE  IsFiniteSet(Beyond(h)) /\ Cardinality(Beyond(h)) \in Nat
  BY FS_Subset, FS_CardinalityType
<1>2. T \subseteq Nat /\ T # {}
  BY <1>1
<1>3. PICK n \in T : \A m \in T : n <= m
  BY <1>2, LeastNatural
<1>4. PICK h \in H : n = Cardinality(Beyond(h))
  BY <1>3
<1>5. ASSUME NEW g \in H, ~Leq(g, h)  PROVE FALSE
  <2>1. Lt(h, g)
    BY <1>5, LeqTotalOrder
  <2>2. Beyond(g) \subseteq Beyond(h) /\ g \in Beyond(h) /\ g \notin Beyond(g)
    BY <2>1, LeqTotalOrder DEF Leq
  <2>3. /\ Cardinality(Beyond(g)) <= Cardinality(Beyond(h))
        /\ Cardinality(Beyond(h)) = Cardinality(Beyond(g)) => Beyond(h) = Beyond(g)
    BY <1>1, <2>2, FS_Subset
  <2>4. n <= Cardinality(Beyond(g))
    BY <1>3
  <2>. QED  BY <1>1, <1>4, <2>2, <2>3, <2>4
<1>. QED  BY <1>5

\* Latest picks that member.
LEMMA LatestIsLargest ==
  ASSUME NEW H, H \subseteq StampOrZero, IsFiniteSet(H), H # {}
  PROVE  Latest(H) \in H /\ \A g \in H : Leq(g, Latest(H))
BY LatestExists DEF Latest

-----------------------------------------------------------------------------
\* Frontiers.

\* A finite set of ops has finitely many stamps of any one author.
LEMMA StampsFinite ==
  ASSUME NEW S, S \subseteq Op, IsFiniteSet(S), NEW d
  PROVE  IsFiniteSet(StampsBy(S, d)) /\ StampsBy(S, d) \subseteq Stamp
<1>. DEFINE mine == {p \in S : Author(p) = d}
            f == [o \in mine |-> o.stamp]
<1>1. IsFiniteSet(mine)
  BY FS_Subset
<1>2. f \in Surjection(mine, StampsBy(S, d))
  BY DEF Surjection, StampsBy
<1>3. IsFiniteSet(StampsBy(S, d))
  BY <1>1, <1>2, FS_Surjection
<1>. QED  BY <1>3 DEF StampsBy, Op

\* advanceFrontier yields a frontier, at or above the old one and the batch,
\* each of whose entries is an old entry or a stamp of the batch.
LEMMA AdvanceIsLargest ==
  ASSUME NEW f \in Frontier, NEW S, S \subseteq Op, IsFiniteSet(S)
  PROVE  /\ Advance(f, S) \in Frontier
         /\ \A d \in Device :
              /\ Leq(f[d], Advance(f, S)[d])
              /\ \A h \in StampsBy(S, d) : Leq(h, Advance(f, S)[d])
              /\ Advance(f, S)[d] \in {f[d]} \cup StampsBy(S, d)
<1>1. ASSUME NEW d \in Device
      PROVE  LET H == {f[d]} \cup StampsBy(S, d)
             IN  Latest(H) \in H /\ \A g \in H : Leq(g, Latest(H))
  <2>. DEFINE H == {f[d]} \cup StampsBy(S, d)
  <2>1. IsFiniteSet(H)
    BY StampsFinite, FS_Union, FS_Singleton
  <2>2. H \subseteq StampOrZero /\ H # {}
    BY StampsFinite DEF Frontier, StampOrZero
  <2>. QED  BY <2>1, <2>2, LatestIsLargest
<1>2. ASSUME NEW d \in Device
      PROVE  {f[d]} \cup StampsBy(S, d) \subseteq StampOrZero
  BY StampsFinite DEF Frontier, StampOrZero
<1>. QED  BY <1>1, <1>2 DEF Advance, Frontier

-----------------------------------------------------------------------------
\* Winners.

\* Of finitely many ops every cell has a newest one.
LEMMA WinnerExists ==
  ASSUME NEW S, S \subseteq Op, IsFiniteSet(S), NEW o \in S
  PROVE  \E w \in Winners(S) : SameCell(o, w) /\ Leq(o.stamp, w.stamp)
<1>. DEFINE rivals == {p \in S : SameCell(o, p)}
            stamps == {p.stamp : p \in rivals}
            f == [p \in rivals |-> p.stamp]
<1>1. IsFiniteSet(rivals)
  BY FS_Subset
<1>2. f \in Surjection(rivals, stamps)
  BY DEF Surjection
<1>3. IsFiniteSet(stamps)
  BY <1>1, <1>2, FS_Surjection
<1>4. stamps \subseteq StampOrZero
  BY DEF Op, StampOrZero
<1>5. o.stamp \in stamps
  BY DEF SameCell
<1>6. PICK h \in stamps : \A g \in stamps : Leq(g, h)
  BY <1>3, <1>4, <1>5, LatestExists
<1>7. PICK w \in rivals : h = w.stamp
  BY <1>6
<1>8. w \in Winners(S)
  BY <1>6, <1>7 DEF Winners, SameCell
<1>. QED  BY <1>5, <1>6, <1>7, <1>8

\* Merging a batch into the winners is merging it into everything.
LEMMA MergeOfWinners ==
  ASSUME NEW A, A \subseteq Op, IsFiniteSet(A), NEW S, S \subseteq Op
  PROVE  Winners(Winners(A) \cup S) = Winners(A \cup S)
<1>1. Winners(A \cup S) \subseteq Winners(Winners(A) \cup S)
  BY DEF Winners
<1>2. ASSUME NEW o \in Winners(Winners(A) \cup S)
      PROVE  o \in Winners(A \cup S)
  <2>1. o \in A \cup S
    BY DEF Winners
  <2>2. ASSUME NEW p \in A, SameCell(o, p)  PROVE Leq(p.stamp, o.stamp)
    <3>1. PICK w \in Winners(A) : SameCell(p, w) /\ Leq(p.stamp, w.stamp)
      BY WinnerExists
    <3>2. w \in A /\ SameCell(o, w)
      BY <2>2, <3>1 DEF Winners, SameCell
    <3>3. Leq(w.stamp, o.stamp)
      BY <3>1, <3>2 DEF Winners
    <3>4. p.stamp \in StampOrZero /\ w.stamp \in StampOrZero /\ o.stamp \in StampOrZero
      BY <2>1, <3>2 DEF Op, StampOrZero
    <3>. QED  BY <3>1, <3>3, <3>4, LeqTotalOrder
  <2>3. ASSUME NEW p \in S, SameCell(o, p)  PROVE Leq(p.stamp, o.stamp)
    BY <2>3 DEF Winners
  <2>. QED  BY <2>1, <2>2, <2>3 DEF Winners
<1>. QED  BY <1>1, <1>2
=============================================================================
