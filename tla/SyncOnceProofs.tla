--------------------------- MODULE SyncOnceProofs ---------------------------
(***************************************************************************)
(* Theorems of SyncOnce, for every set of devices, any number of calls     *)
(* under way and every bound: what a frontier says has been seen, has been *)
(* seen.                                                                   *)
(*                                                                         *)
(* A call drives the engines as SyncEngine's network may, so the engine's  *)
(* theorems hold. The rest of the invariant is about the ops a call has in *)
(* hand: they leave no gap below any of them at the replica they go to     *)
(* (Fills), and with them it has all that the sender's frontier said when  *)
(* it was read (Brings). Both last while logs and frontiers move on.       *)
(***************************************************************************)
EXTENDS SyncOnce, MergeProofs

\* What call i does for devices a and b.
Engaged(i, a, b) == syncs[i] # Idle /\ syncs[i].a = a /\ syncs[i].b = b

\* The frontiers a call works with were had, and its ops issued.
CallsSound ==
  \A i \in Call : \A a, b \in Device : Engaged(i, a, b) =>
    LET s == syncs[i]
    IN  /\ s.fa \in Reported(a) /\ s.fb \in Reported(b)
        /\ s.aToB \subseteq Issued /\ s.bToA \subseteq Issued
        /\ s.at = "recordB" => s.have \in Reported(b)
        /\ s.at = "recordA" => s.have \in Reported(a)
        /\ s.at \in {"applyA", "readB", "recordB", "readA", "recordA"} => s.aToB = {}
        /\ s.at \in {"readB", "recordB", "readA", "recordA"} => s.bToA = {}

SyncInv == EngineInv /\ SyncTypeOK /\ CallsSound

\* The ops A hold o or a later write of its cell.
Covers(A, o) == \E p \in A : SameCell(o, p) /\ Leq(o.stamp, p.stamp)

\* Of the ops I, A covers all that f says are seen.
Brings(A, I, f) == \A o \in I : ~Above(o, f) => Covers(A, o)

\* Of the ops I and S, A covers all that come below one of S.
Fills(A, I, S) ==
  \A p \in S : \A o \in I \cup S :
    Author(o) = Author(p) /\ Leq(o.stamp, p.stamp) => Covers(A, o)

NoGap == \A r \in Device : Brings(applied[r], Issued, frontier[r])

\* With the ops in hand for it B has what the call is to bring it, and A has.
Carries(A, B, I, s) ==
  /\ Fills(B \cup s.aToB, I, s.aToB)
  /\ Fills(A \cup s.bToA, I, s.bToA)
  /\ s.at \notin {"keys", "frontierA", "frontierB", "opsForB"} => Brings(B \cup s.aToB, I, s.fa)
  /\ s.at \notin {"keys", "frontierA", "frontierB", "opsForB", "opsForA"} =>
       Brings(A \cup s.bToA, I, s.fb)

CallsCarry ==
  \A i \in Call : \A a, b \in Device :
    Engaged(i, a, b) => Carries(applied[a], applied[b], Issued, syncs[i])

\* Holds until a compaction collects tombstones.
Gapless == Merged /\ NoGap /\ CallsCarry

-----------------------------------------------------------------------------
\* The state of a call.

\* What a call's record holds.
LEMMA SyncFields ==
  ASSUME SyncTypeOK, NEW i \in Call
  PROVE  /\ syncs[i] = Idle \/ syncs[i] \in Sync
         /\ syncs[i].at # "idle" =>
              /\ syncs[i] \in Sync /\ syncs[i] # Idle
              /\ syncs[i].a \in Device /\ syncs[i].b \in Device /\ syncs[i].a # syncs[i].b
              /\ Engaged(i, syncs[i].a, syncs[i].b)
         /\ syncs[i] # Idle => syncs[i].at # "idle"
<1>1. syncs[i] = Idle \/ syncs[i] \in Sync
  BY DEF SyncTypeOK
<1>2. Idle.at = "idle"
  BY DEF Idle
<1>3. \A s \in Sync : s.at # "idle" /\ s.a \in Device /\ s.b \in Device
  BY DEF Sync
<1>. QED  BY <1>1, <1>2, <1>3 DEF SyncTypeOK, Engaged

-----------------------------------------------------------------------------
\* A call drives the engines as their network may.

\* A call under way works for two devices.
LEMMA CallIsEngaged ==
  ASSUME SyncInv, NEW i \in Call, syncs[i].at # "idle"
  PROVE  LET s == syncs[i]
         IN  /\ s \in Sync
             /\ s.a \in Device /\ s.b \in Device /\ s.a # s.b
             /\ s.fa \in Reported(s.a) /\ s.fb \in Reported(s.b)
             /\ s.aToB \subseteq Issued /\ s.bToA \subseteq Issued
             /\ s.at = "recordB" => s.have \in Reported(s.b)
             /\ s.at = "recordA" => s.have \in Reported(s.a)
             /\ s.at \in {"applyA", "readB", "recordB", "readA", "recordA"} => s.aToB = {}
             /\ s.at \in {"readB", "recordB", "readA", "recordA"} => s.bToA = {}
<1>1. /\ syncs[i] \in Sync
      /\ syncs[i].a \in Device /\ syncs[i].b \in Device /\ syncs[i].a # syncs[i].b
      /\ Engaged(i, syncs[i].a, syncs[i].b)
  BY SyncFields DEF SyncInv
<1>. QED  BY <1>1 DEF SyncInv, CallsSound

\* Each await of a call is a step of one engine, or of none.
LEMMA CallDrives ==
  ASSUME SyncInv, NEW i \in Call, Syncing(i)
  PROVE  [Next]_vars
<1>1. TypeOK
  BY DEF SyncInv, EngineInv, IInv
<1>2. ASSUME NEW a \in Device, NEW b \in Device, Begin(i, a, b)  PROVE [Next]_vars
  <2>1. keys[a] \in SUBSET Device
    BY <1>1 DEF TypeOK
  <2>. QED  BY <1>2, <2>1 DEF Begin, Next, Receiving
<1>3. CASE KeysBack(i)
  <2>1. syncs[i].a \in Device /\ keys[syncs[i].b] \in SUBSET Device
    BY <1>1, <1>3, CallIsEngaged DEF KeysBack, TypeOK
  <2>. QED  BY <1>3, <2>1 DEF KeysBack, Next, Receiving
<1>4. CASE ReadFrontiers(i) \/ ReadOps(i) \/ ReadAck(i)
  BY <1>4 DEF ReadFrontiers, ReadOps, ReadAck
<1>5. ASSUME NEW pt \in Times, DeliverOps(i, pt)  PROVE [Next]_vars
  <2>1. syncs[i].at # "idle"
    BY <1>5 DEF DeliverOps
  <2>2. \/ Deliver(syncs[i].b, syncs[i].aToB, pt)
        \/ Deliver(syncs[i].a, syncs[i].bToA, pt)
    BY <1>5 DEF DeliverOps
  <2>3. ASSUME NEW r \in Device, NEW ops \in SUBSET Issued, Deliver(r, ops, pt)
        PROVE  [Next]_vars
    BY <2>3 DEF Deliver, Next, Receiving
  <2>. QED  BY <2>1, <2>2, <2>3, CallIsEngaged
<1>6. CASE RecordAck(i)
  <2>1. CASE syncs[i].at = "recordB" /\ RecordPeerFrontier(syncs[i].a, syncs[i].b, syncs[i].have)
    BY <2>1, CallIsEngaged DEF Next, Recording
  <2>2. CASE syncs[i].at = "recordA" /\ RecordPeerFrontier(syncs[i].b, syncs[i].a, syncs[i].have)
    BY <2>2, CallIsEngaged DEF Next, Recording
  <2>. QED  BY <1>6, <2>1, <2>2 DEF RecordAck
<1>7. CASE Rejects(i)
  <2>1. ASSUME NEW r \in Device, NEW o \in Issued, NEW pt \in Times, ReceiveFails(r, o.stamp, pt)
        PROVE  [Next]_vars
    BY <2>1 DEF Next, Failing, RemoteStamps
  <2>. QED  BY <1>7, <2>1, CallIsEngaged DEF Rejects
<1>. QED  BY <1>2, <1>3, <1>4, <1>5, <1>6, <1>7 DEF Syncing

\* So is each of the other steps.
LEMMA SyncDrives ==
  ASSUME SyncInv, [SyncNext]_syncVars
  PROVE  [Next]_vars
<1>1. ASSUME NEW r \in Device, OwnStep(r)  PROVE [Next]_vars
  <2>1. Writing(r) \/ Failing(r) \/ Compacting(r)
    BY <1>1 DEF OwnStep, Local, Crash, Collect, Failing, Compacting
  <2>. QED  BY <2>1 DEF Next
<1>2. ASSUME NEW i \in Call, CallStep(i)  PROVE [Next]_vars
  BY <1>2, CallDrives DEF CallStep
<1>3. CASE UNCHANGED syncVars
  BY <1>3 DEF syncVars
<1>. QED  BY <1>1, <1>2, <1>3 DEF SyncNext

-----------------------------------------------------------------------------
\* What a call works with stays sound.

\* A step in which call i comes to the record t.
LEMMA SoundStep ==
  ASSUME SyncInv, \A r \in Device : applied[r] \subseteq applied'[r],
         NEW i \in Call, NEW a \in Device, NEW b \in Device, a # b, NEW t \in Sync,
         syncs' = [syncs EXCEPT ![i] = t], UNCHANGED collected,
         t.a = a, t.b = b,
         t.fa \in Reported(a)', t.fb \in Reported(b)',
         t.aToB \subseteq Issued', t.bToA \subseteq Issued',
         t.at = "recordB" => t.have \in Reported(b)',
         t.at = "recordA" => t.have \in Reported(a)',
         t.at \in {"applyA", "readB", "recordB", "readA", "recordA"} => t.aToB = {},
         t.at \in {"readB", "recordB", "readA", "recordA"} => t.bToA = {}
  PROVE  SyncTypeOK' /\ CallsSound'
<1>1. syncs'[i] = t /\ \A j \in Call \ {i} : syncs'[j] = syncs[j]
  BY DEF SyncInv, SyncTypeOK
<1>2. SyncTypeOK'
  BY <1>1 DEF SyncInv, SyncTypeOK
<1>3. /\ Issued \subseteq Issued'
      /\ \A d \in Device : Reported(d) \subseteq Reported(d)'
  BY ReportsGrow DEF Issued
<1>4. CallsSound'
  <2>. SUFFICES ASSUME NEW j \in Call, NEW c \in Device, NEW d \in Device, Engaged(j, c, d)'
       PROVE  LET s == syncs'[j]
              IN  /\ s.fa \in Reported(c)' /\ s.fb \in Reported(d)'
                  /\ s.aToB \subseteq Issued' /\ s.bToA \subseteq Issued'
                  /\ s.at = "recordB" => s.have \in Reported(d)'
                  /\ s.at = "recordA" => s.have \in Reported(c)'
                  /\ s.at \in {"applyA", "readB", "recordB", "readA", "recordA"} => s.aToB = {}
                  /\ s.at \in {"readB", "recordB", "readA", "recordA"} => s.bToA = {}
    BY DEF CallsSound
  <2>1. CASE j = i
    <3>1. c = a /\ d = b
      BY <1>1, <2>1 DEF Engaged
    <3>. QED  BY <1>1, <2>1, <3>1
  <2>2. CASE j # i
    <3>1. Engaged(j, c, d) /\ syncs'[j] = syncs[j]
      BY <1>1, <2>2 DEF Engaged
    <3>. QED  BY <1>3, <3>1 DEF SyncInv, CallsSound
  <2>. QED  BY <2>1, <2>2
<1>. QED  BY <1>2, <1>4

\* A step in which calls end, if anything.
LEMMA SoundRest ==
  ASSUME SyncInv, \A r \in Device : applied[r] \subseteq applied'[r],
         syncs' \in [Call -> {Idle} \cup Sync], collected' \in BOOLEAN,
         \A i \in Call : syncs'[i] \in {syncs[i], Idle}
  PROVE  SyncTypeOK' /\ CallsSound'
<1>1. SyncTypeOK'
  BY DEF SyncInv, SyncTypeOK
<1>2. /\ Issued \subseteq Issued'
      /\ \A d \in Device : Reported(d) \subseteq Reported(d)'
  BY ReportsGrow DEF Issued
<1>3. CallsSound'
  <2>. SUFFICES ASSUME NEW j \in Call, NEW c \in Device, NEW d \in Device, Engaged(j, c, d)'
       PROVE  LET s == syncs'[j]
              IN  /\ s.fa \in Reported(c)' /\ s.fb \in Reported(d)'
                  /\ s.aToB \subseteq Issued' /\ s.bToA \subseteq Issued'
                  /\ s.at = "recordB" => s.have \in Reported(d)'
                  /\ s.at = "recordA" => s.have \in Reported(c)'
                  /\ s.at \in {"applyA", "readB", "recordB", "readA", "recordA"} => s.aToB = {}
                  /\ s.at \in {"readB", "recordB", "readA", "recordA"} => s.bToA = {}
    BY DEF CallsSound
  <2>1. Engaged(j, c, d) /\ syncs'[j] = syncs[j]
    BY DEF Engaged
  <2>. QED  BY <1>2, <2>1 DEF SyncInv, CallsSound
<1>. QED  BY <1>1, <1>3

\* Nothing seen is always a true report.
LEMMA EmptyIsReported ==
  ASSUME NEW r \in Device
  PROVE  EmptyFrontier \in Reported(r) /\ EmptyFrontier \in Frontier
<1>1. EmptyFrontier \in [Device -> {Zero} \cup {o.stamp : o \in applied[r]}]
  BY DEF EmptyFrontier
<1>2. \A d \in Device : EmptyFrontier[d].device = 0
  BY DEF EmptyFrontier, Zero
<1>3. EmptyFrontier \in Frontier
  BY DEF EmptyFrontier, Frontier, StampOrZero
<1>. QED  BY <1>1, <1>2, <1>3 DEF Reported

\* Every await of a call.
LEMMA CallSoundStep ==
  ASSUME SyncInv, \A r \in Device : applied[r] \subseteq applied'[r],
         NEW i \in Call, Syncing(i), UNCHANGED collected
  PROVE  SyncTypeOK' /\ CallsSound'
<1>. DEFINE s == syncs[i]
<1>1. TypeOK /\ FrontierExact
  BY DEF SyncInv, EngineInv, IInv
<1>2. /\ Issued \subseteq Issued'
      /\ \A d \in Device : Reported(d) \subseteq Reported(d)'
  BY ReportsGrow DEF Issued
<1>3. \A d \in Device : frontier[d] \in Frontier /\ frontier[d] \in Reported(d)
  BY <1>1, OwnFrontierIsReported DEF TypeOK
<1>4. \A d \in Device : \A f : OpsSince(log[d], f) \subseteq Issued /\ OpsSince(log[d], f) \subseteq Op
  BY DEF OpsSince, SyncInv, EngineInv, IInv, Origin, TypeOK, Issued
<1>5. ASSUME NEW a \in Device, NEW b \in Device, Begin(i, a, b)
      PROVE  SyncTypeOK' /\ CallsSound'
  <2>. DEFINE t == [at |-> "keys", a |-> a, b |-> b,
                    fa |-> EmptyFrontier, fb |-> EmptyFrontier,
                    aToB |-> {}, bToA |-> {}, have |-> EmptyFrontier]
  <2>1. a # b /\ syncs' = [syncs EXCEPT ![i] = t]
    BY <1>5 DEF Begin, Goes
  <2>2. /\ EmptyFrontier \in Frontier
        /\ EmptyFrontier \in Reported(a)' /\ EmptyFrontier \in Reported(b)'
    BY <1>2, EmptyIsReported
  <2>3. t \in Sync
    BY <2>2 DEF Sync
  <2>. QED  BY <2>1, <2>2, <2>3, SoundStep
<1>6. ASSUME s.at # "idle"
      PROVE  /\ s \in Sync /\ s.a \in Device /\ s.b \in Device /\ s.a # s.b
             /\ s.fa \in Reported(s.a) /\ s.fb \in Reported(s.b)
             /\ s.aToB \subseteq Issued /\ s.bToA \subseteq Issued
             /\ s.at \in {"applyA", "readB", "recordB", "readA", "recordA"} => s.aToB = {}
             /\ s.at \in {"readB", "recordB", "readA", "recordA"} => s.bToA = {}
  BY <1>6, CallIsEngaged
<1>7. ASSUME s.at # "idle", NEW t \in Sync, Goes(i, t), t.a = s.a, t.b = s.b,
             t.fa \in Reported(s.a), t.fb \in Reported(s.b),
             t.aToB \subseteq Issued, t.bToA \subseteq Issued,
             t.at = "recordB" => t.have \in Reported(s.b),
             t.at = "recordA" => t.have \in Reported(s.a),
             t.at \in {"applyA", "readB", "recordB", "readA", "recordA"} => t.aToB = {},
             t.at \in {"readB", "recordB", "readA", "recordA"} => t.bToA = {}
      PROVE  SyncTypeOK' /\ CallsSound'
  <2>1. PICK a \in Device, b \in Device : a = s.a /\ b = s.b /\ a # b
    BY <1>6, <1>7
  <2>2. syncs' = [syncs EXCEPT ![i] = t]
    BY <1>7 DEF Goes
  <2>3. /\ t.fa \in Reported(a)' /\ t.fb \in Reported(b)'
        /\ t.aToB \subseteq Issued' /\ t.bToA \subseteq Issued'
        /\ t.at = "recordB" => t.have \in Reported(b)'
        /\ t.at = "recordA" => t.have \in Reported(a)'
    BY <1>2, <1>7, <2>1
  <2>. QED  BY <1>7, <2>1, <2>2, <2>3, SoundStep
<1>8. CASE Goes(i, Idle)
  <2>1. syncs' \in [Call -> {Idle} \cup Sync] /\ \A j \in Call : syncs'[j] \in {syncs[j], Idle}
    BY <1>8 DEF Goes, SyncInv, SyncTypeOK
  <2>2. collected' \in BOOLEAN
    BY DEF SyncInv, SyncTypeOK
  <2>. QED  BY <2>1, <2>2, SoundRest
<1>9. CASE KeysBack(i)
  <2>. DEFINE t == [s EXCEPT !.at = "frontierA"]
  <2>1. s.at = "keys" /\ Goes(i, t)
    BY <1>9 DEF KeysBack
  <2>2. t \in Sync /\ t.at = "frontierA"
    BY <2>1, <1>6 DEF Sync
  <2>3. t.a = s.a /\ t.b = s.b /\ t.fa = s.fa /\ t.fb = s.fb /\ t.aToB = s.aToB /\ t.bToA = s.bToA
    BY <2>1, <1>6 DEF Sync
  <2>. HIDE DEF t
  <2>. QED  BY <1>6, <1>7, <2>1, <2>2, <2>3
<1>10. CASE ReadFrontiers(i)
  <2>1. CASE s.at = "frontierA" /\ Goes(i, [s EXCEPT !.at = "frontierB", !.fa = frontier[s.a]])
    <3>. DEFINE t == [s EXCEPT !.at = "frontierB", !.fa = frontier[s.a]]
    <3>1. /\ t \in Sync /\ t.at = "frontierB" /\ t.fa = frontier[s.a]
          /\ t.a = s.a /\ t.b = s.b /\ t.fb = s.fb /\ t.aToB = s.aToB /\ t.bToA = s.bToA
      BY <2>1, <1>3, <1>6 DEF Sync
    <3>. HIDE DEF t
    <3>. QED  BY <1>3, <1>6, <1>7, <2>1, <3>1 DEF t
  <2>2. CASE s.at = "frontierB" /\ Goes(i, [s EXCEPT !.at = "opsForB", !.fb = frontier[s.b]])
    <3>. DEFINE t == [s EXCEPT !.at = "opsForB", !.fb = frontier[s.b]]
    <3>1. /\ t \in Sync /\ t.at = "opsForB" /\ t.fb = frontier[s.b]
          /\ t.a = s.a /\ t.b = s.b /\ t.fa = s.fa /\ t.aToB = s.aToB /\ t.bToA = s.bToA
      BY <2>2, <1>3, <1>6 DEF Sync
    <3>. HIDE DEF t
    <3>. QED  BY <1>3, <1>6, <1>7, <2>2, <3>1 DEF t
  <2>. QED  BY <1>10, <2>1, <2>2 DEF ReadFrontiers
<1>11. CASE ReadOps(i)
  <2>1. CASE s.at = "opsForB" /\ Goes(i, [s EXCEPT !.at = "opsForA", !.aToB = OpsSince(log[s.a], s.fb)])
    <3>. DEFINE t == [s EXCEPT !.at = "opsForA", !.aToB = OpsSince(log[s.a], s.fb)]
    <3>1. /\ t \in Sync /\ t.at = "opsForA" /\ t.aToB = OpsSince(log[s.a], s.fb)
          /\ t.a = s.a /\ t.b = s.b /\ t.fa = s.fa /\ t.fb = s.fb /\ t.bToA = s.bToA
      BY <2>1, <1>4, <1>6 DEF Sync
    <3>. HIDE DEF t
    <3>. QED  BY <1>4, <1>6, <1>7, <2>1, <3>1 DEF t
  <2>2. CASE s.at = "opsForA" /\ Goes(i, [s EXCEPT !.at = "applyB", !.bToA = OpsSince(log[s.b], s.fa)])
    <3>. DEFINE t == [s EXCEPT !.at = "applyB", !.bToA = OpsSince(log[s.b], s.fa)]
    <3>1. /\ t \in Sync /\ t.at = "applyB" /\ t.bToA = OpsSince(log[s.b], s.fa)
          /\ t.a = s.a /\ t.b = s.b /\ t.fa = s.fa /\ t.fb = s.fb /\ t.aToB = s.aToB
      BY <2>2, <1>4, <1>6 DEF Sync
    <3>. HIDE DEF t
    <3>. QED  BY <1>4, <1>6, <1>7, <2>2, <3>1 DEF t
  <2>. QED  BY <1>11, <2>1, <2>2 DEF ReadOps
<1>12. ASSUME NEW pt \in Times, DeliverOps(i, pt)  PROVE SyncTypeOK' /\ CallsSound'
  <2>1. CASE s.at = "applyB" /\ Goes(i, [s EXCEPT !.at = "applyA", !.aToB = {}])
    <3>. DEFINE t == [s EXCEPT !.at = "applyA", !.aToB = {}]
    <3>1. /\ t \in Sync /\ t.at = "applyA" /\ t.aToB = {}
          /\ t.a = s.a /\ t.b = s.b /\ t.fa = s.fa /\ t.fb = s.fb /\ t.bToA = s.bToA
      BY <2>1, <1>6 DEF Sync
    <3>. HIDE DEF t
    <3>. QED  BY <1>6, <1>7, <2>1, <3>1 DEF t
  <2>2. CASE s.at = "applyA" /\ Goes(i, [s EXCEPT !.at = "readB", !.bToA = {}])
    <3>. DEFINE t == [s EXCEPT !.at = "readB", !.bToA = {}]
    <3>1. /\ t \in Sync /\ t.at = "readB" /\ t.bToA = {}
          /\ t.a = s.a /\ t.b = s.b /\ t.fa = s.fa /\ t.fb = s.fb /\ t.aToB = s.aToB
      BY <2>2, <1>6 DEF Sync
    <3>. HIDE DEF t
    <3>. QED  BY <1>6, <1>7, <2>2, <3>1 DEF t
  <2>. QED  BY <1>12, <2>1, <2>2 DEF DeliverOps
<1>13. CASE ReadAck(i)
  <2>1. CASE s.at = "readB" /\ Goes(i, [s EXCEPT !.at = "recordB", !.have = frontier[s.b]])
    <3>. DEFINE t == [s EXCEPT !.at = "recordB", !.have = frontier[s.b]]
    <3>1. /\ t \in Sync /\ t.at = "recordB" /\ t.have = frontier[s.b]
          /\ t.a = s.a /\ t.b = s.b /\ t.fa = s.fa /\ t.fb = s.fb
          /\ t.aToB = s.aToB /\ t.bToA = s.bToA
      BY <2>1, <1>3, <1>6 DEF Sync
    <3>. HIDE DEF t
    <3>. QED  BY <1>3, <1>6, <1>7, <2>1, <3>1 DEF t
  <2>2. CASE s.at = "readA" /\ Goes(i, [s EXCEPT !.at = "recordA", !.have = frontier[s.a]])
    <3>. DEFINE t == [s EXCEPT !.at = "recordA", !.have = frontier[s.a]]
    <3>1. /\ t \in Sync /\ t.at = "recordA" /\ t.have = frontier[s.a]
          /\ t.a = s.a /\ t.b = s.b /\ t.fa = s.fa /\ t.fb = s.fb
          /\ t.aToB = s.aToB /\ t.bToA = s.bToA
      BY <2>2, <1>3, <1>6 DEF Sync
    <3>. HIDE DEF t
    <3>. QED  BY <1>3, <1>6, <1>7, <2>2, <3>1 DEF t
  <2>. QED  BY <1>13, <2>1, <2>2 DEF ReadAck
<1>14. CASE RecordAck(i)
  <2>1. CASE s.at = "recordB" /\ Goes(i, [s EXCEPT !.at = "readA"])
    <3>. DEFINE t == [s EXCEPT !.at = "readA"]
    <3>1. /\ t \in Sync /\ t.at = "readA"
          /\ t.a = s.a /\ t.b = s.b /\ t.fa = s.fa /\ t.fb = s.fb
          /\ t.aToB = s.aToB /\ t.bToA = s.bToA
      BY <2>1, <1>6 DEF Sync
    <3>. HIDE DEF t
    <3>. QED  BY <1>6, <1>7, <2>1, <3>1 DEF t
  <2>. QED  BY <1>8, <1>14, <2>1 DEF RecordAck
<1>15. CASE Rejects(i)
  BY <1>8, <1>15 DEF Rejects
<1>. QED  BY <1>5, <1>9, <1>10, <1>11, <1>12, <1>13, <1>14, <1>15 DEF Syncing

\* The steps an engine takes besides only end calls.
LEMMA OwnSoundStep ==
  ASSUME SyncInv, \A r \in Device : applied[r] \subseteq applied'[r],
         NEW r \in Device, OwnStep(r)
  PROVE  SyncTypeOK' /\ CallsSound'
<1>1. \A i \in Call : syncs'[i] \in {syncs[i], Idle}
  BY DEF OwnStep, Crash
<1>2. syncs' \in [Call -> {Idle} \cup Sync]
  BY DEF OwnStep, Crash, SyncInv, SyncTypeOK
<1>3. collected' \in BOOLEAN
  BY EngineAssumption DEF OwnStep, Collect, SyncInv, SyncTypeOK
<1>. QED  BY <1>1, <1>2, <1>3, SoundRest

\* Fresh engines make no calls.
LEMMA SyncInvInit ==
  ASSUME SyncInit
  PROVE  SyncInv
<1>1. EngineInv
  BY EngineInvInit DEF SyncInit
<1>2. SyncTypeOK /\ CallsSound
  BY DEF SyncInit, SyncTypeOK, CallsSound, Engaged
<1>. QED  BY <1>1, <1>2 DEF SyncInv

\* The invariant is inductive.
LEMMA SyncInvStep ==
  ASSUME SyncInv, [SyncNext]_syncVars
  PROVE  SyncInv'
<1>1. [Next]_vars
  BY SyncDrives
<1>2. EngineInv'
  BY <1>1, EngineInvStep DEF SyncInv
<1>3. \A r \in Device : applied[r] \subseteq applied'[r]
  BY <1>1, AppliedGrows DEF SyncInv, EngineInv
<1>4. ASSUME NEW i \in Call, CallStep(i)  PROVE SyncTypeOK' /\ CallsSound'
  BY <1>3, <1>4, CallSoundStep DEF CallStep
<1>5. ASSUME NEW r \in Device, OwnStep(r)  PROVE SyncTypeOK' /\ CallsSound'
  BY <1>3, <1>5, OwnSoundStep
<1>6. ASSUME UNCHANGED syncVars  PROVE SyncTypeOK' /\ CallsSound'
  <2>1. syncs' \in [Call -> {Idle} \cup Sync] /\ collected' \in BOOLEAN
    BY <1>6 DEF syncVars, SyncInv, SyncTypeOK
  <2>2. \A i \in Call : syncs'[i] \in {syncs[i], Idle}
    BY <1>6 DEF syncVars
  <2>. QED  BY <1>3, <2>1, <2>2, SoundRest
<1>. QED  BY <1>2, <1>4, <1>5, <1>6 DEF SyncNext, SyncInv

\* The invariant holds of every reachable state.
LEMMA SyncInvariance == SyncSpec => []SyncInv
<1>1. SyncInit => SyncInv
  BY SyncInvInit
<1>2. SyncInv /\ [SyncNext]_syncVars => SyncInv'
  BY SyncInvStep
<1>. QED  BY <1>1, <1>2, PTL DEF SyncSpec

\* A call works with frontiers and ops of the engines' own, whatever comes
\* between its awaits (engine.ts syncOnce).
THEOREM SyncTypeCorrect == SyncSpec => []SyncTypeOK
<1>1. SyncInv => SyncTypeOK
  BY DEF SyncInv
<1>. QED  BY <1>1, SyncInvariance, PTL

\* However calls interleave and fail, they drive the engines as SyncEngine
\* lets the network drive them.
THEOREM SyncImplementsEngine == SyncSpec => Spec
<1>1. SyncInit => Init
  BY DEF SyncInit
<1>2. SyncInv /\ [SyncNext]_syncVars => [Next]_vars
  BY SyncDrives
<1>. QED  BY <1>1, <1>2, SyncInvariance, PTL DEF SyncSpec, Spec

-----------------------------------------------------------------------------
\* What comes later.

\* An op that a step adds to those issued is its author's draft, and later
\* than all its author had issued.
LEMMA NewOpsAreLater ==
  ASSUME IInv, NEW r \in Device, NEW S, BatchStep(r, S), NEW o \in Issued', o \notin Issued
  PROVE  /\ S = draft[r] /\ o \in S /\ o \in Op /\ Author(o) = r
         /\ \A p \in Issued : Author(p) = r => Lt(p.stamp, o.stamp)
<1>1. o \in S
  <2>1. PICK q \in Device : o \in applied'[q]
    BY DEF Issued
  <2>2. applied'[q] \subseteq applied[q] \cup S
    BY DEF BatchStep, IInv, TypeOK
  <2>. QED  BY <2>1, <2>2 DEF Issued
<1>2. S = draft[r] /\ o \in Op
  BY <1>1 DEF BatchStep
<1>3. Author(o) = r /\ Earlier(disk[r], o.stamp)
  BY <1>1, <1>2 DEF IInv, Origin, ClockCovers
<1>4. ASSUME NEW p \in Issued, Author(p) = r  PROVE Lt(p.stamp, o.stamp)
  <2>1. p \in applied[r] /\ p \in Op
    BY <1>4 DEF Issued, IInv, Origin, TypeOK
  <2>2. NotAfter(p.stamp, disk[r])
    BY <2>1 DEF IInv, ClockCovers
  <2>. QED  BY <1>2, <1>3, <2>1, <2>2, Readings, EarlierOrder DEF IInv
<1>. QED  BY <1>1, <1>2, <1>3, <1>4

\* No report speaks of it yet.
LEMMA NewOpsUnreported ==
  ASSUME IInv, NEW r \in Device, NEW S, BatchStep(r, S), NEW o \in Issued', o \notin Issued,
         NEW q \in Device, NEW f \in Reported(q)
  PROVE  Above(o, f)
<1>1. /\ o \in Op /\ Author(o) = r
      /\ \A p \in Issued : Author(p) = r => Lt(p.stamp, o.stamp)
  BY NewOpsAreLater
<1>2. o.stamp \in Stamp
  BY <1>1 DEF Op
<1>3. CASE f[r] = Zero
  BY <1>1, <1>2, <1>3, StampFields, HlcAssumption DEF Above, Zero, Lt, Earlier, SameTime, Stamp, StampOrZero
<1>4. CASE f[r] # Zero
  <2>1. PICK p \in applied[q] : f[r] = p.stamp
    BY <1>4 DEF Reported
  <2>2. p \in Issued /\ p.stamp.device \in Device /\ p.stamp.device \in {0, r}
    BY <2>1 DEF Issued, IInv, TypeOK, Op, Stamp, Reported
  <2>3. Author(p) = r
    BY <2>2, HlcAssumption DEF Author
  <2>. QED  BY <1>1, <2>1, <2>2, <2>3 DEF Above
<1>. QED  BY <1>3, <1>4

-----------------------------------------------------------------------------
\* What is brought, and what is filled.

\* What covers a later write of the cell covers the op.
LEMMA CoversEarlier ==
  ASSUME NEW A, A \subseteq Op, NEW o \in Op, NEW w \in Op,
         SameCell(o, w), Leq(o.stamp, w.stamp), Covers(A, w)
  PROVE  Covers(A, o)
<1>1. PICK p \in A : SameCell(w, p) /\ Leq(w.stamp, p.stamp)
  BY DEF Covers
<1>2. o.stamp \in StampOrZero /\ w.stamp \in StampOrZero /\ p.stamp \in StampOrZero
  BY <1>1 DEF Op, StampOrZero
<1>3. SameCell(o, p) /\ Leq(o.stamp, p.stamp)
  BY <1>1, <1>2, LeqTotalOrder DEF SameCell
<1>. QED  BY <1>3 DEF Covers

\* What is seen by a report is seen by the frontier.
LEMMA SeenStaysSeen ==
  ASSUME EngineInv, NEW r \in Device, NEW f \in Reported(r), NEW o \in Op, ~Above(o, f)
  PROVE  ~Above(o, frontier[r])
<1>. DEFINE d == Author(o)
<1>1. TypeOK /\ FrontierExact
  BY DEF EngineInv, IInv
<1>2. d \in Device /\ o.stamp \in StampOrZero
  BY DEF Op, Stamp, StampOrZero, Author
<1>3. f[d] \in StampOrZero /\ frontier[r][d] \in StampOrZero
  BY <1>1, <1>2, ReportedType DEF TypeOK, Frontier
<1>4. Leq(f[d], frontier[r][d])
  BY <1>1, <1>2, ReportsAreBehind
<1>. QED  BY <1>2, <1>3, <1>4, LeqTotalOrder DEF Above

\* Of all that a replica has covered, a peer lacks nothing once it has the ops
\* of the replica's log above a frontier it had.
LEMMA SentCovers ==
  ASSUME EngineInv, Merged, NoGap, NEW a \in Device, NEW b \in Device,
         NEW f \in Reported(b), NEW o \in Issued, Covers(applied[a], o)
  PROVE  Covers(applied[b] \cup OpsSince(log[a], f), o)
<1>. DEFINE S == OpsSince(log[a], f)
<1>1. /\ applied[a] \subseteq Op /\ IsFiniteSet(applied[a])
      /\ Issued \subseteq Op /\ applied[b] \cup S \subseteq Op
  BY IssuedType DEF EngineInv, IInv, TypeOK, Finite, OpsSince
<1>2. PICK p \in applied[a] : SameCell(o, p) /\ Leq(o.stamp, p.stamp)
  BY DEF Covers
<1>3. PICK w \in Winners(applied[a]) : SameCell(p, w) /\ Leq(p.stamp, w.stamp)
  BY <1>1, WinnerExists
<1>4. w \in applied[a] /\ w \in log[a] /\ w \in Issued
  BY DEF Winners, Merged, EngineInv, WinnersLogged, Issued
<1>5. SameCell(o, w) /\ Leq(o.stamp, w.stamp)
  <2>1. o.stamp \in StampOrZero /\ p.stamp \in StampOrZero /\ w.stamp \in StampOrZero
    BY <1>1, <1>4 DEF Op, StampOrZero
  <2>. QED  BY <1>2, <1>3, <2>1, LeqTotalOrder DEF SameCell
<1>6. Covers(applied[b] \cup S, w)
  <2>1. CASE Above(w, f)
    <3>1. w \in S /\ SameCell(w, w) /\ Leq(w.stamp, w.stamp)
      BY <1>4, <2>1 DEF OpsSince, SameCell, Leq, SameTime
    <3>. QED  BY <3>1 DEF Covers
  <2>2. CASE ~Above(w, f)
    <3>1. ~Above(w, frontier[b])
      BY <1>1, <1>4, <2>2, SeenStaysSeen
    <3>2. Covers(applied[b], w)
      BY <1>4, <3>1 DEF NoGap, Brings
    <3>. QED  BY <3>2 DEF Covers
  <2>. QED  BY <2>1, <2>2
<1>. QED  BY <1>1, <1>4, <1>5, <1>6, CoversEarlier

\* Such ops bring the peer what the replica had seen, and leave no gap.
LEMMA SentFills ==
  ASSUME EngineInv, Merged, NoGap, NEW a \in Device, NEW b \in Device,
         NEW f \in Reported(b), NEW g \in Reported(a)
  PROVE  LET S == OpsSince(log[a], f)
         IN  Fills(applied[b] \cup S, Issued, S) /\ Brings(applied[b] \cup S, Issued, g)
<1>. DEFINE S == OpsSince(log[a], f)
<1>1. Issued \subseteq Op /\ S \subseteq applied[a] /\ S \subseteq Issued
  BY IssuedType DEF EngineInv, IInv, Origin, OpsSince, Issued
<1>2. ASSUME NEW o \in Issued, ~Above(o, frontier[a])  PROVE Covers(applied[b] \cup S, o)
  BY <1>2, SentCovers DEF NoGap, Brings
<1>3. ASSUME NEW p \in S, NEW o \in Issued, Author(o) = Author(p), Leq(o.stamp, p.stamp)
      PROVE  ~Above(o, frontier[a])
  <2>1. Leq(p.stamp, frontier[a][Author(p)]) /\ Author(p) \in Device
    BY <1>1 DEF EngineInv, FrontierExact, Op, Stamp, Author
  <2>2. /\ frontier[a][Author(p)] \in StampOrZero
        /\ o.stamp \in StampOrZero /\ p.stamp \in StampOrZero
    BY <1>1, <2>1 DEF EngineInv, IInv, TypeOK, Frontier, Op, StampOrZero
  <2>. QED  BY <1>3, <2>1, <2>2, LeqTotalOrder DEF Above
<1>4. \A o \in Issued : ~Above(o, g) => ~Above(o, frontier[a])
  BY <1>1, SeenStaysSeen
<1>. QED  BY <1>1, <1>2, <1>3, <1>4 DEF Fills, Brings

\* An update's ops leave no gap: their author has all its ops.
LEMMA DraftFills ==
  ASSUME EngineInv, NEW r \in Device
  PROVE  Fills(applied[r] \cup draft[r], Issued, draft[r])
<1>. SUFFICES ASSUME NEW p \in draft[r], NEW o \in Issued \cup draft[r], Author(o) = Author(p)
     PROVE  Covers(applied[r] \cup draft[r], o)
  BY DEF Fills
<1>1. o \in applied[r] \cup draft[r]
  BY DEF EngineInv, IInv, Origin, Issued
<1>2. SameCell(o, o) /\ Leq(o.stamp, o.stamp)
  BY DEF SameCell, Leq, SameTime
<1>. QED  BY <1>1, <1>2 DEF Covers

-----------------------------------------------------------------------------
\* Both last.

\* A batch of a replica grows its history and no other.
LEMMA BatchGrows ==
  ASSUME IInv, NEW r \in Device, NEW S, BatchStep(r, S)
  PROVE  /\ applied'[r] = applied[r] \cup S
         /\ \A q \in Device \ {r} : applied'[q] = applied[q] /\ frontier'[q] = frontier[q]
         /\ \A q \in Device : applied[q] \subseteq applied'[q]
         /\ frontier'[r] = Advance(frontier[r], S)
         /\ Issued \subseteq Issued' /\ Issued' \subseteq Issued \cup S
<1>1. /\ applied'[r] = applied[r] \cup S
      /\ \A q \in Device \ {r} : applied'[q] = applied[q] /\ frontier'[q] = frontier[q]
      /\ frontier'[r] = Advance(frontier[r], S)
  BY DEF BatchStep, IInv, TypeOK
<1>2. \A q \in Device : applied[q] \subseteq applied'[q] /\ applied'[q] \subseteq applied[q] \cup S
  BY <1>1
<1>. QED  BY <1>1, <1>2 DEF Issued

\* A batch that fills what comes below it leaves no gap anywhere.
LEMMA NoGapStep ==
  ASSUME EngineInv, NoGap, NEW r \in Device, NEW S, BatchStep(r, S),
         Fills(applied[r] \cup S, Issued, S)
  PROVE  NoGap'
<1>0. IInv /\ FrontierExact
  BY DEF EngineInv
<1>1. /\ applied'[r] = applied[r] \cup S
      /\ \A q \in Device \ {r} : applied'[q] = applied[q] /\ frontier'[q] = frontier[q]
      /\ frontier'[r] = Advance(frontier[r], S)
      /\ Issued' \subseteq Issued \cup S
  BY <1>0, BatchGrows
<1>2. ASSUME NEW q \in Device, q # r, NEW o \in Issued', ~Above(o, frontier'[q])
      PROVE  Covers(applied'[q], o)
  <2>1. frontier[q] \in Reported(q)
    BY <1>0, OwnFrontierIsReported DEF IInv
  <2>2. o \in Issued
    BY <1>0, <1>1, <1>2, <2>1, NewOpsUnreported
  <2>. QED  BY <1>1, <1>2, <2>2 DEF NoGap, Brings
<1>3. ASSUME NEW o \in Issued', ~Above(o, frontier'[r])  PROVE Covers(applied'[r], o)
  <2>. DEFINE d == Author(o)
              f == frontier[r]
              g == Advance(f, S)
  <2>1. o \in Op /\ d \in Device /\ S \subseteq Op /\ IsFiniteSet(S) /\ f \in Frontier
    BY <1>0, <1>1, IssuedType DEF IInv, TypeOK, BatchStep, Op, Stamp, Author
  <2>2. g[d] \in {f[d]} \cup StampsBy(S, d)
    BY <2>1, AdvanceIsLargest
  <2>3. o.stamp \in StampOrZero
    BY <2>1 DEF Op, StampOrZero
  <2>4. CASE g[d] = f[d]
    <3>1. ~Above(o, f)
      BY <1>1, <1>3, <2>4 DEF Above
    <3>2. CASE o \in Issued
      BY <1>1, <3>1, <3>2 DEF NoGap, Brings, Covers
    <3>3. CASE o \in S
      BY <1>1, <3>3 DEF Covers, SameCell, Leq, SameTime
    <3>. QED  BY <1>1, <3>2, <3>3
  <2>5. ASSUME NEW p \in S, Author(p) = d, g[d] = p.stamp  PROVE Covers(applied'[r], o)
    <3>1. p.stamp \in StampOrZero
      BY <2>1, <2>5 DEF Op, StampOrZero
    <3>2. Leq(o.stamp, p.stamp)
      BY <1>1, <1>3, <2>3, <2>5, <3>1, LeqTotalOrder DEF Above
    <3>. QED  BY <1>1, <2>5, <3>2 DEF Fills
  <2>. QED  BY <2>2, <2>4, <2>5 DEF StampsBy
<1>. QED  BY <1>1, <1>2, <1>3 DEF NoGap, Brings

\* What a call has in hand goes on to fill and to bring, whoever writes or
\* receives meanwhile.
LEMMA CarriesOn ==
  ASSUME EngineInv, (\E r \in Device : \E S : BatchStep(r, S)) \/ UNCHANGED applied,
         NEW a \in Device, NEW b \in Device, NEW t,
         t.fa \in Reported(a), t.fb \in Reported(b),
         t.aToB \subseteq Issued, t.bToA \subseteq Issued,
         Carries(applied[a], applied[b], Issued, t)
  PROVE  Carries(applied'[a], applied'[b], Issued', t)
<1>0. IInv
  BY DEF EngineInv
<1>1. CASE UNCHANGED applied
  <2>1. Issued' = Issued
    BY <1>1 DEF Issued
  <2>. QED  BY <1>1, <2>1
<1>2. ASSUME NEW r \in Device, NEW S, BatchStep(r, S)
      PROVE  Carries(applied'[a], applied'[b], Issued', t)
  <2>1. ASSUME NEW q \in Device, NEW T, T \subseteq Issued, Fills(applied[q] \cup T, Issued, T)
        PROVE  Fills(applied'[q] \cup T, Issued', T)
    <3>. SUFFICES ASSUME NEW p \in T, NEW o \in Issued' \cup T,
                         Author(o) = Author(p), Leq(o.stamp, p.stamp)
         PROVE  Covers(applied'[q] \cup T, o)
      BY DEF Fills
    <3>1. p \in Op /\ p \in Issued
      BY <1>0, <2>1, IssuedType DEF IInv
    <3>2. o \in Issued
      <4>1. SUFFICES ASSUME o \notin Issued  PROVE FALSE
        OBVIOUS
      <4>2. o \in Op /\ Author(o) = r /\ Lt(p.stamp, o.stamp)
        BY <1>0, <1>2, <2>1, <3>1, <4>1, NewOpsAreLater
      <4>3. o.stamp \in StampOrZero /\ p.stamp \in StampOrZero
        BY <3>1, <4>2 DEF Op, StampOrZero
      <4>. QED  BY <4>2, <4>3, LeqTotalOrder
    <3>3. Covers(applied[q] \cup T, o)
      BY <2>1, <3>2 DEF Fills
    <3>. QED  BY <1>0, <1>2, <3>3, BatchGrows DEF Covers
  <2>2. ASSUME NEW q \in Device, NEW T, NEW x \in Device, NEW f \in Reported(x),
               Brings(applied[q] \cup T, Issued, f)
        PROVE  Brings(applied'[q] \cup T, Issued', f)
    <3>. SUFFICES ASSUME NEW o \in Issued', ~Above(o, f)
         PROVE  Covers(applied'[q] \cup T, o)
      BY DEF Brings
    <3>1. o \in Issued
      BY <1>0, <1>2, NewOpsUnreported
    <3>2. Covers(applied[q] \cup T, o)
      BY <2>2, <3>1 DEF Brings
    <3>. QED  BY <1>0, <1>2, <3>2, BatchGrows DEF Covers
  <2>. QED  BY <2>1, <2>2 DEF Carries
<1>. QED  BY <1>1, <1>2

\* Calls that stay as they are, or end.
LEMMA CarryRest ==
  ASSUME SyncInv, CallsCarry, (\E r \in Device : \E S : BatchStep(r, S)) \/ UNCHANGED applied,
         NEW i \in Call, syncs'[i] \in {syncs[i], Idle},
         NEW a \in Device, NEW b \in Device, Engaged(i, a, b)'
  PROVE  Carries(applied'[a], applied'[b], Issued', syncs'[i])
<1>1. Engaged(i, a, b) /\ syncs'[i] = syncs[i]
  BY DEF Engaged
<1>2. Carries(applied[a], applied[b], Issued, syncs[i])
  BY <1>1 DEF CallsCarry
<1>3. /\ syncs[i].fa \in Reported(a) /\ syncs[i].fb \in Reported(b)
      /\ syncs[i].aToB \subseteq Issued /\ syncs[i].bToA \subseteq Issued
  BY <1>1 DEF SyncInv, CallsSound
<1>4. Carries(applied'[a], applied'[b], Issued', syncs[i])
  BY <1>2, <1>3, CarriesOn DEF SyncInv
<1>. QED  BY <1>1, <1>4

-----------------------------------------------------------------------------
\* Without tombstone collection there are no gaps.

\* A batch a call delivers.
LEMMA DeliveryStores ==
  ASSUME SyncInv, NEW r \in Device, NEW ops, ops \subseteq Issued, NEW pt \in Times,
         Deliver(r, ops, pt), Fills(applied[r] \cup ops, Issued, ops)
  PROVE  \/ ops = {} /\ UNCHANGED vars
         \/ \E S : /\ BatchStep(r, S) /\ Fills(applied[r] \cup S, Issued, S)
                   /\ applied'[r] = applied[r] \cup ops
<1>1. CASE ops = {}
  BY <1>1 DEF Deliver
<1>2. CASE ops # {}
  <2>. DEFINE S == ops \ log[r]
  <2>1. BatchStep(r, S)
    BY <1>2, RemoteStores DEF Deliver, SyncInv, EngineInv
  <2>2. log[r] \subseteq applied[r]
    BY DEF SyncInv, EngineInv, IInv, Origin
  <2>3. applied[r] \cup S = applied[r] \cup ops
    BY <2>2
  <2>4. Fills(applied[r] \cup S, Issued, S)
    BY <2>3 DEF Fills
  <2>5. applied'[r] = applied[r] \cup ops
    BY <2>1, <2>3, BatchGrows DEF SyncInv, EngineInv
  <2>. QED  BY <2>1, <2>4, <2>5
<1>. QED  BY <1>1, <1>2

\* What an await of a call stores fills what comes below it.
LEMMA CallStores ==
  ASSUME SyncInv, CallsCarry, NEW i \in Call, Syncing(i)
  PROVE  \/ UNCHANGED <<cells, frontier, applied>>
         \/ \E r \in Device : \E S :
              BatchStep(r, S) /\ Fills(applied[r] \cup S, Issued, S)
<1>. DEFINE s == syncs[i]
<1>1. ASSUME NEW pt \in Times, DeliverOps(i, pt)
      PROVE  \/ UNCHANGED <<cells, frontier, applied>>
             \/ \E r \in Device : \E S :
                  BatchStep(r, S) /\ Fills(applied[r] \cup S, Issued, S)
  <2>1. s.at # "idle"
    BY <1>1 DEF DeliverOps
  <2>2. s.a \in Device /\ s.b \in Device /\ s.aToB \subseteq Issued /\ s.bToA \subseteq Issued
    BY <2>1, CallIsEngaged
  <2>3. Engaged(i, s.a, s.b)
    BY <2>1, SyncFields DEF SyncInv
  <2>4. /\ Fills(applied[s.b] \cup s.aToB, Issued, s.aToB)
        /\ Fills(applied[s.a] \cup s.bToA, Issued, s.bToA)
    BY <2>2, <2>3 DEF CallsCarry, Carries
  <2>5. CASE Deliver(s.b, s.aToB, pt)
    BY <2>2, <2>4, <2>5, DeliveryStores DEF vars, stored
  <2>6. CASE Deliver(s.a, s.bToA, pt)
    BY <2>2, <2>4, <2>6, DeliveryStores DEF vars, stored
  <2>. QED  BY <1>1, <2>5, <2>6 DEF DeliverOps
<1>2. CASE ~\E pt \in Times : DeliverOps(i, pt)
  BY <1>2 DEF Syncing, Begin, KeysBack, ReadFrontiers, ReadOps, ReadAck, RecordAck, Rejects,
              LearnKeys, RecordPeerFrontier, ReceiveFails, vars, stored
<1>. QED  BY <1>1, <1>2

\* A call comes to its next await with ops that fill and bring.
LEMMA CallCarries ==
  ASSUME SyncInv, Gapless, NEW i \in Call, Syncing(i),
         NEW a \in Device, NEW b \in Device, Engaged(i, a, b)'
  PROVE  Carries(applied'[a], applied'[b], Issued', syncs'[i])
<1>. DEFINE s == syncs[i]
            t == syncs'[i]
<1>0. EngineInv /\ Merged /\ NoGap /\ CallsCarry
  BY DEF SyncInv, Gapless
<1>1. \A x : Goes(i, x) => syncs'[i] = x
  BY DEF Goes, SyncInv, SyncTypeOK
<1>2. t # Idle /\ t.a = a /\ t.b = b
  BY DEF Engaged
<1>3. ASSUME NEW c \in Device, NEW d \in Device, Begin(i, c, d)
      PROVE  Carries(applied'[a], applied'[b], Issued', t)
  <2>1. t.at = "keys" /\ t.aToB = {} /\ t.bToA = {}
    BY <1>1, <1>3 DEF Begin
  <2>. QED  BY <2>1 DEF Carries, Fills
<1>4. ASSUME s.at # "idle", t.a = s.a, t.b = s.b
      PROVE  /\ s \in Sync /\ s.a = a /\ s.b = b /\ Engaged(i, a, b)
             /\ s.fa \in Reported(a) /\ s.fb \in Reported(b)
             /\ s.aToB \subseteq Issued /\ s.bToA \subseteq Issued
             /\ Carries(applied[a], applied[b], Issued, s)
  <2>1. s \in Sync /\ s # Idle /\ s.a = a /\ s.b = b /\ Engaged(i, a, b)
    BY <1>2, <1>4, SyncFields DEF SyncInv
  <2>. QED  BY <1>0, <2>1 DEF SyncInv, CallsSound, CallsCarry
<1>5. ASSUME s.at # "idle", UNCHANGED applied,
             t.a = s.a, t.b = s.b, t.aToB = s.aToB, t.bToA = s.bToA,
             t.fa = s.fa, t.fb = s.fb,
             t.at \in {"frontierA", "frontierB", "opsForB"} \/
               s.at \notin {"keys", "frontierA", "frontierB", "opsForB", "opsForA"}
      PROVE  Carries(applied'[a], applied'[b], Issued', t)
  <2>1. Issued' = Issued
    BY <1>5 DEF Issued
  <2>2. Carries(applied[a], applied[b], Issued, s)
    BY <1>4, <1>5
  <2>. QED  BY <1>5, <2>1, <2>2 DEF Carries
<1>6. CASE KeysBack(i)
  <2>1. s.at = "keys" /\ t = [s EXCEPT !.at = "frontierA"] /\ UNCHANGED applied
    BY <1>1, <1>6 DEF KeysBack, LearnKeys
  <2>2. s \in Sync
    BY <2>1, SyncFields DEF SyncInv
  <2>3. /\ t.at = "frontierA" /\ t.a = s.a /\ t.b = s.b /\ t.aToB = s.aToB /\ t.bToA = s.bToA
        /\ t.fa = s.fa /\ t.fb = s.fb
    BY <2>1, <2>2 DEF Sync
  <2>. QED  BY <1>5, <2>1, <2>3
<1>7. CASE ReadFrontiers(i)
  <2>1. /\ \/ /\ s.at = "frontierA"
              /\ t = [s EXCEPT !.at = "frontierB", !.fa = frontier[s.a]]
           \/ /\ s.at = "frontierB"
              /\ t = [s EXCEPT !.at = "opsForB", !.fb = frontier[s.b]]
        /\ UNCHANGED applied
    BY <1>1, <1>7 DEF ReadFrontiers, vars
  <2>2. s \in Sync
    BY <2>1, SyncFields DEF SyncInv
  <2>3. /\ t.at \in {"frontierB", "opsForB"}
        /\ t.a = s.a /\ t.b = s.b /\ t.aToB = s.aToB /\ t.bToA = s.bToA
    BY <2>1, <2>2 DEF Sync
  <2>4. Carries(applied[a], applied[b], Issued, s)
    BY <1>4, <2>1, <2>3
  <2>5. Issued' = Issued
    BY <2>1 DEF Issued
  <2>. QED  BY <2>1, <2>3, <2>4, <2>5 DEF Carries
<1>8. CASE ReadOps(i)
  <2>1. UNCHANGED vars /\ UNCHANGED applied /\ Issued' = Issued
    BY <1>8 DEF ReadOps, vars, Issued
  <2>2. CASE /\ s.at = "opsForB"
             /\ t = [s EXCEPT !.at = "opsForA", !.aToB = OpsSince(log[s.a], s.fb)]
    <3>1. s \in Sync
      BY <2>2, SyncFields DEF SyncInv
    <3>2. /\ t.at = "opsForA" /\ t.aToB = OpsSince(log[s.a], s.fb)
          /\ t.a = s.a /\ t.b = s.b /\ t.bToA = s.bToA /\ t.fa = s.fa /\ t.fb = s.fb
      BY <2>2, <3>1 DEF Sync
    <3>3. /\ s.a = a /\ s.b = b /\ s.fa \in Reported(a) /\ s.fb \in Reported(b)
          /\ Carries(applied[a], applied[b], Issued, s)
      BY <1>4, <2>2, <3>2
    <3>4. /\ Fills(applied[b] \cup t.aToB, Issued, t.aToB)
          /\ Brings(applied[b] \cup t.aToB, Issued, t.fa)
      BY <1>0, <3>2, <3>3, SentFills
    <3>. QED  BY <2>1, <3>2, <3>3, <3>4 DEF Carries
  <2>3. CASE /\ s.at = "opsForA"
             /\ t = [s EXCEPT !.at = "applyB", !.bToA = OpsSince(log[s.b], s.fa)]
    <3>1. s \in Sync
      BY <2>3, SyncFields DEF SyncInv
    <3>2. /\ t.at = "applyB" /\ t.bToA = OpsSince(log[s.b], s.fa)
          /\ t.a = s.a /\ t.b = s.b /\ t.aToB = s.aToB /\ t.fa = s.fa /\ t.fb = s.fb
      BY <2>3, <3>1 DEF Sync
    <3>3. /\ s.a = a /\ s.b = b /\ s.fa \in Reported(a) /\ s.fb \in Reported(b)
          /\ Carries(applied[a], applied[b], Issued, s)
      BY <1>4, <2>3, <3>2
    <3>4. /\ Fills(applied[a] \cup t.bToA, Issued, t.bToA)
          /\ Brings(applied[a] \cup t.bToA, Issued, t.fb)
      BY <1>0, <3>2, <3>3, SentFills
    <3>. QED  BY <2>1, <2>3, <3>2, <3>3, <3>4 DEF Carries
  <2>. QED  BY <1>1, <1>8, <2>2, <2>3 DEF ReadOps
<1>9. ASSUME NEW pt \in Times, DeliverOps(i, pt)
      PROVE  Carries(applied'[a], applied'[b], Issued', t)
  <2>1. (\E r \in Device : \E S : BatchStep(r, S)) \/ UNCHANGED applied
    BY <1>0, <1>9, CallStores DEF Syncing
  <2>2. CASE /\ s.at = "applyB" /\ Deliver(s.b, s.aToB, pt)
             /\ t = [s EXCEPT !.at = "applyA", !.aToB = {}]
    <3>1. s \in Sync
      BY <2>2, SyncFields DEF SyncInv
    <3>2. /\ t.at = "applyA" /\ t.aToB = {}
          /\ t.a = s.a /\ t.b = s.b /\ t.bToA = s.bToA /\ t.fa = s.fa /\ t.fb = s.fb
      BY <2>2, <3>1 DEF Sync
    <3>3. /\ s.b = b /\ s.fa \in Reported(a) /\ s.fb \in Reported(b)
          /\ s.aToB \subseteq Issued /\ s.bToA \subseteq Issued
          /\ Carries(applied[a], applied[b], Issued, s)
      BY <1>4, <2>2, <3>2
    <3>4. Carries(applied'[a], applied'[b], Issued', s)
      BY <1>0, <2>1, <3>3, CarriesOn
    <3>5. applied'[b] \cup s.aToB = applied'[b]
      BY <2>2, <3>3, DeliveryStores DEF vars, Carries
    <3>. QED  BY <2>2, <3>2, <3>4, <3>5 DEF Carries, Fills
  <2>3. CASE /\ s.at = "applyA" /\ Deliver(s.a, s.bToA, pt)
             /\ t = [s EXCEPT !.at = "readB", !.bToA = {}]
    <3>1. s \in Sync
      BY <2>3, SyncFields DEF SyncInv
    <3>2. /\ t.at = "readB" /\ t.bToA = {}
          /\ t.a = s.a /\ t.b = s.b /\ t.aToB = s.aToB /\ t.fa = s.fa /\ t.fb = s.fb
      BY <2>3, <3>1 DEF Sync
    <3>3. /\ s.a = a /\ s.fa \in Reported(a) /\ s.fb \in Reported(b)
          /\ s.aToB \subseteq Issued /\ s.bToA \subseteq Issued
          /\ Carries(applied[a], applied[b], Issued, s)
      BY <1>4, <2>3, <3>2
    <3>4. Carries(applied'[a], applied'[b], Issued', s)
      BY <1>0, <2>1, <3>3, CarriesOn
    <3>5. applied'[a] \cup s.bToA = applied'[a]
      BY <2>3, <3>3, DeliveryStores DEF vars, Carries
    <3>. QED  BY <2>3, <3>2, <3>4, <3>5 DEF Carries, Fills
  <2>. QED  BY <1>1, <1>9, <2>2, <2>3 DEF DeliverOps
<1>10. CASE ReadAck(i) \/ RecordAck(i)
  <2>1. UNCHANGED applied
    BY <1>10 DEF ReadAck, RecordAck, RecordPeerFrontier, vars
  <2>2. /\ s.at \in {"readB", "recordB", "readA"}
        /\ \/ t = [s EXCEPT !.at = "recordB", !.have = frontier[s.b]]
           \/ t = [s EXCEPT !.at = "recordA", !.have = frontier[s.a]]
           \/ t = [s EXCEPT !.at = "readA"]
    BY <1>1, <1>2, <1>10 DEF ReadAck, RecordAck
  <2>3. s \in Sync
    BY <2>2, SyncFields DEF SyncInv
  <2>4. /\ t.a = s.a /\ t.b = s.b /\ t.aToB = s.aToB /\ t.bToA = s.bToA
        /\ t.fa = s.fa /\ t.fb = s.fb
    BY <2>2, <2>3 DEF Sync
  <2>. QED  BY <1>5, <2>1, <2>2, <2>4
<1>11. CASE Rejects(i)
  BY <1>1, <1>2, <1>11 DEF Rejects
<1>. QED  BY <1>3, <1>6, <1>7, <1>8, <1>9, <1>10, <1>11 DEF Syncing

\* What an engine stores of its own leaves no gap, and a compaction that
\* spares the tombstones keeps the cells.
LEMMA OwnStores ==
  ASSUME SyncInv, NEW r \in Device, OwnStep(r), ~collected'
  PROVE  \/ UNCHANGED <<cells, frontier, applied>>
         \/ BatchStep(r, draft[r])
<1>1. IInv
  BY DEF SyncInv, EngineInv
<1>2. CASE Writing(r)
  BY <1>1, <1>2, WritingStores
<1>3. ASSUME NEW includeTombstones \in Compactions, Collect(r, includeTombstones)
      PROVE  UNCHANGED <<cells, frontier, applied>>
  <2>1. ~includeTombstones
    BY <1>3, EngineAssumption DEF Collect
  <2>2. Reclaim(r, {}) /\ UNCHANGED <<frontier, applied>>
    BY <1>3, <2>1 DEF Collect, CompactEnd
  <2>3. cells' = cells
    BY <1>1, <2>2 DEF Reclaim, IInv, TypeOK
  <2>. QED  BY <2>2, <2>3
<1>4. CASE \/ \E pt \in Times : RejectLocalOp(r, pt)
           \/ CommitFails(r) \/ CompactBegin(r) \/ CompactAbandon(r) \/ Restart(r)
  BY <1>4 DEF RejectLocalOp, CommitFails, CompactBegin, CompactAbandon, Restart, stored
<1>. QED  BY <1>2, <1>3, <1>4 DEF OwnStep, Local, Crash

\* The cells, the frontiers and the ops in hand stay without gaps.
LEMMA GaplessStep ==
  ASSUME SyncInv, Gapless, [SyncNext]_syncVars, ~collected'
  PROVE  Gapless'
<1>1. EngineInv /\ IInv /\ Merged /\ NoGap /\ CallsCarry
  BY DEF SyncInv, EngineInv, Gapless
<1>2. \/ UNCHANGED <<cells, frontier, applied>>
      \/ \E r \in Device : \E S : BatchStep(r, S) /\ Fills(applied[r] \cup S, Issued, S)
  <2>1. ASSUME NEW i \in Call, CallStep(i)
        PROVE  \/ UNCHANGED <<cells, frontier, applied>>
               \/ \E r \in Device : \E S :
                    BatchStep(r, S) /\ Fills(applied[r] \cup S, Issued, S)
    BY <1>1, <2>1, CallStores DEF CallStep
  <2>2. ASSUME NEW r \in Device, OwnStep(r)
        PROVE  \/ UNCHANGED <<cells, frontier, applied>>
               \/ BatchStep(r, draft[r]) /\ Fills(applied[r] \cup draft[r], Issued, draft[r])
    BY <1>1, <2>2, OwnStores, DraftFills
  <2>3. CASE UNCHANGED syncVars
    BY <2>3 DEF syncVars, vars, stored
  <2>. QED  BY <2>1, <2>2, <2>3 DEF SyncNext
<1>3. Merged' /\ NoGap'
  <2>1. CASE UNCHANGED <<cells, frontier, applied>>
    BY <1>1, <2>1 DEF Merged, NoGap, Issued
  <2>2. ASSUME NEW r \in Device, NEW S,
               BatchStep(r, S), Fills(applied[r] \cup S, Issued, S)
        PROVE  Merged' /\ NoGap'
    BY <1>1, <2>2, BatchMerges, NoGapStep
  <2>. QED  BY <1>2, <2>1, <2>2
<1>4. CallsCarry'
  <2>. SUFFICES ASSUME NEW j \in Call, NEW a \in Device, NEW b \in Device, Engaged(j, a, b)'
       PROVE  Carries(applied'[a], applied'[b], Issued', syncs'[j])
    BY DEF CallsCarry
  <2>1. (\E r \in Device : \E S : BatchStep(r, S)) \/ UNCHANGED applied
    BY <1>2
  <2>2. CASE CallStep(j)
    BY <2>2, CallCarries DEF CallStep
  <2>3. CASE syncs'[j] \in {syncs[j], Idle}
    BY <1>1, <2>1, <2>3, CarryRest
  <2>4. ASSUME NEW i \in Call \ {j}, CallStep(i)  PROVE syncs'[j] = syncs[j]
    BY <2>4 DEF CallStep, Syncing, Begin, KeysBack, ReadFrontiers, ReadOps, DeliverOps,
                ReadAck, RecordAck, Rejects, Goes, SyncInv, SyncTypeOK
  <2>5. ASSUME NEW r \in Device, OwnStep(r)  PROVE syncs'[j] \in {syncs[j], Idle}
    BY <2>5 DEF OwnStep, Crash
  <2>6. CASE UNCHANGED syncVars
    BY <2>3, <2>6 DEF syncVars
  <2>. QED  BY <2>2, <2>3, <2>4, <2>5, <2>6 DEF SyncNext
<1>. QED  BY <1>3, <1>4 DEF Gapless

\* Until a tombstone is collected there is no gap.
LEMMA Gaplessness == SyncSpec => [](SyncInv /\ (~collected => Gapless))
<1>1. SyncInit => SyncInv /\ Gapless
  <2>1. SyncInit => Merged
    BY MergedInit DEF SyncInit
  <2>2. SyncInit => NoGap /\ CallsCarry
    BY DEF SyncInit, Init, NoGap, Brings, Issued, CallsCarry, Engaged
  <2>. QED  BY <2>1, <2>2, SyncInvInit DEF Gapless
<1>2. SyncInv /\ [SyncNext]_syncVars => SyncInv'
  BY SyncInvStep
<1>3. SyncInv /\ (~collected => Gapless) /\ [SyncNext]_syncVars => (~collected' => Gapless')
  <2>. SUFFICES ASSUME SyncInv, ~collected => Gapless, [SyncNext]_syncVars, ~collected'
       PROVE  Gapless'
    OBVIOUS
  <2>1. ~collected
    BY EngineAssumption DEF SyncInv, SyncTypeOK, SyncNext, CallStep, OwnStep, Collect, syncVars
  <2>. QED  BY <2>1, GaplessStep
<1>. QED  BY <1>1, <1>2, <1>3, PTL DEF SyncSpec

-----------------------------------------------------------------------------
\* What the frontiers promise.

\* A frontier says "I have seen everything up to here", and what it says is so:
\* no exchange skips an op that it does not deliver later, whatever was
\* compacted away and however old the frontiers and logs it was worked out from
\* (engine.ts syncOnce and opsSince).
THEOREM NothingIsMissed == SyncSpec => []NothingMissed
<1>1. SyncInv /\ (~collected => Gapless) => NothingMissed
  BY DEF Gapless, NoGap, Brings, Covers, NothingMissed, Reached
<1>. QED  BY <1>1, Gaplessness, PTL

\* Replicas that compare frontiers and find them equal show the same data
\* (engine.ts:420), which is why syncing until they are equal is enough.
THEOREM FrontiersTellTheData == SyncSpec => []EqualFrontiersEqualData
<1>1. SyncInv /\ (~collected => Gapless) => EqualFrontiersEqualData
  <2>. SUFFICES ASSUME SyncInv, Gapless
       PROVE  \A p, q \in Device : frontier[p] = frontier[q] => cells[p] \subseteq cells[q]
    BY DEF EqualFrontiersEqualData
  <2>. SUFFICES ASSUME NEW p \in Device, NEW q \in Device, frontier[p] = frontier[q],
                       NEW o \in cells[p]
       PROVE  o \in cells[q]
    OBVIOUS
  <2>1. /\ applied[p] \subseteq Op /\ applied[q] \subseteq Op
        /\ IsFiniteSet(applied[p]) /\ IsFiniteSet(applied[q])
        /\ cells[p] = Winners(applied[p]) /\ cells[q] = Winners(applied[q])
    BY DEF SyncInv, EngineInv, IInv, TypeOK, Finite, Gapless, Merged
  <2>2. \A r, s \in Device : frontier[r] = frontier[s] =>
          \A x \in applied[r] : Covers(applied[s], x)
    <3>. SUFFICES ASSUME NEW r \in Device, NEW s \in Device, frontier[r] = frontier[s],
                         NEW x \in applied[r]
         PROVE  Covers(applied[s], x)
      OBVIOUS
    <3>1. x \in Op /\ x \in Issued /\ Author(x) \in Device
      BY DEF Issued, SyncInv, EngineInv, IInv, TypeOK, Op, Stamp, Author
    <3>2. Leq(x.stamp, frontier[r][Author(x)])
      BY <3>1 DEF SyncInv, EngineInv, FrontierExact
    <3>3. x.stamp \in StampOrZero /\ frontier[r][Author(x)] \in StampOrZero
      BY <3>1 DEF Op, StampOrZero, SyncInv, EngineInv, IInv, TypeOK, Frontier
    <3>4. ~Above(x, frontier[s])
      BY <3>2, <3>3, LeqTotalOrder DEF Above
    <3>. QED  BY <3>1, <3>4 DEF Gapless, NoGap, Brings
  <2>3. o \in applied[p] /\ \A x \in applied[p] : SameCell(o, x) => Leq(x.stamp, o.stamp)
    BY <2>1 DEF Winners
  <2>4. PICK x \in applied[q] : SameCell(o, x) /\ Leq(o.stamp, x.stamp)
    BY <2>2, <2>3 DEF Covers
  <2>5. PICK w \in Winners(applied[q]) : SameCell(x, w) /\ Leq(x.stamp, w.stamp)
    BY <2>1, WinnerExists
  <2>6. w \in applied[q]
    BY <2>5 DEF Winners
  <2>7. PICK y \in applied[p] : SameCell(w, y) /\ Leq(w.stamp, y.stamp)
    BY <2>2, <2>6 DEF Covers
  <2>8. Leq(y.stamp, o.stamp)
    BY <2>3, <2>4, <2>5, <2>7 DEF SameCell
  <2>9. /\ o.stamp \in StampOrZero /\ x.stamp \in StampOrZero
        /\ y.stamp \in StampOrZero /\ w.stamp \in StampOrZero
    BY <2>1, <2>3, <2>6 DEF Op, StampOrZero
  <2>10. o.stamp = w.stamp
    <3>1. Leq(o.stamp, w.stamp)
      BY <2>4, <2>5, <2>9, LeqTotalOrder
    <3>2. Leq(w.stamp, o.stamp)
      BY <2>7, <2>8, <2>9, LeqTotalOrder
    <3>. QED  BY <2>9, <3>1, <3>2, LeqTotalOrder
  <2>11. o = w
    BY <2>3, <2>6, <2>10 DEF SyncInv, EngineInv, IInv, UniqueIds, Issued
  <2>. QED  BY <2>1, <2>5, <2>11
<1>. QED  BY <1>1, Gaplessness, PTL

\* What is at or below a replica's compaction horizon has reached every peer it
\* knows of (compaction.ts:12), so dropping what it supersedes there takes
\* nothing from anyone. Acks may be recorded late and out of order.
THEOREM HorizonHasReachedPeers == SyncSpec => []HorizonReached
<1>1. SyncInv /\ (~collected => Gapless) => HorizonReached
  <2>. SUFFICES ASSUME SyncInv, Gapless, NEW r \in Device, NEW o \in Issued,
                       BelowHorizon(r, o), NEW p \in DOMAIN peerFrontiers[r]
       PROVE  Reached(p, o)
    BY DEF HorizonReached
  <2>1. p \in Device /\ peerFrontiers[r][p] \in Reported(p) /\ ~Above(o, peerFrontiers[r][p])
    BY DEF BelowHorizon, SyncInv, EngineInv, IInv, TypeOK, Recorded
  <2>2. o \in Op
    BY IssuedType DEF SyncInv, EngineInv, IInv
  <2>3. ~Above(o, frontier[p])
    BY <2>1, <2>2, SeenStaysSeen DEF SyncInv
  <2>4. Covers(applied[p], o)
    BY <2>1, <2>3 DEF Gapless, NoGap, Brings
  <2>. QED  BY <2>4 DEF Covers, Reached
<1>. QED  BY <1>1, Gaplessness, PTL

\* "One full bidirectional sync": when a call comes to the acks each side has
\* all that the other had when its frontier was read, although it applied ops
\* that were read later, out of logs that compactions had been at
\* (engine.ts:423).
THEOREM CallsDeliver == SyncSpec => []SyncDelivers
<1>1. SyncInv /\ (~collected => Gapless) => SyncDelivers
  <2>. SUFFICES ASSUME SyncInv, Gapless, NEW i \in Call,
                       syncs[i].at \in {"readB", "recordB", "readA", "recordA"},
                       NEW o \in Issued
       PROVE  /\ ~Above(o, syncs[i].fa) => Reached(syncs[i].b, o)
              /\ ~Above(o, syncs[i].fb) => Reached(syncs[i].a, o)
    BY DEF SyncDelivers
  <2>. DEFINE s == syncs[i]
  <2>1. s.a \in Device /\ s.b \in Device /\ s.aToB = {} /\ s.bToA = {}
    BY CallIsEngaged
  <2>2. Engaged(i, s.a, s.b)
    BY SyncFields DEF SyncInv
  <2>3. /\ Brings(applied[s.b] \cup {}, Issued, s.fa)
        /\ Brings(applied[s.a] \cup {}, Issued, s.fb)
    BY <2>1, <2>2 DEF Gapless, CallsCarry, Carries
  <2>. QED  BY <2>3 DEF Brings, Covers, Reached
<1>. QED  BY <1>1, Gaplessness, PTL

-----------------------------------------------------------------------------
\* The engine's own theorems hold of calls too.

\* Between calls as between batches the log keeps every winner (engine.ts
\* commit and compact).
THEOREM CallsKeepWinners == SyncSpec => []WinnersLogged
BY SyncImplementsEngine, WinnersStayLogged, PTL

\* A compaction that comes between the awaits of a call changes nothing a
\* reader sees (compaction.ts).
THEOREM CallsSeeNoCompaction == SyncSpec => CompactionKeepsView
BY SyncImplementsEngine, CompactionIsInvisible, PTL
=============================================================================
