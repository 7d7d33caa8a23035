---------------------------- MODULE SpacesProofs ----------------------------
(***************************************************************************)
(* Theorems about Spaces: however the component is mounted and unmounted,  *)
(* whatever is answered, fails or dies in between, one live space at most  *)
(* is open, the device keeps its identity, and recordings that do not      *)
(* overlap are kept; and as long as no engine had a job while another one  *)
(* was not closed, the log and the cells stay in agreement, the device's   *)
(* stamps stay unique, and a hook comes to show what the database holds.   *)
(*                                                                         *)
(* The invariant IInv says of every pending call what its caller has read  *)
(* and still relies on, unless two engines were at work at once, and of    *)
(* the order of the calls that a space is not loaded before the last write *)
(* of the one before it. KeyInv, for the identity, says what the order of  *)
(* the openings is; ViewInv, for the hook, which of its refreshes is the   *)
(* last to finish.                                                         *)
(***************************************************************************)
EXTENDS Spaces, OpsProofs, SequenceTheorems

-----------------------------------------------------------------------------
\* The invariant.

\* The calls of an opening before its space has a clock; all of its calls;
\* those of a job; and those of a recording.
Loading == {"openDb", "getKey", "setKey", "getClock"}
Opening == Loading \cup {"make", "hello"}
Work == {"read", "write"}
Recording == {"getPeers", "setPeers"}

\* Engine i has its clock, and peers or the application may give it jobs.
Acting(i) == inst[i].started > 0 \/ inst[i].at = "open"

\* No space but i's is there that is not closed.
Alone(i) == \A j \in Slot : inst[j].at # "free" /\ ~inst[j].closed => j = i

Opened ==
  [at : {"free", "opening", "open", "failed"}, key : Local \cup {NoKey}, clock : Clock,
   started : 0 .. Transports, listening : BOOLEAN, closed : BOOLEAN, cancelled : BOOLEAN]
Job ==
  [does : {"write"}, write : Writes] \cup [does : {"compact", "collect"}]
    \cup [does : {"receive"}, ops : RemoteOps]

Viewed == [of : 0 .. Slots, rows : SUBSET Op, loading : BOOLEAN]

IsSequence(q) == q \in Seq({q[k] : k \in DOMAIN q})

\* An opening makes one call at a time and a mutex is held by one job. Unless
\* two engines were at work at once, one batch is being written, and what opens
\* a space waits behind it.
CallsInOrder ==
  /\ IsSequence(calls)
  /\ \A k, m \in DOMAIN calls :
       /\ calls[k].by = calls[m].by /\ calls[k].at \in Opening /\ calls[m].at \in Opening
            => k = m
       /\ calls[k].by = calls[m].by /\ calls[k].at \in Work /\ calls[m].at \in Work
            => k = m
       /\ ~overlapped /\ calls[k].at \in Recording /\ calls[m].at \in Recording
            => k = m
       /\ ~crowded /\ calls[k].at = "write" /\ calls[m].at = "write" => k = m
       /\ ~crowded /\ calls[k].at = "write" /\ calls[m].at \in Loading \ {"openDb"}
            => k < m

\* What the component shows is the space it opened.
UiOk ==
  /\ mounted \in 0 .. Slots
  /\ shown \in {0, mounted}
  /\ view.of \in {0, shown}
  /\ view \in Viewed
  /\ mounted # 0 => inst[mounted].at # "free" /\ ~inst[mounted].closed
  /\ shown # 0 => inst[shown].at = "open"

\* The life of an engine. Unless two were at work at once, one that acts and is
\* not closed has read a clock that covers the log, and one with jobs is closed
\* or alone.
LifeOk(i) ==
  /\ inst[i].at = "free" => inst[i] = Unused
  /\ inst[i].closed => inst[i].at = "open"
  /\ inst[i].at = "opening" => (inst[i].cancelled <=> mounted # i)
  /\ inst[i].at = "open" /\ ~inst[i].closed => shown = i
  /\ inst[i].listening => Acting(i)
  /\ jobs[i] # <<>> => Acting(i) /\ (crowded \/ inst[i].closed \/ Alone(i))
  /\ Acting(i) => inst[i].key \in Local
  /\ Acting(i) /\ ~inst[i].closed => crowded \/ NotAfter(db.clock, inst[i].clock)

\* The stamps of a job's ops are covered by its engine's clock; those of a
\* write of this device are later than all that is stored.
BatchOk(c) ==
  /\ NotAfter(db.clock, inst[c.by].clock)
  /\ \A o \in c.ops : NotAfter(o.stamp, inst[c.by].clock)
  /\ c.does = "write" => /\ \A o \in c.ops : Earlier(db.clock, o.stamp)
                         /\ \A o, p \in c.ops : o = p

\* A call and the state of the space that made it.
Placed(c) ==
  /\ c.by \in Slot
  /\ inst[c.by].at # "free"
  /\ c.at \in Opening => inst[c.by].at = "opening"
  /\ c.at \in Loading => inst[c.by].started = 0
  /\ c.at \in {"make", "hello"} => inst[c.by].started > 0
  /\ c.at \in {"setKey", "getClock"} => inst[c.by].key \in Local
  /\ c.at \in Work => jobs[c.by] # <<>>

\* A batch that may be put in a database.
IsBatch(b) ==
  /\ b.ops \subseteq Op /\ IsFiniteSet(b.ops) /\ b.winners \subseteq Op
  /\ b.frontier \in Frontier /\ b.clock \in Clock

\* A compaction's plan, whatever peers record in the meantime: some rows go
\* whole, whose tombstones hide them, and of the others superseded ops.
IsPlan(plan) ==
  \E rows \in SUBSET {o.row : o \in db.cells} :
    /\ \A r \in rows : \E o \in GetRow(db, r) : o.column = Tombstone /\ o.value
    /\ plan.cells = {o \in db.cells : o.row \in rows}
    /\ plan.ops \subseteq db.ops
    /\ \A o \in db.ops : /\ o.row \in rows => o \in plan.ops
                         /\ o \in plan.ops => o.row \in rows \/ o \notin db.cells

\* What a job holds while it reads and writes. Unless two engines were at work
\* at once, no other engine acts, and what it is about to write is still what
\* it would work out from the database.
WorkOk(c) ==
  /\ c.at \in Work => /\ c.ops \subseteq Op /\ IsFiniteSet(c.ops)
                      /\ c.does \in {"write", "receive"} \/ Compacts(c.does)
                      /\ Compacts(c.does) => c.ops = {}
  /\ c.at = "read" /\ ~inst[c.by].closed => crowded \/ BatchOk(c)
  /\ c.at = "write" => IF Compacts(c.does)
                         THEN \E plan : c.txs = <<CompactPuts(plan)>>
                         ELSE \E b : IsBatch(b) /\ c.txs = <<BatchPuts(b)>>
  /\ c.at = "write" /\ ~crowded =>
       /\ BatchOk(c)
       /\ \A j \in Slot : Acting(j) /\ ~inst[j].closed => j = c.by
       /\ IF Compacts(c.does)
            THEN \E plan : IsPlan(plan) /\ c.txs = <<CompactPuts(plan)>>
            ELSE c.txs = <<BatchPuts(BatchOf(c.by, c.ops))>>

\* A recording, and the reading of a row.
ReadingOk(c) ==
  /\ c.at \in Recording => c.peer \in Device
  /\ c.at = "setPeers" =>
       /\ DOMAIN c.peers \subseteq Device
       /\ ~overlapped => c.peers = Spread(recorded, c.peer, c.have)
  /\ c.at = "row" => c.got \subseteq Op

\* The database and what this device has written to it.
DataOk ==
  /\ db.ops \subseteq Op /\ IsFiniteSet(db.ops) /\ db.cells \subseteq Op
  /\ db.frontier \in Frontier /\ db.clock \in Clock
  /\ db.key \in Local \cup {NoKey}
  /\ DOMAIN db.peers \subseteq Device
  /\ OneWriterAgrees
  /\ issued \subseteq Op
  /\ crowded \/ \A o \in issued : NotAfter(o.stamp, db.clock)
  /\ StampsUnique
  /\ RecordsKept

TypeInv ==
  /\ inst \in [Slot -> Opened]
  /\ jobs \in [Slot -> Seq(Job)]

IInv ==
  /\ TypeInv
  /\ CallsInOrder
  /\ UiOk
  /\ \A i \in Slot : LifeOk(i)
  /\ \A k \in DOMAIN calls : Placed(calls[k])
  /\ \A k \in DOMAIN calls : WorkOk(calls[k])
  /\ \A k \in DOMAIN calls : ReadingOk(calls[k])
  /\ DataOk

-----------------------------------------------------------------------------
\* The queue of calls.

\* A queue without its entry k.
LEMMA Removed ==
  ASSUME NEW S, NEW q \in Seq(S), NEW k \in 1 .. Len(q)
  PROVE  /\ RemoveAt(q, k) \in Seq(S)
         /\ Len(RemoveAt(q, k)) = Len(q) - 1
         /\ \A m \in 1 .. Len(q) - 1 :
              /\ m < k => RemoveAt(q, k)[m] = q[m]
              /\ m >= k => RemoveAt(q, k)[m] = q[m + 1]
<1>. DEFINE a == SubSeq(q, 1, k - 1)
            b == SubSeq(q, k + 1, Len(q))
<1>1. /\ a \in Seq(S) /\ Len(a) = k - 1
      /\ \A m \in 1 .. k - 1 : a[m] = q[m]
  <2>1. 1 \in Int /\ k - 1 \in Int /\ \A i \in 1 .. k - 1 : q[i] \in S
    OBVIOUS
  <2>2. /\ a \in Seq(S)
        /\ Len(a) = IF 1 <= k - 1 THEN (k - 1) - 1 + 1 ELSE 0
        /\ \A i \in 1 .. (k - 1) - 1 + 1 : a[i] = q[1 + i - 1]
    BY <2>1, SubSeqProperties
  <2>. HIDE DEF a
  <2>. QED  BY <2>2
<1>2. /\ b \in Seq(S) /\ Len(b) = Len(q) - k
      /\ \A m \in 1 .. Len(q) - k : b[m] = q[k + m]
  <2>1. k + 1 \in Int /\ Len(q) \in Int /\ \A i \in k + 1 .. Len(q) : q[i] \in S
    OBVIOUS
  <2>2. /\ b \in Seq(S)
        /\ Len(b) = IF k + 1 <= Len(q) THEN Len(q) - (k + 1) + 1 ELSE 0
        /\ \A i \in 1 .. Len(q) - (k + 1) + 1 : b[i] = q[(k + 1) + i - 1]
    BY <2>1, SubSeqProperties
  <2>. HIDE DEF b
  <2>3. \A m : (k + 1) + m - 1 = k + m \/ m \notin Int
    OBVIOUS
  <2>. QED  BY <2>2
<1>. HIDE DEF a, b
<1>3. /\ a \o b \in Seq(S) /\ Len(a \o b) = Len(a) + Len(b)
      /\ \A m \in 1 .. Len(a) + Len(b) :
           (a \o b)[m] = IF m <= Len(a) THEN a[m] ELSE b[m - Len(a)]
  BY <1>1, <1>2, ConcatProperties
<1>4. RemoveAt(q, k) = a \o b
  BY DEF RemoveAt, a, b
<1>5. ASSUME NEW m \in 1 .. Len(q) - 1
      PROVE  /\ m < k => (a \o b)[m] = q[m]
             /\ m >= k => (a \o b)[m] = q[m + 1]
  <2>1. CASE m < k
    BY <1>1, <1>2, <1>3, <2>1
  <2>2. CASE m >= k
    <3>1. m - (k - 1) \in 1 .. Len(q) - k /\ k + (m - (k - 1)) = m + 1
      BY <2>2
    <3>2. (a \o b)[m] = b[m - (k - 1)]
      BY <1>1, <1>2, <1>3, <2>2
    <3>3. b[m - (k - 1)] = q[k + (m - (k - 1))]
      BY <1>2, <3>1
    <3>4. q[k + (m - (k - 1))] = q[m + 1]
      BY <3>1
    <3>. QED  BY <2>2, <3>2, <3>3, <3>4
  <2>. QED  BY <2>1, <2>2
<1>6. Len(a \o b) = Len(q) - 1
  BY <1>1, <1>2, <1>3
<1>. QED  BY <1>3, <1>4, <1>5, <1>6

\* Call k of a queue is replaced by one call at the end, or by none.
LEMMA Replaced ==
  ASSUME NEW q, IsSequence(q), NEW k \in DOMAIN q,
         NEW next, next = <<>> \/ \E c : next = <<c>>
  PROVE  LET r == RemoveAt(q, k) \o next
         IN  /\ IsSequence(r)
             /\ DOMAIN r = 1 .. Len(q) - 1 + Len(next)
             /\ \A m \in 1 .. Len(q) - 1 :
                  /\ m < k => r[m] = q[m]
                  /\ m >= k => r[m] = q[m + 1]
             /\ next # <<>> => r[Len(q)] = next[1]
<1>1. PICK S : q \in Seq(S) /\ next \in Seq(S)
  <2>. DEFINE S == {q[m] : m \in DOMAIN q} \cup {next[m] : m \in DOMAIN next}
  <2>1. q \in Seq(S)
    BY DEF IsSequence
  <2>2. next \in Seq(S)
    <3>1. CASE next = <<>>
      BY <3>1
    <3>2. ASSUME NEW c, next = <<c>>  PROVE next \in Seq(S)
      <4>1. next[1] = c /\ 1 \in DOMAIN next
        BY <3>2
      <4>2. c \in S
        BY <4>1
      <4>. HIDE DEF S
      <4>. QED  BY <3>2, <4>2
    <3>. QED  BY <3>1, <3>2
  <2>. QED  BY <2>1, <2>2
<1>2. Len(q) \in Nat /\ DOMAIN q = 1 .. Len(q) /\ k \in 1 .. Len(q)
  BY <1>1
<1>. DEFINE t == RemoveAt(q, k)
<1>3. /\ t \in Seq(S) /\ Len(t) = Len(q) - 1
      /\ \A m \in 1 .. Len(q) - 1 :
           /\ m < k => t[m] = q[m]
           /\ m >= k => t[m] = q[m + 1]
  BY <1>1, <1>2, Removed
<1>. HIDE DEF t
<1>. DEFINE r == t \o next
<1>4. /\ r \in Seq(S) /\ Len(r) = Len(t) + Len(next)
      /\ \A m \in 1 .. Len(t) + Len(next) :
           r[m] = IF m <= Len(t) THEN t[m] ELSE next[m - Len(t)]
  BY <1>1, <1>3, ConcatProperties
<1>. HIDE DEF r
<1>5. Len(next) \in {0, 1} /\ (next # <<>> => Len(next) = 1)
  OBVIOUS
<1>6. IsSequence(r) /\ DOMAIN r = 1 .. Len(r)
  BY <1>4 DEF IsSequence
<1>7. next # <<>> => r[Len(q)] = next[1]
  BY <1>2, <1>3, <1>4, <1>5
<1>8. \A m \in 1 .. Len(q) - 1 : r[m] = t[m]
  BY <1>2, <1>3, <1>4, <1>5
<1>. QED  BY <1>2, <1>3, <1>4, <1>6, <1>7, <1>8 DEF r, t

\* A call of the same kind may take the place of the one answered; to write it
\* must be the only one, with no space on its way to its clock, unless two
\* engines were at work at once.
Follows(c, k) ==
  /\ c.by = calls[k].by
  /\ c.at \in Opening => calls[k].at \in Opening
  /\ c.at \in Work => calls[k].at \in Work
  /\ c.at \in Recording => calls[k].at \in Recording
  /\ ~crowded /\ c.at = "write" =>
       \A m \in DOMAIN calls \ {k} :
         calls[m].at # "write" /\ calls[m].at \notin Loading \ {"openDb"}

\* Replaced, of the pending calls when one is answered.
LEMMA CallReplaced ==
  ASSUME IsSequence(calls), NEW k \in DOMAIN calls,
         NEW next, next = <<>> \/ \E c : next = <<c>>, Answer(k, next)
  PROVE  /\ IsSequence(calls')
         /\ DOMAIN calls' = 1 .. Len(calls) - 1 + Len(next)
         /\ \A m \in 1 .. Len(calls) - 1 :
              /\ m < k => calls'[m] = calls[m]
              /\ m >= k => calls'[m] = calls[m + 1]
         /\ next # <<>> => calls'[Len(calls)] = next[1]
<1>. DEFINE r == RemoveAt(calls, k) \o next
<1>1. /\ IsSequence(r)
      /\ DOMAIN r = 1 .. Len(calls) - 1 + Len(next)
      /\ \A m \in 1 .. Len(calls) - 1 :
           /\ m < k => r[m] = calls[m]
           /\ m >= k => r[m] = calls[m + 1]
      /\ next # <<>> => r[Len(calls)] = next[1]
  BY Replaced
<1>. HIDE DEF r
<1>2. calls' = r
  BY DEF Answer, r
<1>. QED  BY <1>1, <1>2

\* An answer leaves the calls in order. Those pending after it are those that
\* were, but for the one answered, and the one its caller goes on to make.
LEMMA AnswerKeepsOrder ==
  ASSUME CallsInOrder, NEW k \in DOMAIN calls, NEW c, NEW next,
         next = <<>> \/ (next = <<c>> /\ Follows(c, k)),
         Answer(k, next), UNCHANGED <<overlapped, crowded>>
  PROVE  /\ CallsInOrder'
         /\ \A m \in DOMAIN calls' :
              \/ \E j \in DOMAIN calls \ {k} : calls'[m] = calls[j]
              \/ next = <<c>> /\ calls'[m] = c
<1>. DEFINE n == Len(calls)
            old(m) == IF m < k THEN m ELSE m + 1
<1>1. /\ n \in Nat /\ DOMAIN calls = 1 .. n /\ k \in 1 .. n
  BY DEF CallsInOrder, IsSequence
<1>2. /\ IsSequence(calls')
      /\ DOMAIN calls' = 1 .. n - 1 + Len(next)
      /\ \A m \in 1 .. n - 1 :
           /\ m < k => calls'[m] = calls[m]
           /\ m >= k => calls'[m] = calls[m + 1]
      /\ next # <<>> => calls'[n] = next[1]
  <2>1. IsSequence(calls) /\ (next = <<>> \/ \E e : next = <<e>>)
    BY DEF CallsInOrder
  <2>. QED  BY <2>1, CallReplaced
<1>3. ASSUME NEW m \in 1 .. n - 1
      PROVE  old(m) \in DOMAIN calls \ {k} /\ calls'[m] = calls[old(m)]
  BY <1>1, <1>2
<1>4. \A m, p \in 1 .. n - 1 : /\ old(m) = old(p) => m = p
                               /\ old(m) < old(p) => m < p
  BY <1>1
<1>5. ASSUME NEW m \in DOMAIN calls'
      PROVE  \/ m \in 1 .. n - 1
             \/ m = n /\ next = <<c>> /\ Follows(c, k) /\ calls'[m] = c
  <2>1. CASE next = <<>>
    BY <1>1, <1>2, <2>1
  <2>2. CASE next = <<c>> /\ Follows(c, k)
    <3>1. Len(next) = 1 /\ next[1] = c /\ next # <<>>
      BY <2>2
    <3>. QED  BY <1>1, <1>2, <2>2, <3>1
  <2>. QED  BY <2>1, <2>2
<1>. HIDE DEF old
<1>6. ASSUME NEW m \in DOMAIN calls', NEW p \in DOMAIN calls'
      PROVE  /\ calls'[m].by = calls'[p].by /\ calls'[m].at \in Opening
                /\ calls'[p].at \in Opening => m = p
             /\ calls'[m].by = calls'[p].by /\ calls'[m].at \in Work
                /\ calls'[p].at \in Work => m = p
             /\ ~overlapped /\ calls'[m].at \in Recording /\ calls'[p].at \in Recording
                  => m = p
             /\ ~crowded /\ calls'[m].at = "write" /\ calls'[p].at = "write" => m = p
             /\ ~crowded /\ calls'[m].at = "write"
                /\ calls'[p].at \in Loading \ {"openDb"} => m < p
  <2>1. CASE m \in 1 .. n - 1 /\ p \in 1 .. n - 1
    BY <1>3, <1>4, <2>1 DEF CallsInOrder
  <2>2. CASE m = n /\ p = n
    <3>1. calls'[n] = c /\ Follows(c, k)
      BY <1>5, <2>2, <1>1
    <3>2. ~(c.at = "write" /\ c.at \in Loading)
      BY DEF Loading
    <3>. QED  BY <2>2, <3>1, <3>2
  <2>3. CASE m = n /\ p \in 1 .. n - 1
    <3>1. calls'[m] = c /\ Follows(c, k)
      BY <1>5, <2>3, <1>1
    <3>2. old(p) \in DOMAIN calls \ {k} /\ calls'[p] = calls[old(p)]
      BY <1>3, <2>3
    <3>. QED  BY <3>1, <3>2 DEF Follows, CallsInOrder
  <2>4. CASE m \in 1 .. n - 1 /\ p = n
    <3>1. calls'[p] = c /\ Follows(c, k)
      BY <1>5, <2>4, <1>1
    <3>2. old(m) \in DOMAIN calls \ {k} /\ calls'[m] = calls[old(m)]
      BY <1>3, <2>4
    <3>3. m < p
      BY <1>1, <2>4
    <3>. QED  BY <3>1, <3>2, <3>3 DEF Follows, CallsInOrder
  <2>. QED  BY <1>5, <2>1, <2>2, <2>3, <2>4
<1>7. CallsInOrder'
  BY <1>2, <1>6 DEF CallsInOrder
<1>8. ASSUME NEW m \in DOMAIN calls'
      PROVE  \/ \E j \in DOMAIN calls \ {k} : calls'[m] = calls[j]
             \/ next = <<c>> /\ calls'[m] = c
  BY <1>3, <1>5
<1>. QED  BY <1>7, <1>8

\* Likewise a call made by an event, which neither opens, works nor overlaps.
LEMMA MakeKeepsOrder ==
  ASSUME CallsInOrder, NEW c, Make(c), c.at \notin Loading \ {"openDb"},
         c.at \in Opening =>
           \A m \in DOMAIN calls : calls[m].by = c.by => calls[m].at \notin Opening,
         c.at \in Work =>
           \A m \in DOMAIN calls : calls[m].by = c.by => calls[m].at \notin Work,
         c.at # "write",
         c.at \in Recording =>
           overlapped' \/ \A m \in DOMAIN calls : calls[m].at \notin Recording,
         overlapped => overlapped', crowded => crowded'
  PROVE  /\ CallsInOrder'
         /\ \A m \in DOMAIN calls' :
              (\E j \in DOMAIN calls : calls'[m] = calls[j]) \/ calls'[m] = c
<1>. DEFINE n == Len(calls)
            S == {calls[m] : m \in DOMAIN calls} \cup {c}
<1>1. n \in Nat /\ DOMAIN calls = 1 .. n /\ calls \in Seq(S)
  BY DEF CallsInOrder, IsSequence
<1>2. c \in S
  OBVIOUS
<1>. HIDE DEF S
<1>3. /\ calls' \in Seq(S) /\ Len(calls') = n + 1
      /\ \A m \in 1 .. n : calls'[m] = calls[m]
      /\ calls'[n + 1] = c
  BY <1>1, <1>2, AppendProperties DEF Make
<1>4. IsSequence(calls') /\ DOMAIN calls' = 1 .. n + 1
  BY <1>1, <1>3 DEF IsSequence
<1>5. ASSUME NEW m \in DOMAIN calls'
      PROVE  \/ m \in 1 .. n /\ calls'[m] = calls[m]
             \/ m = n + 1 /\ calls'[m] = c
  <2>1. m \in 1 .. n \/ m = n + 1
    BY <1>1, <1>4
  <2>. QED  BY <1>3, <2>1
<1>6. ASSUME NEW m \in DOMAIN calls', NEW p \in DOMAIN calls'
      PROVE  /\ calls'[m].by = calls'[p].by /\ calls'[m].at \in Opening
                /\ calls'[p].at \in Opening => m = p
             /\ calls'[m].by = calls'[p].by /\ calls'[m].at \in Work
                /\ calls'[p].at \in Work => m = p
             /\ ~overlapped' /\ calls'[m].at \in Recording /\ calls'[p].at \in Recording
                  => m = p
             /\ ~crowded' /\ calls'[m].at = "write" /\ calls'[p].at = "write" => m = p
             /\ ~crowded' /\ calls'[m].at = "write"
                /\ calls'[p].at \in Loading \ {"openDb"} => m < p
  <2>1. CASE m \in 1 .. n /\ p \in 1 .. n
    BY <1>1, <1>3, <2>1 DEF CallsInOrder
  <2>2. CASE ~(m \in 1 .. n /\ p \in 1 .. n)
    BY <1>1, <1>5, <2>2
  <2>. QED  BY <2>1, <2>2
<1>7. CallsInOrder'
  BY <1>4, <1>6 DEF CallsInOrder
<1>. QED  BY <1>1, <1>5, <1>7

-----------------------------------------------------------------------------
\* Winners of a batch and of a compacted log.

\* Putting the winners of the cells a batch touches leaves the winners of the
\* log and the batch.
LEMMA BatchMerges ==
  ASSUME NEW A, A \subseteq Op, IsFiniteSet(A), NEW S, S \subseteq Op, IsFiniteSet(S)
  PROVE  PutWinners(Winners(A),
                    {o \in Winners(Winners(A) \cup S) : \E p \in S : SameCell(o, p)})
           = Winners(A \cup S)
<1>. DEFINE B == Winners(A \cup S)
            W == {o \in B : \E p \in S : SameCell(o, p)}
<1>1. Winners(Winners(A) \cup S) = B
  BY MergeOfWinners
<1>2. IsFiniteSet(A \cup S) /\ A \cup S \subseteq Op
  BY FS_Union
<1>3. ASSUME NEW o \in Winners(A), \A w \in W : ~SameCell(o, w)  PROVE o \in B
  <2>1. \A p \in S : ~SameCell(o, p)
    <3>1. SUFFICES ASSUME NEW p \in S, SameCell(o, p)  PROVE FALSE
      OBVIOUS
    <3>2. PICK w \in B : SameCell(p, w)
      BY <1>2, WinnerExists
    <3>3. w \in W /\ SameCell(o, w)
      BY <3>1, <3>2 DEF SameCell
    <3>. QED  BY <1>3, <3>3
  <2>. QED  BY <2>1 DEF Winners
<1>4. ASSUME NEW o \in B, o \notin W
      PROVE  o \in Winners(A) /\ \A w \in W : ~SameCell(o, w)
  <2>1. o \in A /\ \A p \in S : ~SameCell(o, p)
    BY <1>4 DEF Winners, SameCell
  <2>2. ASSUME NEW w \in W, SameCell(o, w)  PROVE FALSE
    BY <2>1, <2>2 DEF SameCell
  <2>. QED  BY <2>1, <2>2 DEF Winners
<1>5. W \subseteq B
  OBVIOUS
<1>. HIDE DEF B, W
<1>6. PutWinners(Winners(A), W) = B
  BY <1>3, <1>4, <1>5 DEF PutWinners
<1>. QED  BY <1>1, <1>6 DEF B, W

\* Dropping superseded ops, and rows whole, leaves the other rows' winners.
LEMMA CompactionSparesWinners ==
  ASSUME NEW A, A \subseteq Op, IsFiniteSet(A), NEW rows, NEW S, S \subseteq A,
         \A o \in A : /\ o.row \in rows => o \in S
                      /\ o \in S => o.row \in rows \/ o \notin Winners(A)
  PROVE  Winners(A \ S) = {o \in Winners(A) : o.row \notin rows}
<1>1. {o \in Winners(A) : o.row \notin rows} \subseteq Winners(A \ S)
  BY DEF Winners
<1>2. ASSUME NEW o \in Winners(A \ S)  PROVE o \in Winners(A) /\ o.row \notin rows
  <2>0. o \in A \ S
    BY DEF Winners
  <2>1. o \in A /\ o.row \notin rows
    BY <2>0
  <2>2. PICK w \in Winners(A) : SameCell(o, w) /\ Leq(o.stamp, w.stamp)
    BY <2>1, WinnerExists
  <2>3. w \in A /\ w.row \notin rows
    BY <2>1, <2>2 DEF Winners, SameCell
  <2>4. w \in A \ S /\ Leq(w.stamp, o.stamp)
    BY <2>2, <2>3 DEF Winners
  <2>5. ASSUME NEW p \in A, SameCell(o, p)  PROVE Leq(p.stamp, o.stamp)
    <3>1. SameCell(w, p)
      BY <2>2, <2>5 DEF SameCell
    <3>2. Leq(p.stamp, w.stamp)
      BY <3>1 DEF Winners
    <3>3. p.stamp \in StampOrZero /\ w.stamp \in StampOrZero /\ o.stamp \in StampOrZero
      BY <2>1, <2>4 DEF Op, StampOrZero
    <3>. QED  BY <2>4, <3>2, <3>3, LeqTotalOrder
  <2>. QED  BY <2>1, <2>5 DEF Winners
<1>. QED  BY <1>1, <1>2

-----------------------------------------------------------------------------
\* What a step leaves alone stays as it should be.

\* The log, the cells, the frontier and the clock are not written.
StoreSame ==
  /\ db'.ops = db.ops /\ db'.cells = db.cells
  /\ db'.frontier = db.frontier /\ db'.clock = db.clock

\* A job's call, while its engine keeps its clock and no other comes to act.
LEMMA WorkFrame ==
  ASSUME NEW c, WorkOk(c), StoreSame, crowded => crowded',
         c.at \in Work => /\ inst'[c.by].clock = inst[c.by].clock
                          /\ inst[c.by].closed => inst'[c.by].closed,
         c.at = "write" /\ ~crowded' => \A j \in Slot : Acting(j)' /\ ~inst'[j].closed =>
                                             Acting(j) /\ ~inst[j].closed
  PROVE  WorkOk(c)'
<1>1. c.at \in Work => (BatchOk(c) => BatchOk(c)')
  BY DEF BatchOk, StoreSame
<1>2. c.at = "write" => BatchOf(c.by, c.ops)' = BatchOf(c.by, c.ops)
  BY DEF BatchOf, StoreSame, Work
<1>3. ASSUME NEW plan, IsPlan(plan)  PROVE IsPlan(plan)'
  <2>1. \A r : GetRow(db, r)' = GetRow(db, r)
    BY DEF GetRow, StoreSame
  <2>. QED  BY <1>3, <2>1 DEF IsPlan, StoreSame
<1>. QED  BY <1>1, <1>2, <1>3 DEF WorkOk, Work

\* A call's place, while its engine is as it was and its job is not done.
LEMMA PlacedFrame ==
  ASSUME NEW c, Placed(c), inst'[c.by] = inst[c.by],
         c.at \in Work => jobs'[c.by] # <<>>
  PROVE  Placed(c)'
BY DEF Placed

LEMMA ReadingFrame ==
  ASSUME NEW c, ReadingOk(c), overlapped' = overlapped, recorded' = recorded
  PROVE  ReadingOk(c)'
BY DEF ReadingOk

LEMMA LifeFrame ==
  ASSUME NEW i \in Slot, LifeOk(i), inst'[i] = inst[i], jobs'[i] = jobs[i],
         UNCHANGED <<mounted, shown>>, db'.clock = db.clock,
         crowded => crowded', jobs[i] # <<>> /\ ~inst[i].closed => crowded' \/ Alone(i)'
  PROVE  LifeOk(i)'
BY DEF LifeOk, Acting

LEMMA DataFrame ==
  ASSUME DataOk, StoreSame, db'.key \in Local \cup {NoKey}, db'.peers = db.peers,
         UNCHANGED <<issued, recorded, overlapped>>, crowded => crowded'
  PROVE  DataOk'
BY DEF DataOk, StoreSame, OneWriterAgrees, LogAndCellsAgree, StampsUnique, RecordsKept

-----------------------------------------------------------------------------
\* Steps that only answer a call: the caller goes on to the next, and of the
\* rest the rows shown may change.

LEMMA AnswerOnlyStep ==
  ASSUME IInv, NEW k \in DOMAIN calls, NEW c, NEW next,
         next = <<>> \/ (next = <<c>> /\ Follows(c, k) /\ Placed(c) /\ WorkOk(c) /\ ReadingOk(c)),
         Answer(k, next),
         UNCHANGED <<db, inst, jobs, mounted, shown, history>>,
         view'.of = view.of, view' \in Viewed
  PROVE  IInv'
<1>1. UNCHANGED <<issued, recorded, overlapped, crowded>>
  BY DEF history
<1>2. /\ CallsInOrder'
      /\ \A m \in DOMAIN calls' :
           \/ \E j \in DOMAIN calls \ {k} : calls'[m] = calls[j]
           \/ next = <<c>> /\ calls'[m] = c
  BY <1>1, AnswerKeepsOrder DEF IInv
<1>3. StoreSame
  BY DEF StoreSame
<1>4. TypeInv' /\ UiOk'
  BY DEF IInv, TypeInv, UiOk
<1>5. ASSUME NEW i \in Slot  PROVE LifeOk(i)'
  BY <1>1, LifeFrame DEF IInv, LifeOk, Alone
<1>6. ASSUME NEW d, Placed(d), WorkOk(d), ReadingOk(d)
      PROVE  Placed(d)' /\ WorkOk(d)' /\ ReadingOk(d)'
  <2>1. Placed(d)'
    BY <1>6, PlacedFrame DEF Placed
  <2>2. WorkOk(d)'
    BY <1>1, <1>3, <1>6, WorkFrame DEF Acting
  <2>3. ReadingOk(d)'
    BY <1>1, <1>6, ReadingFrame
  <2>. QED  BY <2>1, <2>2, <2>3
<1>7. ASSUME NEW m \in DOMAIN calls'
      PROVE  Placed(calls[m])' /\ WorkOk(calls[m])' /\ ReadingOk(calls[m])'
  <2>1. ASSUME NEW j \in DOMAIN calls, calls'[m] = calls[j]
        PROVE  Placed(calls[m])' /\ WorkOk(calls[m])' /\ ReadingOk(calls[m])'
    <3>1. Placed(calls[j]) /\ WorkOk(calls[j]) /\ ReadingOk(calls[j])
      BY DEF IInv
    <3>. DEFINE d == calls[j]
    <3>. QED  BY <1>6, <2>1, <3>1
  <2>. QED  BY <1>2, <1>6, <2>1
<1>8. DataOk'
  BY <1>1, <1>3, DataFrame DEF IInv, DataOk
<1>. QED  BY <1>2, <1>4, <1>5, <1>7, <1>8 DEF IInv

-----------------------------------------------------------------------------
\* Steps of an opening: its space's record changes, and the database's key at
\* most.

\* A space being opened is not closed, and its call is the only one of its
\* opening.
LEMMA OpeningState ==
  ASSUME IInv, NEW k \in DOMAIN calls, calls[k].at \in Opening
  PROVE  LET i == calls[k].by
         IN  /\ i \in Slot /\ inst[i] \in Opened
             /\ inst[i].at = "opening" /\ ~inst[i].closed
             /\ inst[i].cancelled <=> mounted # i
             /\ shown # i
             /\ Acting(i) <=> calls[k].at \in {"make", "hello"}
             /\ \A m \in DOMAIN calls \ {k} :
                  calls[m].by = i => calls[m].at \notin Opening
<1>1. Placed(calls[k])
  BY DEF IInv
<1>2. /\ calls[k].by \in Slot /\ inst[calls[k].by].at = "opening"
      /\ calls[k].at \in Loading => inst[calls[k].by].started = 0
      /\ calls[k].at \in {"make", "hello"} => inst[calls[k].by].started > 0
  BY <1>1 DEF Placed
<1>3. LifeOk(calls[k].by) /\ inst[calls[k].by] \in Opened
  BY <1>2 DEF IInv, TypeInv
<1>4. shown # calls[k].by
  BY <1>2, SpacesAssumption DEF IInv, UiOk, Slot
<1>5. \A m \in DOMAIN calls \ {k} :
        calls[m].by = calls[k].by => calls[m].at \notin Opening
  BY DEF IInv, CallsInOrder
<1>6. /\ ~inst[calls[k].by].closed
      /\ inst[calls[k].by].cancelled <=> mounted # calls[k].by
  BY <1>2, <1>3 DEF LifeOk
<1>7. Acting(calls[k].by) <=> calls[k].at \in {"make", "hello"}
  BY <1>2 DEF Acting, Opening
<1>. QED  BY <1>2, <1>3, <1>4, <1>5, <1>6, <1>7

LEMMA OpeningStep ==
  ASSUME IInv, NEW k \in DOMAIN calls, calls[k].at \in Opening,
         NEW i, i = calls[k].by, NEW new \in Opened, inst' = [inst EXCEPT ![i] = new],
         NEW c, NEW next,
         next = <<>> \/ (next = <<c>> /\ c.by = i /\ c.at \in Opening /\ Placed(c)'),
         Answer(k, next),
         UNCHANGED <<jobs, mounted, view, history>>,
         StoreSame, db'.key \in Local \cup {NoKey}, db'.peers = db.peers,
         new.at \in {"opening", "open", "failed"},
         new.cancelled = inst[i].cancelled,
         new.closed <=> new.at = "open" /\ new.cancelled,
         shown' = IF new.at = "open" /\ ~new.cancelled THEN i ELSE shown,
         Acting(i) => /\ new.started > 0
                                /\ new.clock = inst[i].clock
                                /\ new.key = inst[i].key,
         new.listening => new.started > 0,
         new.started > 0 \/ new.at = "open" =>
           new.key \in Local /\ (crowded \/ NotAfter(db.clock, new.clock)),
         ~crowded /\ ~Acting(i) /\ (new.started > 0 \/ new.at = "open") =>
           \A m \in DOMAIN calls : calls[m].at # "write"
  PROVE  IInv'
<1>1. /\ i \in Slot /\ inst[i] \in Opened
      /\ inst[i].at = "opening" /\ ~inst[i].closed
      /\ inst[i].cancelled <=> mounted # i
      /\ shown # i
      /\ \A m \in DOMAIN calls \ {k} : calls[m].by = i => calls[m].at \notin Opening
  BY OpeningState
<1>2. /\ issued' = issued /\ recorded' = recorded /\ overlapped' = overlapped
      /\ crowded' = crowded
  BY DEF history
<1>3. next = <<c>> => Follows(c, k)
  <2>1. ASSUME c.at \in Opening  PROVE c.at \notin Work /\ c.at \notin Recording /\ c.at # "write"
    BY <2>1 DEF Opening, Loading, Work, Recording
  <2>. QED  BY <2>1 DEF Follows
<1>4. /\ CallsInOrder'
      /\ \A m \in DOMAIN calls' :
           \/ \E j \in DOMAIN calls \ {k} : calls'[m] = calls[j]
           \/ next = <<c>> /\ calls'[m] = c
  <2>1. next = <<>> \/ (next = <<c>> /\ Follows(c, k))
    BY <1>3
  <2>. QED  BY <1>2, <2>1, AnswerKeepsOrder DEF IInv
<1>5. /\ inst' \in [Slot -> Opened] /\ inst'[i] = new
      /\ \A j \in Slot \ {i} : inst'[j] = inst[j]
  BY <1>1 DEF IInv, TypeInv
<1>6. TypeInv'
  BY <1>5 DEF IInv, TypeInv
<1>7. UiOk'
  <2>1. shown' = shown \/ (shown' = i /\ mounted = i /\ new.at = "open")
    BY <1>1
  <2>2. mounted = i => ~new.closed
    BY <1>1
  <2>3. shown \in {0, mounted} /\ view.of \in {0, shown} /\ mounted \in 0 .. Slots
    BY DEF IInv, UiOk
  <2>4. mounted # 0 => inst'[mounted].at # "free" /\ ~inst'[mounted].closed
    BY <1>5, <2>2, <2>3 DEF IInv, UiOk, Slot
  <2>5. shown' # 0 => inst'[shown'].at = "open"
    BY <1>1, <1>5, <2>1, <2>3 DEF IInv, UiOk, Slot
  <2>6. shown' \in {0, mounted} /\ view.of \in {0, shown'}
    BY <1>1, <2>1, <2>3
  <2>. QED  BY <2>3, <2>4, <2>5, <2>6 DEF IInv, UiOk
<1>8. ASSUME NEW j \in Slot  PROVE LifeOk(j)'
  <2>1. CASE j = i
    <3>1. inst'[j] = new /\ new.at # "free"
      BY <1>5, <2>1
    <3>2. jobs[j] # <<>> => new.started > 0 /\ (crowded \/ new.closed \/ Alone(j)')
      BY <1>1, <1>5, <2>1 DEF IInv, LifeOk, Alone
    <3>. QED  BY <1>1, <1>2, <2>1, <3>1, <3>2 DEF LifeOk, Acting, StoreSame
  <2>2. CASE j # i
    <3>1. inst'[j] = inst[j]
      BY <1>5, <2>2
    <3>2. LifeOk(j)
      BY DEF IInv
    <3>3. jobs[j] # <<>> => crowded \/ inst[j].closed
      BY <1>1, <2>2, <3>2 DEF LifeOk, Alone
    <3>4. ~(inst[j].at = "open" /\ ~inst[j].closed /\ shown' # j)
      BY <1>1, <3>2, SpacesAssumption DEF LifeOk, IInv, UiOk, Slot
    <3>5. jobs'[j] = jobs[j] /\ mounted' = mounted /\ db'.clock = db.clock
      BY DEF StoreSame
    <3>6. /\ jobs'[j] # <<>> => Acting(j)' /\ (crowded' \/ inst'[j].closed)
          /\ inst'[j].listening => Acting(j)'
      BY <1>2, <3>1, <3>2, <3>3, <3>5 DEF LifeOk, Acting
    <3>7. /\ inst'[j].at = "free" => inst'[j] = Unused
          /\ inst'[j].closed => inst'[j].at = "open"
          /\ inst'[j].at = "opening" => (inst'[j].cancelled <=> mounted' # j)
          /\ inst'[j].at = "open" /\ ~inst'[j].closed => shown' = j
      BY <3>1, <3>2, <3>4, <3>5 DEF LifeOk
    <3>8. /\ Acting(j)' => inst'[j].key \in Local
          /\ Acting(j)' /\ ~inst'[j].closed => crowded' \/ NotAfter(db'.clock, inst'[j].clock)
      BY <1>2, <3>1, <3>2, <3>5 DEF LifeOk, Acting
    <3>. QED  BY <3>6, <3>7, <3>8 DEF LifeOk
  <2>. QED  BY <2>1, <2>2
<1>9. ASSUME NEW p \in DOMAIN calls \ {k}, NEW d, d = calls[p]
      PROVE  Placed(d)' /\ WorkOk(d)' /\ ReadingOk(d)'
  <2>1. Placed(d) /\ WorkOk(d) /\ ReadingOk(d)
    BY <1>9 DEF IInv
  <2>2. d.at \in Opening => d.by # i
    BY <1>1, <1>9
  <2>3. d.at \in Work /\ d.by = i => Acting(i)
    BY <1>1, <2>1 DEF Placed, IInv, LifeOk
  <2>4. Placed(d)'
    <3>1. CASE d.by # i
      BY <1>5, <2>1, <3>1 DEF Placed
    <3>2. CASE d.by = i
      <4>1. /\ d.at \notin Opening /\ d.at \notin Loading
            /\ d.at \notin {"make", "hello", "setKey", "getClock"}
        BY <2>2, <3>2 DEF Opening, Loading
      <4>. QED  BY <1>5, <2>1, <3>2, <4>1 DEF Placed
    <3>. QED  BY <3>1, <3>2
  <2>5. d.at \in Work => /\ inst'[d.by].clock = inst[d.by].clock
                         /\ inst[d.by].closed => inst'[d.by].closed
    BY <1>1, <1>5, <2>1, <2>3 DEF Placed
  <2>6. d.at = "write" /\ ~crowded' =>
          \A j \in Slot : Acting(j)' /\ ~inst'[j].closed => Acting(j) /\ ~inst[j].closed
    BY <1>1, <1>2, <1>5, <1>9 DEF Acting
  <2>7. WorkOk(d)'
    BY <1>2, <2>1, <2>5, <2>6, WorkFrame
  <2>8. ReadingOk(d)'
    BY <1>2, <2>1, ReadingFrame
  <2>. QED  BY <2>4, <2>7, <2>8
<1>10. ASSUME NEW m \in DOMAIN calls'
       PROVE  Placed(calls[m])' /\ WorkOk(calls[m])' /\ ReadingOk(calls[m])'
  <2>1. CASE next = <<c>> /\ calls'[m] = c
    <3>1. Placed(c)' /\ c.at \in Opening
      BY <2>1
    <3>2. c.at \notin Work \cup Recording \cup {"read", "write", "setPeers", "row"}
      BY <3>1 DEF Opening, Loading, Work, Recording
    <3>3. WorkOk(c)' /\ ReadingOk(c)'
      BY <3>2 DEF WorkOk, ReadingOk
    <3>. QED  BY <2>1, <3>1, <3>3
  <2>. QED  BY <1>4, <1>9, <2>1
<1>11. DataOk'
  BY <1>2, DataFrame DEF IInv, DataOk
<1>. QED  BY <1>4, <1>6, <1>7, <1>8, <1>10, <1>11 DEF IInv

\* With one engine at work the clock is read when no batch is on its way: the
\* call that reads it waits for those before it that use the same object store,
\* and no batch is behind.
LEMMA NothingToWait ==
  ASSUME IInv, NEW k \in DOMAIN calls, Ready(k), calls[k].at = "getClock", ~crowded
  PROVE  \A m \in DOMAIN calls : calls[m].at # "write"
<1>1. SUFFICES ASSUME NEW m \in DOMAIN calls, calls[m].at = "write"
               PROVE  FALSE
  OBVIOUS
<1>2. m < k
  BY <1>1 DEF IInv, CallsInOrder, Loading
<1>3. m \in Nat /\ k \in Nat /\ m >= 1
  BY DEF IInv, CallsInOrder, IsSequence
<1>4. Scope(calls[k]) = {"meta"} /\ Scope(calls[m]) = {"ops", "cells", "meta"}
  BY <1>1 DEF Scope
<1>5. m \in 1 .. k - 1
  BY <1>2, <1>3
<1>. QED  BY <1>2, <1>3, <1>4, <1>5 DEF Ready, Waits

LEMMA OpenDbStep ==
  ASSUME IInv, NEW k \in DOMAIN calls, OpenDb(k)
  PROVE  IInv'
<1>. DEFINE c == Call(calls[k].by, "getKey")
            next == <<c>>
<1>1. Placed(calls[k])
  BY DEF IInv
<1>2. c.by = calls[k].by /\ c.at = "getKey"
  BY DEF Call
<1>3. Follows(c, k) /\ Placed(c) /\ WorkOk(c) /\ ReadingOk(c)
  BY <1>1, <1>2 DEF OpenDb, Follows, Placed, WorkOk, ReadingOk, Opening, Loading, Work, Recording
<1>4. Answer(k, next) /\ UNCHANGED <<db, inst, jobs, mounted, shown, history>>
  BY DEF OpenDb, ui
<1>5. view'.of = view.of /\ view' \in Viewed
  BY DEF OpenDb, ui, IInv, UiOk
<1>. HIDE DEF c
<1>. QED  BY <1>3, <1>4, <1>5, AnswerOnlyStep

LEMMA GetKeyStep ==
  ASSUME IInv, NEW k \in DOMAIN calls, GetKey(k)
  PROVE  IInv'
<1>1. PICK i : i = calls[k].by
  OBVIOUS
<1>2. PICK c : c = Call(i, IF db.key # NoKey THEN "getClock" ELSE "setKey")
  OBVIOUS
<1>3. PICK key \in Local : inst' = [inst EXCEPT ![i].key = key]
  BY <1>1 DEF GetKey, Identities, FreshKeys, IInv, DataOk
<1>4. calls[k].at = "getKey" /\ calls[k].at \in Opening
  BY DEF GetKey, Opening, Loading
<1>5. /\ i \in Slot /\ inst[i] \in Opened /\ inst[i].at = "opening" /\ ~inst[i].closed
      /\ ~Acting(i) /\ inst[i].started = 0 /\ ~inst[i].listening
  BY <1>1, <1>4, OpeningState DEF GetKey, IInv, Placed, Loading, LifeOk
<1>6. PICK new : new = [inst[i] EXCEPT !.key = key]
  OBVIOUS
<1>7. new \in Opened /\ inst' = [inst EXCEPT ![i] = new] /\ inst'[i] = new
  BY <1>3, <1>5, <1>6 DEF Opened, IInv, TypeInv
<1>8. /\ new.at = "opening" /\ ~new.closed /\ new.started = 0 /\ new.key \in Local
      /\ ~new.listening
      /\ new.cancelled = inst[i].cancelled
  BY <1>5, <1>6 DEF Opened
<1>9. c.by = i /\ c.at \in {"getClock", "setKey"}
  BY <1>2 DEF Call
<1>10. c.at \in Opening /\ Placed(c)'
  BY <1>5, <1>7, <1>8, <1>9 DEF Placed, Opening, Loading, Work
<1>11. Answer(k, <<c>>)
  BY <1>1, <1>2 DEF GetKey
<1>12. /\ UNCHANGED <<jobs, mounted, view, history>> /\ shown' = shown
       /\ StoreSame /\ db'.key \in Local \cup {NoKey} /\ db'.peers = db.peers
  BY DEF GetKey, ui, StoreSame, IInv, DataOk
<1>. DEFINE next == <<c>>
<1>13. next = <<c>> /\ c.by = i /\ c.at \in Opening /\ Placed(c)' /\ Answer(k, next)
  BY <1>9, <1>10, <1>11
<1>. HIDE DEF next
<1>14. /\ new.at \in {"opening", "open", "failed"}
       /\ new.closed <=> new.at = "open" /\ new.cancelled
       /\ shown' = IF new.at = "open" /\ ~new.cancelled THEN i ELSE shown
       /\ Acting(i) => /\ new.started > 0
                       /\ new.clock = inst[i].clock
                       /\ new.key = inst[i].key
       /\ ~(new.started > 0 \/ new.at = "open") /\ ~new.listening
  BY <1>5, <1>8, <1>12
<1>. QED  BY <1>1, <1>4, <1>7, <1>8, <1>12, <1>13, <1>14, OpeningStep

\* Writing a value of meta leaves log, cells, frontier and clock.
LEMMA MetaPut ==
  ASSUME NEW v
  PROVE  LET k == Perform(db, [key |-> v])
             p == Perform(db, [peers |-> v])
         IN  /\ k.ops = db.ops /\ k.cells = db.cells
             /\ k.frontier = db.frontier /\ k.clock = db.clock
             /\ k.key = v /\ k.peers = db.peers
             /\ p.ops = db.ops /\ p.cells = db.cells
             /\ p.frontier = db.frontier /\ p.clock = db.clock
             /\ p.key = db.key /\ p.peers = v
<1>1. \A S : PutWinners(S, {}) = S /\ KeepCells(S, {}) = S
  BY DEF PutWinners, KeepCells
<1>. QED  BY <1>1 DEF Perform, Entry

LEMMA SetKeyStep ==
  ASSUME IInv, NEW k \in DOMAIN calls, SetKey(k)
  PROVE  IInv'
<1>1. PICK i : i = calls[k].by
  OBVIOUS
<1>2. PICK c : c = Call(i, "getClock")
  OBVIOUS
<1>3. calls[k].at = "setKey" /\ calls[k].at \in Opening
  BY DEF SetKey, Opening, Loading
<1>4. /\ i \in Slot /\ inst[i] \in Opened /\ inst[i].at = "opening" /\ ~inst[i].closed
      /\ ~Acting(i) /\ inst[i].started = 0 /\ inst[i].key \in Local /\ ~inst[i].listening
  BY <1>1, <1>3, OpeningState DEF IInv, Placed, Loading, LifeOk
<1>5. PICK new : new = inst[i]
  OBVIOUS
<1>6. new \in Opened /\ inst' = [inst EXCEPT ![i] = new] /\ inst'[i] = new
  BY <1>4, <1>5 DEF SetKey, IInv, TypeInv
<1>7. c.by = i /\ c.at = "getClock"
  BY <1>2 DEF Call
<1>8. c.at \in Opening /\ Placed(c)'
  BY <1>4, <1>5, <1>6, <1>7 DEF Placed, Opening, Loading, Work
<1>. DEFINE next == <<c>>
<1>9. next = <<c>> /\ c.by = i /\ c.at \in Opening /\ Placed(c)' /\ Answer(k, next)
  BY <1>1, <1>2, <1>7, <1>8 DEF SetKey
<1>10. UNCHANGED <<jobs, mounted, view, history>> /\ shown' = shown
  BY DEF SetKey, ui
<1>11. StoreSame /\ db'.key \in Local \cup {NoKey} /\ db'.peers = db.peers
  BY <1>1, <1>4, MetaPut DEF SetKey, StoreSame
<1>. HIDE DEF next
<1>12. /\ new.at \in {"opening", "open", "failed"}
       /\ new.cancelled = inst[i].cancelled
       /\ new.closed <=> new.at = "open" /\ new.cancelled
       /\ shown' = IF new.at = "open" /\ ~new.cancelled THEN i ELSE shown
       /\ Acting(i) => /\ new.started > 0
                       /\ new.clock = inst[i].clock
                       /\ new.key = inst[i].key
       /\ ~(new.started > 0 \/ new.at = "open") /\ ~new.listening
  BY <1>4, <1>5, <1>10
<1>. QED  BY <1>1, <1>3, <1>6, <1>9, <1>10, <1>11, <1>12, OpeningStep

\* The calls after which a space has its clock, or has had it.
LEMMA MadeBeforeState ==
  ASSUME IInv, NEW k \in DOMAIN calls, Ready(k), calls[k].at \in {"getClock", "hello"},
         NEW i, i = calls[k].by
  PROVE  /\ MadeBefore(k) \in Opened
         /\ MadeBefore(k).at = "opening" /\ ~MadeBefore(k).closed
         /\ MadeBefore(k).started = inst[i].started
         /\ MadeBefore(k).key = inst[i].key /\ inst[i].key \in Local
         /\ MadeBefore(k).cancelled = inst[i].cancelled
         /\ MadeBefore(k).listening = inst[i].listening
         /\ inst[i].listening => inst[i].started > 0
         /\ crowded \/ NotAfter(db.clock, MadeBefore(k).clock)
         /\ Acting(i) => inst[i].started > 0 /\ MadeBefore(k).clock = inst[i].clock
         /\ ~crowded /\ ~Acting(i) => \A m \in DOMAIN calls : calls[m].at # "write"
<1>1. /\ i \in Slot /\ inst[i] \in Opened /\ inst[i].at = "opening" /\ ~inst[i].closed
      /\ Acting(i) <=> calls[k].at = "hello"
  BY OpeningState DEF Opening, Loading
<1>2. /\ Acting(i) => inst[i].started > 0
      /\ inst[i].listening => inst[i].started > 0
  BY <1>1 DEF Acting, IInv, LifeOk
<1>3. inst[i].key \in Local
  BY <1>1 DEF IInv, Placed, LifeOk
<1>4. CASE calls[k].at = "getClock"
  <2>1. MadeBefore(k) = [inst[i] EXCEPT !.clock = db.clock]
    BY <1>4 DEF MadeBefore
  <2>2. db.clock \in Clock
    BY DEF IInv, DataOk
  <2>3. /\ MadeBefore(k) \in Opened
        /\ MadeBefore(k).at = inst[i].at /\ MadeBefore(k).closed = inst[i].closed
        /\ MadeBefore(k).started = inst[i].started
        /\ MadeBefore(k).key = inst[i].key
        /\ MadeBefore(k).cancelled = inst[i].cancelled
        /\ MadeBefore(k).listening = inst[i].listening
        /\ MadeBefore(k).clock = db.clock
    BY <1>1, <2>1, <2>2 DEF Opened
  <2>4. NotAfter(db.clock, db.clock)
    BY DEF NotAfter, SameTime
  <2>. QED  BY <1>1, <1>2, <1>3, <1>4, <2>3, <2>4, NothingToWait
<1>5. CASE calls[k].at = "hello"
  <2>1. MadeBefore(k) = inst[i]
    BY <1>5 DEF MadeBefore
  <2>2. crowded \/ NotAfter(db.clock, inst[i].clock)
    BY <1>1, <1>5 DEF IInv, LifeOk
  <2>. QED  BY <1>1, <1>2, <1>3, <1>5, <2>1, <2>2
<1>. QED  BY <1>4, <1>5

LEMMA CallFactoryStep ==
  ASSUME IInv, NEW k \in DOMAIN calls, Ready(k), CallFactory(k)
  PROVE  IInv'
<1>1. PICK i : i = calls[k].by
  OBVIOUS
<1>2. PICK c : c = Call(i, "make")
  OBVIOUS
<1>3. calls[k].at \in {"getClock", "hello"} /\ calls[k].at \in Opening
  BY DEF CallFactory, Opening, Loading
<1>4. PICK made : made = MadeBefore(k)
  OBVIOUS
<1>5. /\ made \in Opened /\ made.at = "opening" /\ ~made.closed
      /\ made.started = inst[i].started
      /\ made.key = inst[i].key /\ inst[i].key \in Local
      /\ made.cancelled = inst[i].cancelled
      /\ made.listening = inst[i].listening
      /\ crowded \/ NotAfter(db.clock, made.clock)
      /\ Acting(i) => inst[i].started > 0 /\ made.clock = inst[i].clock
      /\ ~crowded /\ ~Acting(i) => \A m \in DOMAIN calls : calls[m].at # "write"
  BY <1>1, <1>3, <1>4, MadeBeforeState
<1>6. PICK new : new = [made EXCEPT !.started = @ + 1]
  OBVIOUS
<1>7. i \in Slot /\ inst' = [inst EXCEPT ![i] = new] /\ inst[i].started < Transports
  BY <1>1, <1>3, <1>4, <1>6, OpeningState DEF CallFactory
<1>8. /\ new \in Opened /\ new.at = "opening" /\ ~new.closed
      /\ new.started > 0 /\ new.key = made.key /\ new.clock = made.clock
      /\ new.cancelled = made.cancelled
  BY <1>5, <1>6, <1>7, SpacesAssumption DEF Opened
<1>9. inst'[i] = new
  BY <1>7 DEF IInv, TypeInv
<1>10. c.by = i /\ c.at = "make"
  BY <1>2 DEF Call
<1>11. c.at \in Opening /\ Placed(c)'
  BY <1>5, <1>7, <1>8, <1>9, <1>10 DEF Placed, Opening, Loading, Work
<1>. DEFINE next == <<c>>
<1>12. next = <<c>> /\ c.by = i /\ c.at \in Opening /\ Placed(c)' /\ Answer(k, next)
  BY <1>1, <1>2, <1>10, <1>11 DEF CallFactory
<1>13. /\ UNCHANGED <<jobs, mounted, view, history>> /\ shown' = shown
       /\ StoreSame /\ db'.key \in Local \cup {NoKey} /\ db'.peers = db.peers
  BY DEF CallFactory, ui, StoreSame, IInv, DataOk
<1>. HIDE DEF next
<1>14. /\ new.at \in {"opening", "open", "failed"}
       /\ new.cancelled = inst[i].cancelled
       /\ new.closed <=> new.at = "open" /\ new.cancelled
       /\ shown' = IF new.at = "open" /\ ~new.cancelled THEN i ELSE shown
       /\ Acting(i) => /\ new.started > 0
                       /\ new.clock = inst[i].clock
                       /\ new.key = inst[i].key
       /\ new.key \in Local /\ (crowded \/ NotAfter(db.clock, new.clock))
       /\ new.started > 0
  BY <1>5, <1>8, <1>13
<1>. QED  BY <1>1, <1>3, <1>5, <1>7, <1>8, <1>12, <1>13, <1>14, OpeningStep

LEMMA MakeTransportStep ==
  ASSUME IInv, NEW k \in DOMAIN calls, MakeTransport(k)
  PROVE  IInv'
<1>1. PICK i : i = calls[k].by
  OBVIOUS
<1>2. PICK c : c = Call(i, "hello")
  OBVIOUS
<1>3. calls[k].at = "make" /\ calls[k].at \in Opening
  BY DEF MakeTransport, Opening, Loading
<1>4. /\ i \in Slot /\ inst[i] \in Opened /\ inst[i].at = "opening" /\ ~inst[i].closed
      /\ Acting(i) /\ inst[i].started > 0 /\ inst[i].key \in Local
      /\ crowded \/ NotAfter(db.clock, inst[i].clock)
  BY <1>1, <1>3, OpeningState DEF IInv, Placed, LifeOk
<1>5. PICK new : new = [inst[i] EXCEPT !.listening = TRUE]
  OBVIOUS
<1>6. /\ new \in Opened /\ new.at = "opening" /\ ~new.closed
      /\ new.started = inst[i].started /\ new.key = inst[i].key /\ new.clock = inst[i].clock
      /\ new.cancelled = inst[i].cancelled
  BY <1>4, <1>5 DEF Opened
<1>7. inst' = [inst EXCEPT ![i] = new] /\ inst'[i] = new
  BY <1>1, <1>4, <1>5 DEF MakeTransport, IInv, TypeInv
<1>8. c.by = i /\ c.at = "hello"
  BY <1>2 DEF Call
<1>9. c.at \in Opening /\ Placed(c)'
  BY <1>4, <1>6, <1>7, <1>8 DEF Placed, Opening, Loading, Work
<1>. DEFINE next == <<c>>
<1>10. next = <<c>> /\ c.by = i /\ c.at \in Opening /\ Placed(c)' /\ Answer(k, next)
  BY <1>1, <1>2, <1>8, <1>9 DEF MakeTransport
<1>11. /\ UNCHANGED <<jobs, mounted, view, history>> /\ shown' = shown
       /\ StoreSame /\ db'.key \in Local \cup {NoKey} /\ db'.peers = db.peers
  BY DEF MakeTransport, ui, StoreSame, IInv, DataOk
<1>. HIDE DEF next
<1>12. /\ new.at \in {"opening", "open", "failed"}
       /\ new.closed <=> new.at = "open" /\ new.cancelled
       /\ shown' = IF new.at = "open" /\ ~new.cancelled THEN i ELSE shown
       /\ Acting(i) => /\ new.started > 0
                       /\ new.clock = inst[i].clock
                       /\ new.key = inst[i].key
       /\ new.key \in Local /\ (crowded \/ NotAfter(db.clock, new.clock))
       /\ new.started > 0
  BY <1>4, <1>6, <1>11
<1>. QED  BY <1>1, <1>3, <1>4, <1>6, <1>7, <1>10, <1>11, <1>12, OpeningStep

LEMMA FinishStep ==
  ASSUME IInv, NEW k \in DOMAIN calls, Ready(k), Finish(k)
  PROVE  IInv'
<1>1. PICK i : i = calls[k].by
  OBVIOUS
<1>2. calls[k].at \in {"getClock", "hello"} /\ calls[k].at \in Opening
  BY DEF Finish, Opening, Loading
<1>3. PICK made : made = MadeBefore(k)
  OBVIOUS
<1>4. /\ made \in Opened /\ made.at = "opening" /\ ~made.closed
      /\ made.started = inst[i].started
      /\ made.key = inst[i].key /\ inst[i].key \in Local
      /\ made.cancelled = inst[i].cancelled
      /\ made.listening = inst[i].listening
      /\ inst[i].listening => inst[i].started > 0
      /\ crowded \/ NotAfter(db.clock, made.clock)
      /\ Acting(i) => inst[i].started > 0 /\ made.clock = inst[i].clock
      /\ ~crowded /\ ~Acting(i) => \A m \in DOMAIN calls : calls[m].at # "write"
  BY <1>1, <1>2, <1>3, MadeBeforeState
<1>5. PICK new : new = [made EXCEPT !.at = "open", !.closed = inst[i].cancelled]
  OBVIOUS
<1>6. i \in Slot /\ inst' = [inst EXCEPT ![i] = new] /\ inst[i].cancelled \in BOOLEAN
  BY <1>1, <1>2, <1>3, <1>5, OpeningState DEF Finish, Opened
<1>7. /\ new \in Opened /\ new.at = "open" /\ new.closed = inst[i].cancelled
      /\ new.started = made.started /\ new.key = made.key /\ new.clock = made.clock
      /\ new.cancelled = made.cancelled /\ new.listening = made.listening
  BY <1>4, <1>5, <1>6 DEF Opened
<1>. DEFINE next == <<>>
<1>8. next = <<>> /\ Answer(k, next)
  BY DEF Finish
<1>9. /\ UNCHANGED <<jobs, mounted, view, history>>
      /\ shown' = IF inst[i].cancelled THEN shown ELSE i
      /\ StoreSame /\ db'.key \in Local \cup {NoKey} /\ db'.peers = db.peers
  BY <1>1 DEF Finish, StoreSame, IInv, DataOk
<1>. HIDE DEF next
<1>10. /\ new.at \in {"opening", "open", "failed"}
       /\ new.cancelled = inst[i].cancelled
       /\ new.closed <=> new.at = "open" /\ new.cancelled
       /\ shown' = IF new.at = "open" /\ ~new.cancelled THEN i ELSE shown
       /\ Acting(i) => /\ new.started > 0
                       /\ new.clock = inst[i].clock
                       /\ new.key = inst[i].key
       /\ new.key \in Local /\ (crowded \/ NotAfter(db.clock, new.clock))
       /\ new.listening => new.started > 0
  BY <1>4, <1>6, <1>7, <1>9
<1>. QED  BY <1>1, <1>2, <1>4, <1>6, <1>7, <1>8, <1>9, <1>10, OpeningStep

LEMMA OpenFailsStep ==
  ASSUME IInv, NEW k \in DOMAIN calls, OpenFails(k)
  PROVE  IInv'
<1>1. PICK i : i = calls[k].by
  OBVIOUS
<1>2. calls[k].at \in {"openDb", "setKey", "make"} /\ calls[k].at \in Opening
  BY DEF OpenFails, Opening, Loading
<1>3. /\ i \in Slot /\ inst[i] \in Opened /\ inst[i].at = "opening" /\ ~inst[i].closed
      /\ inst[i].started > 0 <=> Acting(i)
      /\ inst[i].listening => inst[i].started > 0
      /\ Acting(i) => /\ inst[i].key \in Local
                      /\ crowded \/ NotAfter(db.clock, inst[i].clock)
  BY <1>1, <1>2, OpeningState DEF IInv, LifeOk, Acting
<1>4. PICK new : new = [inst[i] EXCEPT !.at = "failed"]
  OBVIOUS
<1>5. /\ new \in Opened /\ new.at = "failed" /\ ~new.closed
      /\ new.started = inst[i].started /\ new.key = inst[i].key /\ new.clock = inst[i].clock
      /\ new.cancelled = inst[i].cancelled /\ new.listening = inst[i].listening
  BY <1>3, <1>4 DEF Opened
<1>6. inst' = [inst EXCEPT ![i] = new]
  BY <1>1, <1>3, <1>4 DEF OpenFails, IInv, TypeInv
<1>. DEFINE next == <<>>
<1>7. next = <<>> /\ Answer(k, next)
  BY DEF OpenFails
<1>8. /\ UNCHANGED <<jobs, mounted, view, history>> /\ shown' = shown
      /\ StoreSame /\ db'.key \in Local \cup {NoKey} /\ db'.peers = db.peers
  BY DEF OpenFails, ui, StoreSame, IInv, DataOk
<1>. HIDE DEF next
<1>9. /\ new.at \in {"opening", "open", "failed"}
      /\ new.closed <=> new.at = "open" /\ new.cancelled
      /\ shown' = IF new.at = "open" /\ ~new.cancelled THEN i ELSE shown
      /\ Acting(i) => /\ new.started > 0
                      /\ new.clock = inst[i].clock
                      /\ new.key = inst[i].key
      /\ new.listening => new.started > 0
      /\ new.started > 0 \/ new.at = "open" =>
           new.key \in Local /\ (crowded \/ NotAfter(db.clock, new.clock))
      /\ ~(~Acting(i) /\ (new.started > 0 \/ new.at = "open"))
  BY <1>3, <1>5, <1>8
<1>. QED  BY <1>1, <1>2, <1>5, <1>6, <1>7, <1>8, <1>9, OpeningStep

-----------------------------------------------------------------------------
\* Recordings.

LEMMA GetPeersStep ==
  ASSUME IInv, NEW k \in DOMAIN calls, GetPeersDone(k)
  PROVE  IInv'
<1>1. PICK c : c = [by |-> calls[k].by, at |-> "setPeers", peer |-> calls[k].peer,
                    have |-> calls[k].have,
                    peers |-> Spread(db.peers, calls[k].peer, calls[k].have)]
  OBVIOUS
<1>2. /\ c.by = calls[k].by /\ c.at = "setPeers" /\ c.peer = calls[k].peer
      /\ c.have = calls[k].have /\ c.peers = Spread(db.peers, c.peer, c.have)
  BY <1>1
<1>3. calls[k].at = "getPeers"
  BY DEF GetPeersDone
<1>4. Placed(calls[k]) /\ calls[k].peer \in Device
  BY <1>3 DEF IInv, ReadingOk, Recording
<1>5. Follows(c, k) /\ Placed(c) /\ WorkOk(c)
  BY <1>2, <1>3, <1>4
     DEF Follows, Placed, WorkOk, Opening, Loading, Work, Recording
<1>6. ReadingOk(c)
  <2>1. DOMAIN c.peers \subseteq Device
    BY <1>2, <1>4 DEF Spread, IInv, DataOk
  <2>2. ~overlapped => c.peers = Spread(recorded, c.peer, c.have)
    BY <1>2 DEF IInv, DataOk, RecordsKept
  <2>. QED  BY <1>2, <1>4, <2>1, <2>2 DEF ReadingOk
<1>7. PICK next : /\ next = <<>> \/ next = <<c>>
                  /\ Answer(k, next)
  <2>1. Answer(k, Then(calls[k].by, c))
    BY <1>1 DEF GetPeersDone
  <2>. QED  BY <2>1 DEF Then
<1>8. UNCHANGED <<db, inst, jobs, mounted, shown, history>> /\ view' = view
  BY DEF GetPeersDone, ui
<1>9. view'.of = view.of /\ view' \in Viewed
  BY <1>8 DEF IInv, UiOk
<1>. QED  BY <1>5, <1>6, <1>7, <1>8, <1>9, AnswerOnlyStep

LEMMA SetPeersStep ==
  ASSUME IInv, NEW k \in DOMAIN calls, SetPeersDone(k)
  PROVE  IInv'
<1>. DEFINE c == calls[k]
<1>1. /\ c.at = "setPeers" /\ c.peer \in Device /\ DOMAIN c.peers \subseteq Device
      /\ ~overlapped => c.peers = Spread(recorded, c.peer, c.have)
  BY DEF SetPeersDone, IInv, ReadingOk, Recording
<1>2. /\ db' = Perform(db, [peers |-> c.peers])
      /\ recorded' = Spread(recorded, c.peer, c.have)
      /\ Answer(k, <<>>) /\ UNCHANGED <<inst, jobs, mounted, shown, view>>
      /\ issued' = issued /\ overlapped' = overlapped /\ crowded' = crowded
  BY DEF SetPeersDone, ui, Spread
<1>3. StoreSame /\ db'.key = db.key /\ db'.peers = c.peers
  BY <1>2, MetaPut DEF StoreSame
<1>4. /\ CallsInOrder'
      /\ \A m \in DOMAIN calls' : \E j \in DOMAIN calls \ {k} : calls'[m] = calls[j]
  <2>. DEFINE next == <<>>
  <2>1. next = <<>> /\ Answer(k, next)
    BY <1>2
  <2>. HIDE DEF next
  <2>2. next # <<c>>
    BY <2>1
  <2>. QED  BY <1>2, <2>1, <2>2, AnswerKeepsOrder DEF IInv
<1>5. TypeInv' /\ UiOk'
  BY <1>2 DEF IInv, TypeInv, UiOk
<1>6. ASSUME NEW i \in Slot  PROVE LifeOk(i)'
  BY <1>2, <1>3, LifeFrame DEF IInv, LifeOk, Alone, StoreSame
<1>7. ASSUME NEW j \in DOMAIN calls \ {k}, NEW d, d = calls[j]
      PROVE  Placed(d)' /\ WorkOk(d)' /\ ReadingOk(d)'
  <2>1. Placed(d) /\ WorkOk(d) /\ ReadingOk(d)
    BY <1>7 DEF IInv
  <2>2. Placed(d)'
    BY <1>2, <2>1, PlacedFrame DEF Placed
  <2>3. WorkOk(d)'
    BY <1>2, <1>3, <2>1, WorkFrame DEF Acting
  <2>4. ~overlapped => d.at \notin Recording
    BY <1>1, <1>7 DEF IInv, CallsInOrder, Recording
  <2>5. ReadingOk(d)'
    BY <1>2, <2>1, <2>4 DEF ReadingOk, Recording
  <2>. QED  BY <2>2, <2>3, <2>5
<1>8. ASSUME NEW m \in DOMAIN calls'
      PROVE  Placed(calls[m])' /\ WorkOk(calls[m])' /\ ReadingOk(calls[m])'
  BY <1>4, <1>7
<1>9. DataOk'
  BY <1>1, <1>2, <1>3
     DEF IInv, DataOk, StoreSame, OneWriterAgrees, LogAndCellsAgree, StampsUnique, RecordsKept
<1>. QED  BY <1>4, <1>5, <1>6, <1>8, <1>9 DEF IInv

-----------------------------------------------------------------------------
\* The hooks.

\* A call that only reads for a hook stands in no one's way.
LEMMA ReadingCall ==
  ASSUME NEW c, c.by \in Slot, inst[c.by].at # "free", c.at \in {"list", "row"},
         c.at = "row" => c.got \subseteq Op
  PROVE  /\ Placed(c) /\ WorkOk(c) /\ ReadingOk(c)
         /\ \A k : c.by = calls[k].by => Follows(c, k)
         /\ c.at \notin Opening \cup Work \cup Recording
BY DEF Placed, WorkOk, ReadingOk, Follows, Opening, Loading, Work, Recording

LEMMA CellsAreOps ==
  ASSUME IInv
  PROVE  db.cells \subseteq Op
BY DEF IInv, DataOk

LEMMA ListStep ==
  ASSUME IInv, NEW k \in DOMAIN calls, ListDone(k)
  PROVE  IInv'
<1>1. PICK c : c = [by |-> calls[k].by, at |-> "row", todo |-> ListRows(db), got |-> {}]
  OBVIOUS
<1>2. c.by = calls[k].by /\ c.at = "row" /\ c.got = {}
  BY <1>1
<1>3. Placed(calls[k])
  BY DEF IInv
<1>4. Follows(c, k) /\ Placed(c) /\ WorkOk(c) /\ ReadingOk(c)
  BY <1>2, <1>3, ReadingCall DEF Placed
<1>5. PICK next : /\ next = <<>> \/ next = <<c>>
                  /\ Answer(k, next)
  <2>1. Answer(k, IF ListRows(db) = {} THEN <<>> ELSE Then(calls[k].by, c))
    BY <1>1 DEF ListDone
  <2>. QED  BY <2>1 DEF Then
<1>6. UNCHANGED <<db, inst, jobs, mounted, shown, history>>
  BY DEF ListDone
<1>7. view' = view \/ view' = [view EXCEPT !.rows = {}, !.loading = FALSE]
  BY DEF ListDone, SetRows
<1>8. view'.of = view.of /\ view' \in Viewed
  <2>1. view \in Viewed
    BY DEF IInv, UiOk
  <2>. QED  BY <1>7, <2>1 DEF Viewed
<1>. QED  BY <1>4, <1>5, <1>6, <1>8, AnswerOnlyStep

LEMMA RowStep ==
  ASSUME IInv, NEW k \in DOMAIN calls, RowDone(k)
  PROVE  IInv'
<1>1. PICK row : row = CHOOSE r \in calls[k].todo : \A q \in calls[k].todo : r <= q
  OBVIOUS
<1>2. PICK got : got = calls[k].got \cup View(GetRow(db, row))
  OBVIOUS
<1>3. PICK todo : todo = calls[k].todo \ {row}
  OBVIOUS
<1>4. PICK c : c = [by |-> calls[k].by, at |-> "row", todo |-> todo, got |-> got]
  OBVIOUS
<1>5. got \subseteq Op
  BY <1>2, CellsAreOps DEF RowDone, View, GetRow, IInv, ReadingOk
<1>6. c.by = calls[k].by /\ c.at = "row" /\ c.got = got
  BY <1>4
<1>7. Placed(calls[k])
  BY DEF IInv
<1>8. Follows(c, k) /\ Placed(c) /\ WorkOk(c) /\ ReadingOk(c)
  BY <1>5, <1>6, <1>7, ReadingCall DEF Placed
<1>9. PICK next : /\ next = <<>> \/ next = <<c>>
                  /\ Answer(k, next)
  <2>1. Answer(k, IF todo = {} THEN <<>> ELSE Then(calls[k].by, c))
    BY <1>1, <1>2, <1>3, <1>4 DEF RowDone
  <2>. QED  BY <2>1 DEF Then
<1>10. UNCHANGED <<db, inst, jobs, mounted, shown, history>>
  BY DEF RowDone
<1>11. view' = view \/ view' = [view EXCEPT !.rows = got, !.loading = FALSE]
  BY <1>1, <1>2 DEF RowDone, SetRows
<1>12. view'.of = view.of /\ view' \in Viewed
  <2>1. view \in Viewed
    BY DEF IInv, UiOk
  <2>. QED  BY <1>5, <1>11, <2>1 DEF Viewed
<1>. QED  BY <1>8, <1>9, <1>10, <1>12, AnswerOnlyStep

\* Steps that make a call beside those pending: a hook's, or a recording.
LEMMA MakeStep ==
  ASSUME IInv, NEW c, Make(c), c.at \notin Opening \cup Work,
         Placed(c), WorkOk(c), ReadingOk(c)', UNCHANGED <<db, inst, jobs, mounted, shown>>,
         issued' = issued, recorded' = recorded, overlapped => overlapped',
         crowded' = crowded,
         c.at \in Recording =>
           overlapped' \/ \A m \in DOMAIN calls : calls[m].at \notin Recording,
         view'.of \in {0, shown}, view' \in Viewed
  PROVE  IInv'
<1>1. /\ CallsInOrder'
      /\ \A m \in DOMAIN calls' :
           (\E j \in DOMAIN calls : calls'[m] = calls[j]) \/ calls'[m] = c
  <2>1. c.at \notin Loading \ {"openDb"} /\ c.at # "write"
    BY DEF Opening, Loading, Work
  <2>. QED  BY <2>1, MakeKeepsOrder DEF IInv
<1>2. StoreSame
  BY DEF StoreSame
<1>3. TypeInv' /\ UiOk'
  BY DEF IInv, TypeInv, UiOk
<1>4. ASSUME NEW i \in Slot  PROVE LifeOk(i)'
  BY LifeFrame DEF IInv, LifeOk, Alone
<1>5. ASSUME NEW d, Placed(d), WorkOk(d)
      PROVE  Placed(d)' /\ WorkOk(d)'
  <2>1. Placed(d)'
    BY <1>5, PlacedFrame DEF Placed
  <2>2. WorkOk(d)'
    BY <1>2, <1>5, WorkFrame DEF Acting
  <2>. QED  BY <2>1, <2>2
<1>6. ASSUME NEW d, ReadingOk(d)  PROVE ReadingOk(d)'
  BY <1>6 DEF ReadingOk
<1>7. ASSUME NEW m \in DOMAIN calls'
      PROVE  Placed(calls[m])' /\ WorkOk(calls[m])' /\ ReadingOk(calls[m])'
  <2>1. ASSUME NEW j \in DOMAIN calls, NEW d, d = calls[j]
        PROVE  Placed(d)' /\ WorkOk(d)' /\ ReadingOk(d)'
    <3>1. Placed(d) /\ WorkOk(d) /\ ReadingOk(d)
      BY <2>1 DEF IInv
    <3>. QED  BY <1>5, <1>6, <3>1
  <2>. QED  BY <1>1, <1>5, <2>1
<1>8. DataOk'
  BY DEF IInv, DataOk, OneWriterAgrees, LogAndCellsAgree, StampsUnique, RecordsKept
<1>. QED  BY <1>1, <1>3, <1>4, <1>7, <1>8 DEF IInv

LEMMA RunEffectStep ==
  ASSUME IInv, RunEffect
  PROVE  IInv'
<1>1. PICK c : c = Refresh(shown)
  OBVIOUS
<1>2. shown # 0 /\ shown \in Slot /\ inst[shown].at # "free"
  BY SpacesAssumption DEF RunEffect, IInv, UiOk, Slot
<1>3. c.by = shown /\ c.at \in {"list", "row"} /\ (c.at = "row" => c.got = {})
  BY <1>1 DEF Refresh
<1>4. Placed(c) /\ WorkOk(c) /\ ReadingOk(c) /\ c.at \notin Opening \cup Work \cup Recording
  BY <1>2, <1>3, ReadingCall
<1>5. /\ Make(c) /\ UNCHANGED <<db, inst, jobs, mounted, shown>>
      /\ issued' = issued /\ recorded' = recorded /\ overlapped' = overlapped
      /\ crowded' = crowded
  BY <1>1 DEF RunEffect, history
<1>6. ReadingOk(c)'
  BY <1>4, <1>5, ReadingFrame
<1>7. view'.of = shown /\ view' \in Viewed
  BY <1>2 DEF RunEffect, Viewed, Slot
<1>. QED  BY <1>4, <1>5, <1>6, <1>7, MakeStep

LEMMA RecordStep ==
  ASSUME IInv, NEW i \in Slot, NEW r \in Recordings, Record(i, r)
  PROVE  IInv'
<1>1. PICK c : c = [by |-> i, at |-> "getPeers", peer |-> r.peer, have |-> r.have]
  OBVIOUS
<1>2. c.by = i /\ c.at = "getPeers" /\ c.peer \in Device
  BY <1>1, SpacesAssumption
<1>3. inst[i].at # "free"
  BY SpacesAssumption DEF Record, Listening, IInv, LifeOk, Unused
<1>4. Placed(c) /\ WorkOk(c) /\ c.at \notin Opening \cup Work
  BY <1>2, <1>3 DEF Placed, WorkOk, Opening, Loading, Work
<1>5. ReadingOk(c)'
  BY <1>2 DEF ReadingOk
<1>6. /\ Make(c) /\ UNCHANGED <<db, inst, jobs, mounted, shown>>
      /\ issued' = issued /\ recorded' = recorded /\ view' = view /\ crowded' = crowded
      /\ overlapped' = (overlapped \/ \E k \in DOMAIN calls : calls[k].at \in Recording)
  BY <1>1 DEF Record, ui, Recording
<1>7. view'.of \in {0, shown} /\ view' \in Viewed
  BY <1>6 DEF IInv, UiOk
<1>. QED  BY <1>2, <1>4, <1>5, <1>6, <1>7, MakeStep

-----------------------------------------------------------------------------
\* A job's beginning.

\* The clock a job moves its engine's to, and the ops it brings.
Moved(old, job) ==
  CASE job.does = "write" -> Now(old, 0)
    [] job.does = "receive" -> Receive(old, Latest({o.stamp : o \in job.ops}), 0)
    [] OTHER -> old
Brought(clock, key, job) ==
  CASE job.does = "write" -> {OpOf(StampOf(clock, key), job.write)}
    [] job.does = "receive" -> job.ops
    [] OTHER -> {}

LEMMA JobBegins ==
  ASSUME NEW old \in Clock, NEW key \in Device, NEW job \in Job,
         NEW clock, clock = Moved(old, job),
         NEW ops, ops = Brought(clock, key, job)
  PROVE  /\ clock \in Clock /\ NotAfter(old, clock)
         /\ job.does \in {"write", "receive"} \/ Compacts(job.does)
         /\ ops \subseteq Op /\ IsFiniteSet(ops)
         /\ \A o \in ops : NotAfter(o.stamp, clock)
         /\ job.does = "write" => /\ \A o \in ops : Earlier(old, o.stamp)
                                  /\ \A o, p \in ops : o = p
         /\ Compacts(job.does) => ops = {}
<1>0. old.millis \in Nat /\ old.counter \in Nat
  BY HlcAssumption DEF Clock
<1>. USE DEF Moved, Brought, Compacts
<1>1. CASE job \in [does : {"write"}, write : Writes]
  <2>1. job.does = "write" /\ job.write \in Write
    BY <1>1, SpacesAssumption
  <2>2. clock = Now(old, 0) /\ clock \in Clock /\ Earlier(old, clock)
    BY <2>1, NowAdvances
  <2>3. PICK o : o = OpOf(StampOf(clock, key), job.write)
    OBVIOUS
  <2>4. ops = {o}
    BY <2>1, <2>3
  <2>5. o \in Op /\ o.stamp.millis = clock.millis /\ o.stamp.counter = clock.counter
    BY <2>1, <2>2, <2>3 DEF OpOf, StampOf, Op, Write, Stamp, Clock
  <2>6. NotAfter(o.stamp, clock) /\ Earlier(old, o.stamp) /\ NotAfter(old, clock)
    BY <2>2, <2>5 DEF NotAfter, SameTime, Earlier
  <2>7. IsFiniteSet({o})
    BY FS_Singleton
  <2>. QED  BY <2>1, <2>2, <2>4, <2>5, <2>6, <2>7
<1>2. CASE job \in [does : {"receive"}, ops : RemoteOps]
  <2>1. /\ job.does = "receive" /\ ops = job.ops
        /\ ops \subseteq Op /\ ops # {} /\ IsFiniteSet(ops)
    BY <1>2, SpacesAssumption
  <2>. DEFINE H == {o.stamp : o \in ops}
              f == [o \in ops |-> o.stamp]
  <2>2. f \in Surjection(ops, H)
    BY DEF Surjection
  <2>3. IsFiniteSet(H)
    BY <2>1, <2>2, FS_Surjection
  <2>4. H \subseteq Stamp /\ H \subseteq StampOrZero /\ H # {}
    BY <2>1 DEF Op, StampOrZero
  <2>5. Latest(H) \in H /\ \A g \in H : Leq(g, Latest(H))
    BY <2>3, <2>4, LatestIsLargest
  <2>6. Latest(H) \in Stamp
    BY <2>4, <2>5
  <2>7. clock = Receive(old, Latest(H), 0)
    BY <2>1
  <2>. HIDE DEF H
  <2>8. clock \in Clock /\ Earlier(old, clock) /\ Earlier(Latest(H), clock)
    BY <2>6, <2>7, ReceiveAdvances
  <2>9. ASSUME NEW o \in ops  PROVE NotAfter(o.stamp, clock)
    <3>1. o.stamp \in H /\ o.stamp \in Stamp
      BY <2>1 DEF H, Op
    <3>2. Leq(o.stamp, Latest(H))
      BY <2>5, <3>1
    <3>3. /\ o.stamp.millis \in Nat /\ o.stamp.counter \in Nat
          /\ Latest(H).millis \in Nat /\ Latest(H).counter \in Nat
          /\ clock.millis \in Nat /\ clock.counter \in Nat
      BY <2>6, <2>8, <3>1, HlcAssumption DEF Stamp, Clock
    <3>. QED  BY <2>8, <3>2, <3>3 DEF Leq, Lt, NotAfter, Earlier, SameTime
  <2>. QED  BY <2>1, <2>8, <2>9 DEF NotAfter
<1>3. CASE job \in [does : {"compact", "collect"}]
  <2>1. job.does \in {"compact", "collect"} /\ clock = old /\ ops = {}
    BY <1>3
  <2>. QED  BY <2>1, FS_EmptySet DEF NotAfter, SameTime
<1>. QED  BY <1>1, <1>2, <1>3 DEF Job

\* A step that moves the clock of one engine, or ends its job: no record else
\* changes, so spaces live on as they did.
Ticks(i, clock) ==
  /\ clock \in Clock
  /\ inst' = [inst EXCEPT ![i].clock = clock]
  /\ jobs' = jobs \/ jobs' = [jobs EXCEPT ![i] = Tail(@)]
  /\ UNCHANGED <<mounted, shown>>
  /\ view'.of = view.of /\ view' \in Viewed

LEMMA TickKeepsLife ==
  ASSUME IInv, NEW i \in Slot, NEW clock, Ticks(i, clock), jobs[i] # <<>>,
         crowded' = crowded,
         ~crowded /\ Acting(i) /\ ~inst[i].closed => NotAfter(db'.clock, clock),
         ~crowded => \A j \in Slot \ {i} :
           Acting(j) /\ ~inst[j].closed => NotAfter(db'.clock, inst[j].clock)
  PROVE  /\ TypeInv' /\ UiOk' /\ \A j \in Slot : LifeOk(j)'
         /\ inst'[i].clock = clock
         /\ \A j \in Slot : /\ inst'[j].at = inst[j].at /\ inst'[j].key = inst[j].key
                            /\ inst'[j].started = inst[j].started
                            /\ inst'[j].closed = inst[j].closed
                            /\ inst'[j].listening = inst[j].listening
         /\ \A j \in Slot \ {i} : inst'[j] = inst[j] /\ jobs'[j] = jobs[j]
<1>1. /\ inst'[i].clock = clock
      /\ inst' \in [Slot -> Opened]
      /\ \A j \in Slot : /\ inst'[j].at = inst[j].at /\ inst'[j].key = inst[j].key
                         /\ inst'[j].started = inst[j].started
                         /\ inst'[j].closed = inst[j].closed
                         /\ inst'[j].cancelled = inst[j].cancelled
                         /\ inst'[j].listening = inst[j].listening
      /\ \A j \in Slot \ {i} : inst'[j] = inst[j]
  BY DEF Ticks, IInv, TypeInv, Opened
<1>2. /\ jobs' \in [Slot -> Seq(Job)]
      /\ \A j \in Slot \ {i} : jobs'[j] = jobs[j]
  <2>1. jobs \in [Slot -> Seq(Job)]
    BY DEF IInv, TypeInv
  <2>2. jobs[i] \in Seq(Job)
    BY <2>1
  <2>3. Tail(jobs[i]) \in Seq(Job)
    BY <2>2, HeadTailProperties
  <2>. QED  BY <2>1, <2>3 DEF Ticks
<1>3. TypeInv'
  BY <1>1, <1>2 DEF TypeInv
<1>4. UiOk'
  BY <1>1, SpacesAssumption DEF Ticks, IInv, UiOk, Slot
<1>5. ASSUME NEW j \in Slot  PROVE LifeOk(j)'
  <2>1. LifeOk(j) /\ (jobs'[j] # <<>> => jobs[j] # <<>>)
    BY <1>2 DEF IInv
  <2>2. Alone(j) => Alone(j)'
    BY <1>1 DEF Alone
  <2>3. Acting(j)' <=> Acting(j)
    BY <1>1 DEF Acting
  <2>4. inst'[j].at = "free" => inst'[j] = Unused
    <3>1. CASE j = i
      BY <1>1, <2>1, <3>1, SpacesAssumption DEF LifeOk, Acting, Unused
    <3>2. CASE j # i
      BY <1>1, <2>1, <3>2 DEF LifeOk
    <3>. QED  BY <3>1, <3>2
  <2>5. ~crowded /\ Acting(j) /\ ~inst[j].closed => NotAfter(db'.clock, inst'[j].clock)
    BY <1>1
  <2>. QED  BY <1>1, <2>1, <2>2, <2>3, <2>4, <2>5 DEF LifeOk, Ticks
<1>. QED  BY <1>1, <1>2, <1>3, <1>4, <1>5

\* A call that is none of engine i's jobs, in such a step.
LEMMA TickKeepsCall ==
  ASSUME IInv, NEW i \in Slot, NEW clock, Ticks(i, clock), jobs[i] # <<>>,
         \A j \in Slot : /\ inst'[j].at = inst[j].at /\ inst'[j].key = inst[j].key
                         /\ inst'[j].started = inst[j].started
                         /\ inst'[j].closed = inst[j].closed,
         \A j \in Slot \ {i} : inst'[j] = inst[j] /\ jobs'[j] = jobs[j],
         StoreSame, UNCHANGED <<recorded, overlapped, crowded>>,
         NEW d, Placed(d), WorkOk(d), ReadingOk(d), d.at \in Work => d.by # i
  PROVE  Placed(d)' /\ WorkOk(d)' /\ ReadingOk(d)'
<1>1. Placed(d)'
  BY DEF Placed
<1>2. WorkOk(d)'
  <2>1. d.at \in Work => /\ inst'[d.by].clock = inst[d.by].clock
                         /\ inst[d.by].closed => inst'[d.by].closed
    BY DEF Placed
  <2>2. d.at = "write" => \A j \in Slot : Acting(j)' /\ ~inst'[j].closed =>
                                            Acting(j) /\ ~inst[j].closed
    BY DEF Acting
  <2>. QED  BY <2>1, <2>2, WorkFrame
<1>3. ReadingOk(d)'
  BY DEF ReadingOk
<1>. QED  BY <1>1, <1>2, <1>3

LEMMA BeginStep ==
  ASSUME IInv, NEW i \in Slot, Begin(i)
  PROVE  IInv'
<1>1. PICK job : job = Head(jobs[i])
  OBVIOUS
<1>2. PICK clock : clock = Moved(inst[i].clock, job)
  OBVIOUS
<1>3. PICK ops : ops = Brought(clock, inst[i].key, job)
  OBVIOUS
<1>4. PICK read : read = [by |-> i, at |-> "read", does |-> job.does, ops |-> ops]
  OBVIOUS
<1>5. /\ jobs[i] # <<>> /\ ~Working(i)
      /\ inst' = [inst EXCEPT ![i].clock = clock]
      /\ calls' = calls \o Then(i, read)
      /\ IF inst[i].closed THEN EndJob(i) ELSE UNCHANGED jobs
      /\ UNCHANGED <<db, mounted, shown, view, issued, recorded, overlapped, crowded>>
  BY <1>1, <1>2, <1>3, <1>4 DEF Begin, Moved, Brought, ui, history
<1>6. /\ job \in Job /\ inst[i] \in Opened /\ Acting(i)
      /\ inst[i].key \in Device /\ inst[i].clock \in Clock
      /\ inst[i].at # "free"
      /\ ~crowded /\ ~inst[i].closed => NotAfter(db.clock, inst[i].clock)
  <2>1. jobs[i] \in Seq(Job) /\ inst[i] \in Opened /\ LifeOk(i)
    BY DEF IInv, TypeInv
  <2>2. job \in Job
    BY <1>1, <1>5, <2>1
  <2>3. Acting(i) /\ inst[i].key \in Local
    BY <1>5, <2>1 DEF LifeOk
  <2>4. inst[i].at # "free"
    BY <2>1, <2>3, SpacesAssumption DEF LifeOk, Acting, Unused
  <2>. QED  BY <1>5, <2>1, <2>2, <2>3, <2>4, SpacesAssumption DEF LifeOk, Opened
<1>7. /\ clock \in Clock /\ NotAfter(inst[i].clock, clock)
      /\ job.does \in {"write", "receive"} \/ Compacts(job.does)
      /\ ops \subseteq Op /\ IsFiniteSet(ops)
      /\ \A o \in ops : NotAfter(o.stamp, clock)
      /\ job.does = "write" => /\ \A o \in ops : Earlier(inst[i].clock, o.stamp)
                               /\ \A o, p \in ops : o = p
      /\ Compacts(job.does) => ops = {}
  BY <1>2, <1>3, <1>6, JobBegins
<1>8. /\ db.clock.millis \in Nat /\ db.clock.counter \in Nat
      /\ inst[i].clock.millis \in Nat /\ inst[i].clock.counter \in Nat
      /\ clock.millis \in Nat /\ clock.counter \in Nat
  BY <1>6, <1>7, HlcAssumption DEF IInv, DataOk, Clock
<1>9. ~crowded /\ ~inst[i].closed => NotAfter(db.clock, clock)
  BY <1>6, <1>7, <1>8, EarlierOrder
<1>10. ~crowded /\ ~inst[i].closed /\ job.does = "write"
         => \A o \in ops : Earlier(db.clock, o.stamp)
  <2>1. ASSUME NEW o \in ops, NotAfter(db.clock, inst[i].clock), Earlier(inst[i].clock, o.stamp)
        PROVE  Earlier(db.clock, o.stamp)
    <3>1. o.stamp.millis \in Nat /\ o.stamp.counter \in Nat
      BY <1>7, HlcAssumption DEF Op, Stamp
    <3>. QED  BY <1>8, <2>1, <3>1, EarlierOrder
  <2>. QED  BY <1>6, <1>7, <2>1
<1>11. Ticks(i, clock)
  BY <1>5, <1>7 DEF Ticks, EndJob, IInv, UiOk
<1>12. ~crowded => \A j \in Slot \ {i} :
         Acting(j) /\ ~inst[j].closed => NotAfter(db'.clock, inst[j].clock)
  BY <1>5 DEF IInv, LifeOk
<1>13. /\ TypeInv' /\ UiOk' /\ \A j \in Slot : LifeOk(j)'
       /\ inst'[i].clock = clock
       /\ \A j \in Slot : /\ inst'[j].at = inst[j].at /\ inst'[j].key = inst[j].key
                          /\ inst'[j].started = inst[j].started
                          /\ inst'[j].closed = inst[j].closed
       /\ \A j \in Slot \ {i} : inst'[j] = inst[j] /\ jobs'[j] = jobs[j]
  BY <1>5, <1>9, <1>11, <1>12, TickKeepsLife
<1>14. StoreSame
  BY <1>5 DEF StoreSame
<1>15. ASSUME NEW m \in DOMAIN calls, NEW d, d = calls[m]
       PROVE  Placed(d)' /\ WorkOk(d)' /\ ReadingOk(d)'
  <2>1. d.at \in Work => d.by # i
    BY <1>5, <1>15 DEF Working, Work
  <2>2. Placed(d) /\ WorkOk(d) /\ ReadingOk(d)
    BY <1>15 DEF IInv
  <2>. QED  BY <1>5, <1>11, <1>13, <1>14, <2>1, <2>2, TickKeepsCall
<1>16. DataOk'
  BY <1>5, <1>14, DataFrame DEF IInv, DataOk
<1>17. CASE inst[i].closed
  <2>1. calls' = calls
    <3>1. calls' = calls \o <<>>
      BY <1>5, <1>17 DEF Then
    <3>. QED  BY <3>1, ConcatEmptySeq DEF IInv, CallsInOrder, IsSequence
  <2>2. CallsInOrder'
    BY <1>5, <2>1 DEF IInv, CallsInOrder
  <2>3. ASSUME NEW m \in DOMAIN calls'
        PROVE  Placed(calls[m])' /\ WorkOk(calls[m])' /\ ReadingOk(calls[m])'
    BY <1>15, <2>1
  <2>. QED  BY <1>13, <1>16, <2>2, <2>3 DEF IInv
<1>18. CASE ~inst[i].closed
  <2>1. Make(read)
    <3>1. calls' = calls \o <<read>>
      BY <1>5, <1>18 DEF Then
    <3>2. Append(calls, read) = calls \o <<read>>
      <4>. DEFINE S == {calls[m] : m \in DOMAIN calls} \cup {read}
      <4>1. IsSequence(calls)
        BY DEF IInv, CallsInOrder
      <4>2. calls \in Seq(S)
        BY <4>1 DEF IsSequence
      <4>3. read \in S
        OBVIOUS
      <4>. HIDE DEF S
      <4>. QED  BY <4>2, <4>3, AppendIsConcat
    <3>. QED  BY <3>1, <3>2 DEF Make
  <2>2. /\ CallsInOrder'
        /\ \A m \in DOMAIN calls' :
             (\E j \in DOMAIN calls : calls'[m] = calls[j]) \/ calls'[m] = read
    <3>1. \A m \in DOMAIN calls : calls[m].by = read.by => calls[m].at \notin Work
      BY <1>4, <1>5 DEF Working, Work
    <3>2. read.at \notin Opening \cup Recording /\ read.at # "write"
      BY <1>4 DEF Opening, Loading, Recording
    <3>. QED  BY <1>5, <2>1, <3>1, <3>2, MakeKeepsOrder DEF IInv, Opening
  <2>3. Placed(read)' /\ WorkOk(read)' /\ ReadingOk(read)'
    <3>1. read.by = i /\ read.at = "read" /\ read.does = job.does /\ read.ops = ops
      BY <1>4
    <3>2. Placed(read)'
      BY <1>5, <1>6, <1>13, <1>18, <3>1 DEF Placed, Opening, Loading
    <3>3. ~crowded => BatchOk(read)'
      BY <1>5, <1>7, <1>9, <1>10, <1>13, <1>18, <3>1 DEF BatchOk
    <3>4. WorkOk(read)' /\ ReadingOk(read)'
      BY <1>5, <1>7, <3>1, <3>3 DEF WorkOk, ReadingOk, Work, Recording
    <3>. QED  BY <3>2, <3>4
  <2>4. ASSUME NEW m \in DOMAIN calls'
        PROVE  Placed(calls[m])' /\ WorkOk(calls[m])' /\ ReadingOk(calls[m])'
    BY <1>15, <2>2, <2>3
  <2>. QED  BY <1>13, <1>16, <2>2, <2>4 DEF IInv
<1>. QED  BY <1>17, <1>18

-----------------------------------------------------------------------------
\* A job's reads and its write.

\* While an engine that is not closed has a job, and none has had one beside
\* it, no other acts, none is on its way to its clock and none writes.
LEMMA JobState ==
  ASSUME IInv, NEW k \in DOMAIN calls, calls[k].at \in Work, NEW i, i = calls[k].by
  PROVE  /\ i \in Slot /\ inst[i] \in Opened /\ jobs[i] # <<>> /\ Acting(i)
         /\ inst[i].at # "free"
         /\ \A m \in DOMAIN calls \ {k} : calls[m].at \in Work => calls[m].by # i
         /\ ~crowded /\ ~inst[i].closed =>
              /\ \A j \in Slot : Acting(j) /\ ~inst[j].closed => j = i
              /\ \A m \in DOMAIN calls \ {k} :
                   calls[m].at # "write" /\ calls[m].at \notin Loading
<1>1. Placed(calls[k])
  BY DEF IInv
<1>2. i \in Slot /\ inst[i].at # "free" /\ jobs[i] # <<>>
  BY <1>1 DEF Placed
<1>3. LifeOk(i) /\ inst[i] \in Opened
  BY <1>2 DEF IInv, TypeInv
<1>4. Acting(i) /\ (crowded \/ inst[i].closed \/ Alone(i))
  BY <1>2, <1>3 DEF LifeOk
<1>5. \A m \in DOMAIN calls \ {k} : calls[m].at \in Work => calls[m].by # i
  BY DEF IInv, CallsInOrder
<1>6. ASSUME ~crowded, ~inst[i].closed, NEW j \in Slot \ {i}
      PROVE  /\ Acting(j) => inst[j].closed
             /\ inst[j].at # "opening"
  <2>1. LifeOk(j) /\ (inst[j].at = "free" \/ inst[j].closed)
    BY <1>4, <1>6 DEF IInv, Alone
  <2>. QED  BY <2>1, SpacesAssumption DEF LifeOk, Acting, Unused
<1>7. ASSUME ~crowded, ~inst[i].closed, NEW m \in DOMAIN calls \ {k}
      PROVE  calls[m].at # "write" /\ calls[m].at \notin Loading
  <2>1. Placed(calls[m]) /\ WorkOk(calls[m])
    BY DEF IInv
  <2>2. calls[m].at # "write"
    BY <1>2, <1>4, <1>5, <1>7, <2>1 DEF WorkOk, Work
  <2>3. calls[m].at \notin Loading
    BY <1>4, <1>6, <1>7, <2>1 DEF Placed, Opening, Acting
  <2>. QED  BY <2>2, <2>3
<1>. QED  BY <1>2, <1>3, <1>4, <1>5, <1>6, <1>7

\* The end of a job: its call is answered, the mutex passes on, and a hook may
\* begin to read. If the database was written, it was by this job.
LEMMA JobEnds ==
  ASSUME IInv, NEW k \in DOMAIN calls, calls[k].at \in Work, NEW i, i = calls[k].by,
         NEW c, NEW next,
         \/ next = <<>>
         \/ /\ next = <<c>>
            /\ c.by = i /\ c.at \in {"list", "row"}
            /\ c.at = "row" => c.got \subseteq Op,
         Answer(k, next), EndJob(i),
         inst' = inst, mounted' = mounted, shown' = shown, view' = view,
         recorded' = recorded, overlapped' = overlapped, crowded' = crowded,
         \/ StoreSame
         \/ calls[k].at = "write" /\ (crowded \/ NotAfter(db'.clock, inst[i].clock)),
         DataOk'
  PROVE  IInv'
<1>1. /\ i \in Slot /\ inst[i] \in Opened /\ jobs[i] # <<>> /\ Acting(i)
      /\ inst[i].at # "free"
      /\ \A m \in DOMAIN calls \ {k} : calls[m].at \in Work => calls[m].by # i
  BY JobState
<1>2. ASSUME ~crowded, calls[k].at = "write"
      PROVE  /\ \A j \in Slot : Acting(j) /\ ~inst[j].closed => j = i
             /\ \A m \in DOMAIN calls \ {k} : calls[m].at # "write"
  <2>1. WorkOk(calls[k])
    BY DEF IInv
  <2>. QED  BY <1>2, <2>1 DEF WorkOk, IInv, CallsInOrder
<1>3. next = <<c>> => Follows(c, k)
  BY <1>1, ReadingCall
<1>4. /\ CallsInOrder'
      /\ \A m \in DOMAIN calls' :
           \/ \E j \in DOMAIN calls \ {k} : calls'[m] = calls[j]
           \/ next = <<c>> /\ calls'[m] = c
  <2>1. next = <<>> \/ (next = <<c>> /\ Follows(c, k))
    BY <1>3
  <2>. QED  BY <2>1, AnswerKeepsOrder DEF IInv
<1>5. PICK clock : clock = inst[i].clock
  OBVIOUS
<1>6. Ticks(i, clock)
  <2>1. clock \in Clock
    BY <1>1, <1>5 DEF Opened
  <2>2. inst' = [inst EXCEPT ![i].clock = clock]
    BY <1>1, <1>5 DEF IInv, TypeInv, Opened
  <2>. QED  BY <2>1, <2>2 DEF Ticks, EndJob, IInv, UiOk
<1>7. ~crowded => \A j \in Slot : Acting(j) /\ ~inst[j].closed => NotAfter(db'.clock, inst[j].clock)
  <2>1. CASE StoreSame
    BY <2>1 DEF StoreSame, IInv, LifeOk
  <2>2. CASE calls[k].at = "write" /\ (crowded \/ NotAfter(db'.clock, inst[i].clock))
    BY <1>2, <2>2
  <2>. QED  BY <2>1, <2>2
<1>8. /\ TypeInv' /\ UiOk' /\ \A j \in Slot : LifeOk(j)'
      /\ \A j \in Slot \ {i} : inst'[j] = inst[j] /\ jobs'[j] = jobs[j]
  BY <1>1, <1>5, <1>6, <1>7, TickKeepsLife
<1>9. ASSUME NEW m \in DOMAIN calls \ {k}, NEW d, d = calls[m]
      PROVE  Placed(d)' /\ WorkOk(d)' /\ ReadingOk(d)'
  <2>1. Placed(d) /\ WorkOk(d) /\ ReadingOk(d)
    BY <1>9 DEF IInv
  <2>2. d.at \in Work => d.by # i
    BY <1>1, <1>9
  <2>3. Placed(d)' /\ ReadingOk(d)'
    BY <1>8, <2>1, <2>2, PlacedFrame, ReadingFrame DEF Placed
  <2>4. CASE StoreSame
    <3>1. WorkOk(d)'
      BY <2>1, <2>4, WorkFrame DEF Acting
    <3>. QED  BY <2>3, <3>1
  <2>5. CASE calls[k].at = "write"
    <3>1. crowded \/ d.at # "write"
      BY <1>2, <1>9, <2>5
    <3>2. d.at = "read" => crowded \/ inst[d.by].closed
      BY <1>2, <2>1, <2>2, <2>5 DEF Placed, IInv, LifeOk, Work
    <3>3. WorkOk(d)'
      BY <2>1, <3>1, <3>2 DEF WorkOk
    <3>. QED  BY <2>3, <3>3
  <2>. QED  BY <2>4, <2>5
<1>10. next = <<c>> => Placed(c)' /\ WorkOk(c)' /\ ReadingOk(c)'
  BY <1>1 DEF Placed, WorkOk, ReadingOk, Opening, Loading, Work, Recording
<1>11. ASSUME NEW m \in DOMAIN calls'
       PROVE  Placed(calls[m])' /\ WorkOk(calls[m])' /\ ReadingOk(calls[m])'
  BY <1>4, <1>9, <1>10
<1>. QED  BY <1>4, <1>8, <1>11 DEF IInv

\* What a compaction works out is a plan.
LEMMA PlanIsPlan ==
  ASSUME OneWriterAgrees, ~crowded, NEW does
  PROVE  IsPlan(Plan(does))
<1>. DEFINE rows == IF does = "collect" THEN Doomed ELSE {}
<1>1. rows \in SUBSET {o.row : o \in db.cells}
  BY DEF Doomed, ListRows
<1>2. \A r \in rows : \E o \in GetRow(db, r) : o.column = Tombstone /\ o.value
  BY DEF Doomed
<1>3. /\ Plan(does).ops = {o \in db.ops : o.row \in rows \/ (o \notin db.cells /\ Passed(o))}
      /\ Plan(does).cells = {o \in db.cells : o.row \in rows}
  BY DEF Plan
<1>. HIDE DEF rows
<1>. QED  BY <1>1, <1>2, <1>3 DEF IsPlan

LEMMA BatchIsBatch ==
  ASSUME IInv, NEW i \in Slot, NEW ops, ops \subseteq Op, IsFiniteSet(ops)
  PROVE  IsBatch(BatchOf(i, ops))
<1>1. PICK b : b = BatchOf(i, ops)
  OBVIOUS
<1>2. /\ b.ops = ops /\ b.frontier = Advance(db.frontier, ops) /\ b.clock = inst[i].clock
      /\ b.winners \subseteq db.cells \cup ops
  BY <1>1 DEF BatchOf, Winners
<1>3. db.frontier \in Frontier /\ db.cells \subseteq Op /\ inst[i].clock \in Clock
  BY DEF IInv, DataOk, TypeInv, Opened
<1>4. Advance(db.frontier, ops) \in Frontier
  BY <1>3, AdvanceIsLargest
<1>. QED  BY <1>1, <1>2, <1>3, <1>4 DEF IsBatch

LEMMA ReadDoneStep ==
  ASSUME IInv, NEW k \in DOMAIN calls, ReadDone(k)
  PROVE  IInv'
<1>1. PICK i : i = calls[k].by
  OBVIOUS
<1>2. PICK fresh : fresh = calls[k].ops \ db.ops
  OBVIOUS
<1>3. PICK puts : puts = IF Compacts(calls[k].does) THEN CompactPuts(Plan(calls[k].does))
                                                    ELSE BatchPuts(BatchOf(i, fresh))
  OBVIOUS
<1>4. PICK c : c = [by |-> i, at |-> "write", txs |-> <<puts>>,
                    does |-> calls[k].does, ops |-> fresh]
  OBVIOUS
<1>5. calls[k].at = "read" /\ calls[k].at \in Work
  BY DEF ReadDone, Work
<1>6. /\ db' = db /\ inst' = inst /\ mounted' = mounted /\ shown' = shown
      /\ view' = view /\ issued' = issued /\ recorded' = recorded
      /\ overlapped' = overlapped /\ crowded' = crowded /\ history' = history
  BY DEF ReadDone, ui, history
<1>7. \/ Answer(k, <<>>) /\ EndJob(i)
      \/ ~inst[i].closed /\ Answer(k, <<c>>) /\ jobs' = jobs
  BY <1>1, <1>2, <1>3, <1>4 DEF ReadDone, Transactions, IdbTransaction, SqliteTransaction
<1>8. CASE Answer(k, <<>>) /\ EndJob(i)
  <2>. DEFINE next == <<>>
  <2>1. next = <<>> /\ Answer(k, next)
    BY <1>8
  <2>. HIDE DEF next
  <2>2. StoreSame /\ DataOk'
    BY <1>6, DataFrame DEF StoreSame, IInv, DataOk
  <2>. QED  BY <1>1, <1>5, <1>6, <1>8, <2>1, <2>2, JobEnds
<1>9. CASE ~inst[i].closed /\ Answer(k, <<c>>) /\ jobs' = jobs
  <2>1. /\ i \in Slot /\ inst[i].at # "free" /\ jobs[i] # <<>>
        /\ ~crowded => /\ \A j \in Slot : Acting(j) /\ ~inst[j].closed => j = i
                       /\ \A m \in DOMAIN calls \ {k} :
                            calls[m].at # "write" /\ calls[m].at \notin Loading
    BY <1>1, <1>5, <1>9, JobState
  <2>2. /\ c.by = i /\ c.at = "write" /\ c.txs = <<puts>>
        /\ c.does = calls[k].does /\ c.ops = fresh
    BY <1>4
  <2>3. Follows(c, k) /\ Placed(c) /\ ReadingOk(c)
    BY <1>1, <1>5, <2>1, <2>2
       DEF Follows, Placed, ReadingOk, Opening, Loading, Work, Recording
  <2>4. /\ calls[k].ops \subseteq Op /\ IsFiniteSet(calls[k].ops)
        /\ calls[k].does \in {"write", "receive"} \/ Compacts(calls[k].does)
        /\ Compacts(calls[k].does) => calls[k].ops = {}
        /\ crowded \/ BatchOk(calls[k])
    <3>1. WorkOk(calls[k])
      BY DEF IInv
    <3>. QED  BY <1>1, <1>5, <1>9, <3>1 DEF WorkOk
  <2>5. IsFiniteSet(fresh) /\ fresh \subseteq calls[k].ops
    BY <1>2, <2>4, FS_Subset
  <2>6. crowded \/ BatchOk(c)
    BY <1>1, <2>2, <2>4, <2>5 DEF BatchOk
  <2>7. IF Compacts(c.does)
          THEN \E plan : (crowded \/ IsPlan(plan)) /\ c.txs = <<CompactPuts(plan)>>
          ELSE c.txs = <<BatchPuts(BatchOf(c.by, c.ops))>>
    <3>1. crowded \/ IsPlan(Plan(c.does))
      BY PlanIsPlan DEF IInv, DataOk
    <3>. QED  BY <1>3, <2>2, <3>1
  <2>8. IsBatch(BatchOf(c.by, c.ops))
    BY <2>1, <2>2, <2>4, <2>5, BatchIsBatch
  <2>9. WorkOk(c)
    BY <2>1, <2>2, <2>4, <2>5, <2>6, <2>7, <2>8 DEF WorkOk
  <2>. DEFINE next == <<c>>
  <2>10. next = <<c>> /\ Answer(k, next)
    BY <1>9
  <2>. HIDE DEF next
  <2>11. view'.of = view.of /\ view' \in Viewed
    BY <1>6 DEF IInv, UiOk
  <2>. QED  BY <1>6, <1>9, <2>3, <2>9, <2>10, <2>11, AnswerOnlyStep
<1>. QED  BY <1>7, <1>8, <1>9

LEMMA WriteFailsStep ==
  ASSUME IInv, NEW k \in DOMAIN calls, WriteFails(k)
  PROVE  IInv'
<1>1. PICK i : i = calls[k].by
  OBVIOUS
<1>2. /\ calls[k].at \in Work /\ EndJob(i)
      /\ db' = db /\ inst' = inst /\ mounted' = mounted /\ shown' = shown
      /\ view' = view /\ issued' = issued /\ recorded' = recorded
      /\ overlapped' = overlapped /\ crowded' = crowded
  BY <1>1 DEF WriteFails, ui, history, Work
<1>. DEFINE next == <<>>
<1>3. next = <<>> /\ Answer(k, next)
  BY DEF WriteFails
<1>. HIDE DEF next
<1>4. StoreSame /\ DataOk'
  BY <1>2, DataFrame DEF StoreSame, IInv, DataOk
<1>. QED  BY <1>1, <1>2, <1>3, <1>4, JobEnds

\* What a compaction and a batch put in the database.
LEMMA CompactionPut ==
  ASSUME NEW d, NEW plan
  PROVE  LET c == Perform(d, CompactPuts(plan))
         IN  /\ c.ops = d.ops \ plan.ops /\ c.cells = KeepCells(d.cells, plan.cells)
             /\ c.frontier = d.frontier /\ c.clock = d.clock
             /\ c.key = d.key /\ c.peers = d.peers
<1>1. \A T : PutWinners(T, {}) = T
  BY DEF PutWinners
<1>. QED  BY <1>1 DEF Perform, Entry, CompactPuts

LEMMA BatchPut ==
  ASSUME NEW d, NEW b
  PROVE  LET p == Perform(d, BatchPuts(b))
         IN  /\ p.ops = d.ops \cup b.ops /\ p.cells = PutWinners(d.cells, b.winners)
             /\ p.frontier = b.frontier /\ p.clock = b.clock
             /\ p.key = d.key /\ p.peers = d.peers
<1>1. \A T : KeepCells(T, {}) = T
  BY DEF KeepCells
<1>. QED  BY <1>1 DEF Perform, Entry, BatchPuts

\* An op stays covered by a frontier that advances, and one of a batch comes to
\* be.
LEMMA AdvanceCovers ==
  ASSUME NEW f \in Frontier, NEW S, S \subseteq Op, IsFiniteSet(S), NEW o \in Op,
         o \in S \/ ~Above(o, f)
  PROVE  ~Above(o, Advance(f, S))
<1>1. o.stamp \in StampOrZero /\ Author(o) \in Device
  BY DEF Op, Stamp, StampOrZero, Author
<1>2. PICK d \in Device : d = Author(o)
  BY <1>1
<1>3. /\ Leq(f[d], Advance(f, S)[d])
      /\ \A h \in StampsBy(S, d) : Leq(h, Advance(f, S)[d])
      /\ f[d] \in StampOrZero /\ Advance(f, S)[d] \in StampOrZero
  BY AdvanceIsLargest DEF Frontier
<1>4. CASE o \in S
  <2>1. o.stamp \in StampsBy(S, d)
    BY <1>2, <1>4 DEF StampsBy
  <2>. QED  BY <1>1, <1>2, <1>3, <2>1, LeqTotalOrder DEF Above
<1>5. CASE ~Above(o, f)
  <2>1. Leq(o.stamp, f[d])
    BY <1>1, <1>2, <1>3, <1>5, LeqTotalOrder DEF Above
  <2>2. Leq(o.stamp, Advance(f, S)[d])
    BY <1>1, <1>3, <2>1, LeqTotalOrder
  <2>. QED  BY <1>1, <1>2, <1>3, <2>2, LeqTotalOrder DEF Above
<1>. QED  BY <1>4, <1>5

\* A transaction that is only known to be well formed.
LEMMA AnyCommits ==
  ASSUME IInv, crowded, crowded' = crowded, NEW puts, db' = Perform(db, puts),
         \/ \E plan : puts = CompactPuts(plan)
         \/ \E b : IsBatch(b) /\ puts = BatchPuts(b),
         issued' \subseteq Op, recorded' = recorded, overlapped' = overlapped
  PROVE  DataOk'
<1>1. /\ db.ops \subseteq Op /\ IsFiniteSet(db.ops) /\ db.cells \subseteq Op
      /\ db.frontier \in Frontier /\ db.clock \in Clock
  BY DEF IInv, DataOk
<1>2. /\ db'.ops \subseteq Op /\ IsFiniteSet(db'.ops) /\ db'.cells \subseteq Op
      /\ db'.frontier \in Frontier /\ db'.clock \in Clock
      /\ db'.key = db.key /\ db'.peers = db.peers
  <2>1. CASE \E plan : puts = CompactPuts(plan)
    <3>1. PICK plan : puts = CompactPuts(plan)
      BY <2>1
    <3>2. IsFiniteSet(db.ops \ plan.ops)
      BY <1>1, FS_Subset
    <3>3. /\ db'.ops = db.ops \ plan.ops /\ db'.cells = KeepCells(db.cells, plan.cells)
          /\ db'.frontier = db.frontier /\ db'.clock = db.clock
          /\ db'.key = db.key /\ db'.peers = db.peers
      BY <3>1, CompactionPut
    <3>4. KeepCells(db.cells, plan.cells) \subseteq db.cells
      BY DEF KeepCells
    <3>. QED  BY <1>1, <3>2, <3>3, <3>4
  <2>2. CASE \E b : IsBatch(b) /\ puts = BatchPuts(b)
    <3>1. PICK b : IsBatch(b) /\ puts = BatchPuts(b)
      BY <2>2
    <3>2. IsFiniteSet(db.ops \cup b.ops)
      BY <1>1, <3>1, FS_Union DEF IsBatch
    <3>3. /\ db'.ops = db.ops \cup b.ops /\ db'.cells = PutWinners(db.cells, b.winners)
          /\ db'.frontier = b.frontier /\ db'.clock = b.clock
          /\ db'.key = db.key /\ db'.peers = db.peers
      BY <3>1, BatchPut
    <3>4. PutWinners(db.cells, b.winners) \subseteq db.cells \cup b.winners
      BY DEF PutWinners
    <3>. QED  BY <1>1, <3>1, <3>2, <3>3, <3>4 DEF IsBatch
  <2>. QED  BY <2>1, <2>2
<1>3. OneWriterAgrees' /\ StampsUnique' /\ RecordsKept'
  BY <1>2 DEF OneWriterAgrees, StampsUnique, RecordsKept, IInv, DataOk
<1>. QED  BY <1>2, <1>3 DEF IInv, DataOk

\* A compaction's transaction deletes rows whole, and superseded ops.
LEMMA CompactCommits ==
  ASSUME IInv, NEW plan, IsPlan(plan), db' = Perform(db, CompactPuts(plan)),
         issued' = issued, recorded' = recorded, overlapped' = overlapped,
         ~crowded, crowded' = crowded
  PROVE  DataOk' /\ db'.clock = db.clock
<1>1. /\ db'.ops = db.ops \ plan.ops /\ db'.cells = KeepCells(db.cells, plan.cells)
      /\ db'.frontier = db.frontier /\ db'.clock = db.clock
      /\ db'.key = db.key /\ db'.peers = db.peers
  BY CompactionPut
<1>2. /\ db.ops \subseteq Op /\ IsFiniteSet(db.ops) /\ db.cells = Winners(db.ops)
      /\ \A o \in db.ops : ~Above(o, db.frontier) /\ NotAfter(o.stamp, db.clock)
  BY DEF IInv, DataOk, OneWriterAgrees, LogAndCellsAgree
<1>3. PICK rows :
        /\ plan.cells = {o \in db.cells : o.row \in rows}
        /\ plan.ops \subseteq db.ops
        /\ \A o \in db.ops : /\ o.row \in rows => o \in plan.ops
                             /\ o \in plan.ops => o.row \in rows \/ o \notin db.cells
  BY DEF IsPlan
<1>4. IsFiniteSet(db.ops \ plan.ops)
  BY <1>2, FS_Subset
<1>5. db'.cells = {o \in db.cells : o.row \notin rows}
  <2>1. \A o \in db.cells : o.row \in rows => SameCell(o, o) /\ o \in plan.cells
    BY <1>3 DEF SameCell
  <2>2. \A o \in db.cells, c \in plan.cells : SameCell(o, c) => o.row \in rows
    BY <1>3 DEF SameCell
  <2>3. KeepCells(db.cells, plan.cells) = {o \in db.cells : o.row \notin rows}
    BY <2>1, <2>2 DEF KeepCells
  <2>. QED  BY <1>1, <2>3
<1>6. Winners(db.ops \ plan.ops) = {o \in Winners(db.ops) : o.row \notin rows}
  <2>1. PICK A, S : A = db.ops /\ S = plan.ops
    OBVIOUS
  <2>2. A \subseteq Op /\ IsFiniteSet(A) /\ S \subseteq A
    BY <1>2, <1>3, <2>1
  <2>3. \A o \in A : o.row \in rows => o \in S
    BY <1>3, <2>1
  <2>4. \A o \in S : o.row \in rows \/ o \notin Winners(A)
    BY <1>2, <1>3, <2>1
  <2>5. Winners(A \ S) = {o \in Winners(A) : o.row \notin rows}
    BY <2>2, <2>3, <2>4, CompactionSparesWinners
  <2>. QED  BY <2>1, <2>5
<1>7. OneWriterAgrees'
  BY <1>1, <1>2, <1>5, <1>6 DEF OneWriterAgrees, LogAndCellsAgree
<1>8. StampsUnique' /\ RecordsKept' /\ db'.cells \subseteq Op
  BY <1>1, <1>5 DEF IInv, DataOk, StampsUnique, RecordsKept
<1>. QED  BY <1>1, <1>2, <1>4, <1>7, <1>8 DEF IInv, DataOk

\* A batch's transaction, and what this device has written once it is done.
LEMMA BatchCommits ==
  ASSUME IInv, NEW c, WorkOk(c), c.at = "write", c.by \in Slot,
         db' = Perform(db, BatchPuts(BatchOf(c.by, c.ops))),
         issued' = IF c.does = "write" THEN issued \cup c.ops ELSE issued,
         recorded' = recorded, overlapped' = overlapped,
         ~crowded, crowded' = crowded
  PROVE  DataOk' /\ db'.clock = inst[c.by].clock
<1>1. PICK clock : clock = inst[c.by].clock
  OBVIOUS
<1>2. PICK winners :
        winners = {o \in Winners(db.cells \cup c.ops) : \E p \in c.ops : SameCell(o, p)}
  OBVIOUS
<1>3. /\ db'.ops = db.ops \cup c.ops /\ db'.cells = PutWinners(db.cells, winners)
      /\ db'.frontier = Advance(db.frontier, c.ops) /\ db'.clock = clock
      /\ db'.key = db.key /\ db'.peers = db.peers
  <2>1. PICK b : b = BatchOf(c.by, c.ops)
    OBVIOUS
  <2>2. /\ b.ops = c.ops /\ b.winners = winners /\ b.clock = clock
        /\ b.frontier = Advance(db.frontier, c.ops)
    BY <1>1, <1>2, <2>1 DEF BatchOf
  <2>. QED  BY <2>1, <2>2, BatchPut
<1>4. /\ db.ops \subseteq Op /\ IsFiniteSet(db.ops) /\ db.cells = Winners(db.ops)
      /\ \A o \in db.ops : ~Above(o, db.frontier) /\ NotAfter(o.stamp, db.clock)
      /\ db.frontier \in Frontier /\ db.clock \in Clock
      /\ issued \subseteq Op /\ \A o \in issued : NotAfter(o.stamp, db.clock)
      /\ StampsUnique /\ RecordsKept
  BY DEF IInv, DataOk, OneWriterAgrees, LogAndCellsAgree
<1>5. /\ c.ops \subseteq Op /\ IsFiniteSet(c.ops)
      /\ NotAfter(db.clock, clock)
      /\ \A o \in c.ops : NotAfter(o.stamp, clock)
      /\ c.does = "write" => /\ \A o \in c.ops : Earlier(db.clock, o.stamp)
                             /\ \A o, p \in c.ops : o = p
  BY <1>1 DEF WorkOk, BatchOk, Work
<1>6. clock \in Clock
  BY <1>1 DEF IInv, TypeInv, Opened
<1>7. ASSUME NEW o \in Op
      PROVE  /\ NotAfter(o.stamp, db.clock) => NotAfter(o.stamp, clock)
             /\ ~(NotAfter(o.stamp, db.clock) /\ Earlier(db.clock, o.stamp))
  <2>1. /\ o.stamp.millis \in Nat /\ o.stamp.counter \in Nat
        /\ db.clock.millis \in Nat /\ db.clock.counter \in Nat
        /\ clock.millis \in Nat /\ clock.counter \in Nat
    BY <1>4, <1>6, HlcAssumption DEF Op, Stamp, Clock
  <2>. QED  BY <1>5, <2>1, EarlierOrder
<1>8. /\ db'.ops \subseteq Op /\ IsFiniteSet(db'.ops)
      /\ db'.frontier \in Frontier /\ db'.clock \in Clock
  <2>1. IsFiniteSet(db.ops \cup c.ops)
    BY <1>4, <1>5, FS_Union
  <2>2. Advance(db.frontier, c.ops) \in Frontier
    BY <1>4, <1>5, AdvanceIsLargest
  <2>. QED  BY <1>3, <1>4, <1>5, <1>6, <2>1, <2>2
<1>9. OneWriterAgrees' /\ db'.cells \subseteq Op
  <2>1. db'.cells = Winners(db'.ops)
    BY <1>2, <1>3, <1>4, <1>5, BatchMerges
  <2>2. ASSUME NEW o \in db'.ops
        PROVE  ~Above(o, db'.frontier) /\ NotAfter(o.stamp, db'.clock)
    BY <1>3, <1>4, <1>5, <1>7, AdvanceCovers
  <2>. QED  BY <1>8, <2>1, <2>2 DEF OneWriterAgrees, LogAndCellsAgree, Winners
<1>10. /\ issued' \subseteq Op
       /\ \A o \in issued' : NotAfter(o.stamp, db'.clock)
       /\ StampsUnique'
  BY <1>3, <1>4, <1>5, <1>7 DEF StampsUnique
<1>11. RecordsKept'
  BY <1>3, <1>4 DEF RecordsKept
<1>12. db'.key \in Local \cup {NoKey} /\ DOMAIN db'.peers \subseteq Device
  BY <1>3 DEF IInv, DataOk
<1>. QED  BY <1>1, <1>3, <1>8, <1>9, <1>10, <1>11, <1>12 DEF DataOk

LEMMA WriteDoneStep ==
  ASSUME IInv, NEW k \in DOMAIN calls, WriteDone(k)
  PROVE  IInv'
<1>1. PICK c : c = calls[k]
  OBVIOUS
<1>2. PICK i : i = calls[k].by
  OBVIOUS
<1>3. c.at = "write" /\ calls[k].at \in Work
  BY <1>1 DEF WriteDone, Work
<1>4. WorkOk(c) /\ i \in Slot /\ c.by = i /\ inst[i].at # "free"
  BY <1>1, <1>2 DEF IInv, Placed
<1>5. PICK puts : /\ c.txs = <<puts>>
                  /\ \/ \E plan : puts = CompactPuts(plan)
                     \/ \E b : IsBatch(b) /\ puts = BatchPuts(b)
  BY <1>3, <1>4 DEF WorkOk
<1>6. Head(c.txs) = puts /\ Tail(c.txs) = <<>>
  BY <1>5
<1>7. /\ db' = Perform(db, puts)
      /\ Answer(k, IF Concerns(i, c.ops) THEN Then(i, Refresh(i)) ELSE <<>>)
      /\ EndJob(i)
      /\ issued' = IF c.does = "write" THEN issued \cup c.ops ELSE issued
      /\ inst' = inst /\ mounted' = mounted /\ shown' = shown /\ view' = view
      /\ recorded' = recorded /\ overlapped' = overlapped /\ crowded' = crowded
  BY <1>1, <1>2, <1>6 DEF WriteDone, ui
<1>8. DataOk' /\ (crowded \/ NotAfter(db'.clock, inst[i].clock))
  <2>1. CASE crowded
    <3>1. c.ops \subseteq Op
      BY <1>1, <1>3, <1>4 DEF WorkOk
    <3>2. issued' \subseteq Op
      BY <1>7, <3>1 DEF IInv, DataOk
    <3>. QED  BY <1>5, <1>7, <2>1, <3>2, AnyCommits
  <2>2. CASE ~crowded /\ Compacts(c.does)
    <3>1. PICK plan : IsPlan(plan) /\ c.txs = <<CompactPuts(plan)>>
      BY <1>3, <1>4, <2>2 DEF WorkOk
    <3>2. puts = CompactPuts(plan)
      BY <1>5, <3>1
    <3>3. c.does # "write"
      BY <2>2 DEF Compacts
    <3>4. DataOk' /\ db'.clock = db.clock
      BY <1>7, <2>2, <3>1, <3>2, <3>3, CompactCommits
    <3>. QED  BY <1>3, <1>4, <2>2, <3>4 DEF WorkOk, BatchOk
  <2>3. CASE ~crowded /\ ~Compacts(c.does)
    <3>1. puts = BatchPuts(BatchOf(c.by, c.ops))
      BY <1>3, <1>4, <1>5, <2>3 DEF WorkOk
    <3>2. DataOk' /\ db'.clock = inst[i].clock
      BY <1>3, <1>4, <1>7, <2>3, <3>1, BatchCommits
    <3>. QED  BY <3>2 DEF NotAfter, SameTime
  <2>. QED  BY <2>1, <2>2, <2>3
<1>9. PICK r : r = Refresh(i)
  OBVIOUS
<1>10. PICK next : (next = <<>> \/ next = <<r>>) /\ Answer(k, next)
  BY <1>7, <1>9 DEF Then
<1>11. r.by = i /\ r.at \in {"list", "row"} /\ (r.at = "row" => r.got \subseteq Op)
  BY <1>9 DEF Refresh
<1>. QED  BY <1>1, <1>2, <1>3, <1>7, <1>8, <1>10, <1>11, JobEnds

-----------------------------------------------------------------------------
\* Events.

LEMMA MountStep ==
  ASSUME IInv, NEW i \in Slot, Mount(i)
  PROVE  IInv'
<1>1. PICK c : c = Call(i, "openDb")
  OBVIOUS
<1>2. PICK new : new = [Unused EXCEPT !.at = "opening"]
  OBVIOUS
<1>3. c.by = i /\ c.at = "openDb"
  BY <1>1 DEF Call
<1>4. /\ new.at = "opening" /\ new.started = 0 /\ ~new.closed /\ ~new.cancelled
      /\ ~new.listening /\ new \in Opened
  <2>1. Unused \in Opened
    BY SpacesAssumption, HlcAssumption DEF Unused, Opened, FreshClock, Clock
  <2>2. new.at = "opening" /\ new \in Opened
    BY <1>2, <2>1 DEF Opened
  <2>3. new.started = 0 /\ ~new.closed /\ ~new.cancelled /\ ~new.listening
    BY <1>2 DEF Unused
  <2>. QED  BY <2>2, <2>3
<1>5. /\ mounted = 0 /\ mounted' = i /\ jobs[i] = <<>>
      /\ \A k \in DOMAIN calls : calls[k].by # i
      /\ crowded' = (crowded \/ Crowded')
      /\ inst' = [inst EXCEPT ![i] = new] /\ Make(c)
      /\ db' = db /\ jobs' = jobs /\ shown' = shown /\ view' = view
      /\ issued' = issued /\ recorded' = recorded /\ overlapped' = overlapped
  <2>1. UNCHANGED <<db, jobs, shown, view, issued, recorded, overlapped>>
    BY DEF Mount
  <2>2. Reusable(i)
    BY DEF Mount
  <2>3. /\ mounted = 0 /\ mounted' = i
        /\ crowded' = (crowded \/ Crowded')
        /\ inst' = [inst EXCEPT ![i] = new] /\ Make(c)
    BY <1>1, <1>2 DEF Mount, Remember
  <2>. QED  BY <2>1, <2>2, <2>3 DEF Reusable
<1>6. inst' \in [Slot -> Opened] /\ inst'[i] = new /\ \A j \in Slot \ {i} : inst'[j] = inst[j]
  BY <1>4, <1>5 DEF IInv, TypeInv
<1>7. TypeInv'
  BY <1>5, <1>6 DEF IInv, TypeInv
<1>8. shown = 0 /\ view.of = 0
  BY <1>5 DEF IInv, UiOk
<1>9. UiOk'
  BY <1>4, <1>5, <1>6, <1>8, SpacesAssumption DEF IInv, UiOk, Slot
<1>10. ASSUME NEW j \in Slot  PROVE LifeOk(j)'
  <2>1. CASE j = i
    BY <1>4, <1>5, <1>6, <2>1, SpacesAssumption DEF LifeOk, Acting
  <2>2. CASE j # i
    <3>1. LifeOk(j) /\ inst'[j] = inst[j] /\ j # 0
      BY <1>6, <2>2 DEF IInv, Slot
    <3>2. jobs[j] # <<>> => crowded' \/ inst[j].closed
      BY <1>4, <1>5, <1>6, <2>2, <3>1 DEF Crowded
    <3>. QED  BY <1>5, <2>2, <3>1, <3>2 DEF LifeOk, Acting
  <2>. QED  BY <2>1, <2>2
<1>11. /\ CallsInOrder'
       /\ \A m \in DOMAIN calls' :
            (\E j \in DOMAIN calls : calls'[m] = calls[j]) \/ calls'[m] = c
  <2>1. c.at \notin Loading \ {"openDb"} /\ c.at # "write" /\ c.at \notin Work \cup Recording
    BY <1>3 DEF Work, Recording
  <2>. QED  BY <1>3, <1>5, <2>1, MakeKeepsOrder DEF IInv
<1>12. StoreSame
  BY <1>5 DEF StoreSame
<1>13. ASSUME NEW m \in DOMAIN calls, NEW d, d = calls[m]
       PROVE  Placed(d)' /\ WorkOk(d)' /\ ReadingOk(d)'
  <2>1. Placed(d) /\ WorkOk(d) /\ ReadingOk(d) /\ d.by # i
    BY <1>5, <1>13 DEF IInv
  <2>2. inst'[d.by] = inst[d.by]
    BY <1>6, <2>1 DEF Placed
  <2>3. Placed(d)'
    BY <1>5, <2>1, <2>2, PlacedFrame DEF Placed
  <2>4. \A j \in Slot : Acting(j)' /\ ~inst'[j].closed => Acting(j) /\ ~inst[j].closed
    BY <1>4, <1>6, SpacesAssumption DEF Acting
  <2>5. WorkOk(d)'
    BY <1>5, <1>12, <2>1, <2>2, <2>4, WorkFrame
  <2>6. ReadingOk(d)'
    BY <1>5, <2>1, ReadingFrame
  <2>. QED  BY <2>3, <2>5, <2>6
<1>14. Placed(c)' /\ WorkOk(c)' /\ ReadingOk(c)'
  BY <1>3, <1>4, <1>6 DEF Placed, WorkOk, ReadingOk, Opening, Loading, Work, Recording
<1>15. ASSUME NEW m \in DOMAIN calls'
       PROVE  Placed(calls[m])' /\ WorkOk(calls[m])' /\ ReadingOk(calls[m])'
  BY <1>11, <1>13, <1>14
<1>16. DataOk'
  BY <1>5, <1>12, DataFrame DEF IInv, DataOk
<1>. QED  BY <1>7, <1>9, <1>10, <1>11, <1>15, <1>16 DEF IInv

LEMMA UnmountStep ==
  ASSUME IInv, Unmount
  PROVE  IInv'
<1>1. PICK i : i = mounted
  OBVIOUS
<1>2. i \in Slot /\ inst[i] \in Opened /\ inst[i].at # "free" /\ ~inst[i].closed
  BY <1>1, SpacesAssumption DEF Unmount, IInv, UiOk, TypeInv, Slot
<1>3. PICK new : new = [inst[i] EXCEPT !.cancelled = TRUE, !.closed = (shown = i)]
  OBVIOUS
<1>4. /\ new \in Opened /\ new.at = inst[i].at /\ new.started = inst[i].started
      /\ new.key = inst[i].key /\ new.clock = inst[i].clock
      /\ new.listening = inst[i].listening
      /\ new.cancelled /\ (new.closed <=> shown = i)
  BY <1>2, <1>3 DEF Opened
<1>5. /\ inst' = [inst EXCEPT ![i] = new] /\ mounted' = 0 /\ shown' = 0 /\ view' = NoView
      /\ db' = db /\ jobs' = jobs /\ calls' = calls
      /\ issued' = issued /\ recorded' = recorded /\ overlapped' = overlapped
      /\ crowded' = crowded
  BY <1>1, <1>3 DEF Unmount, store, history
<1>6. inst' \in [Slot -> Opened] /\ inst'[i] = new /\ \A j \in Slot \ {i} : inst'[j] = inst[j]
  BY <1>2, <1>4, <1>5 DEF IInv, TypeInv
<1>7. TypeInv'
  BY <1>5, <1>6 DEF IInv, TypeInv
<1>8. UiOk'
  BY <1>5, SpacesAssumption DEF UiOk, NoView, Viewed
<1>9. /\ \A j \in Slot : inst[j].closed => inst'[j].closed
      /\ \A j \in Slot : inst'[j].at = inst[j].at /\ inst'[j].clock = inst[j].clock
                         /\ inst'[j].key = inst[j].key /\ inst'[j].started = inst[j].started
                         /\ inst'[j].listening = inst[j].listening
  BY <1>2, <1>4, <1>6
<1>10. \A j \in Slot : Acting(j)' <=> Acting(j)
  BY <1>9 DEF Acting
<1>11. ASSUME NEW j \in Slot  PROVE LifeOk(j)'
  <2>1. LifeOk(j) /\ j # 0
    BY DEF IInv, Slot
  <2>2. jobs[j] # <<>> => crowded' \/ inst'[j].closed \/ Alone(j)'
    BY <1>5, <1>9, <2>1 DEF LifeOk, Alone
  <2>3. shown \in {0, i}
    BY <1>1 DEF IInv, UiOk
  <2>4. CASE j = i
    <3>1. shown = i => inst[i].at = "open"
      BY <1>2 DEF IInv, UiOk, Slot
    <3>. QED  BY <1>2, <1>4, <1>5, <1>6, <1>9, <1>10, <2>1, <2>2, <2>4, <3>1 DEF LifeOk
  <2>5. CASE j # i
    <3>1. inst'[j] = inst[j]
      BY <1>6, <2>5
    <3>2. ~(inst[j].at = "open" /\ ~inst[j].closed)
      BY <2>1, <2>3, <2>5 DEF LifeOk
    <3>. QED  BY <1>1, <1>5, <1>10, <2>1, <2>2, <2>5, <3>1, <3>2 DEF LifeOk
  <2>. QED  BY <2>4, <2>5
<1>12. CallsInOrder'
  BY <1>5 DEF IInv, CallsInOrder
<1>13. StoreSame
  BY <1>5 DEF StoreSame
<1>14. ASSUME NEW m \in DOMAIN calls, NEW d, d = calls[m]
       PROVE  Placed(d)' /\ WorkOk(d)' /\ ReadingOk(d)'
  <2>1. Placed(d) /\ WorkOk(d) /\ ReadingOk(d)
    BY <1>14 DEF IInv
  <2>2. Placed(d)'
    BY <1>5, <1>9, <2>1 DEF Placed
  <2>3. WorkOk(d)'
    BY <1>5, <1>9, <1>10, <1>13, <2>1, WorkFrame DEF Placed
  <2>4. ReadingOk(d)'
    BY <1>5, <2>1, ReadingFrame
  <2>. QED  BY <2>2, <2>3, <2>4
<1>15. ASSUME NEW m \in DOMAIN calls'
       PROVE  Placed(calls[m])' /\ WorkOk(calls[m])' /\ ReadingOk(calls[m])'
  BY <1>5, <1>14
<1>16. DataOk'
  BY <1>5, <1>13, DataFrame DEF IInv, DataOk
<1>. QED  BY <1>7, <1>8, <1>11, <1>12, <1>15, <1>16 DEF IInv

\* A job joins the queue of an engine that acts and is not closed.
LEMMA EngageStep ==
  ASSUME IInv, NEW i \in Slot, Acting(i), ~inst[i].closed, NEW job \in Job, Engage(i, job)
  PROVE  IInv'
<1>1. /\ calls' = calls /\ db' = db /\ inst' = inst
      /\ mounted' = mounted /\ shown' = shown /\ view' = view
      /\ issued' = issued /\ recorded' = recorded /\ overlapped' = overlapped
      /\ jobs' = [jobs EXCEPT ![i] = Append(@, job)]
      /\ crowded' = (crowded \/ Crowded')
  BY DEF Engage, Remember, store, ui
<1>2. jobs \in [Slot -> Seq(Job)] /\ jobs[i] \in Seq(Job)
  BY DEF IInv, TypeInv
<1>3. Append(jobs[i], job) \in Seq(Job) /\ Append(jobs[i], job) # <<>>
  BY <1>2, AppendProperties
<1>4. /\ jobs' \in [Slot -> Seq(Job)] /\ jobs'[i] # <<>>
      /\ \A j \in Slot \ {i} : jobs'[j] = jobs[j]
  BY <1>1, <1>2, <1>3
<1>5. TypeInv' /\ UiOk' /\ CallsInOrder'
  BY <1>1, <1>4 DEF IInv, TypeInv, UiOk, CallsInOrder
<1>6. ASSUME NEW j \in Slot  PROVE LifeOk(j)'
  <2>1. LifeOk(j) /\ (Alone(j)' <=> Alone(j)) /\ (Acting(j)' <=> Acting(j))
    BY <1>1 DEF IInv, Alone, Acting
  <2>2. crowded' \/ Alone(i)
    BY <1>1, <1>4 DEF Crowded, Alone
  <2>3. jobs'[j] # <<>> => Acting(j) /\ (crowded' \/ inst[j].closed \/ Alone(j))
    BY <1>1, <1>4, <2>1, <2>2 DEF LifeOk
  <2>. QED  BY <1>1, <2>1, <2>3 DEF LifeOk
<1>7. StoreSame
  BY <1>1 DEF StoreSame
<1>8. ASSUME NEW m \in DOMAIN calls, NEW d, d = calls[m]
      PROVE  Placed(d)' /\ WorkOk(d)' /\ ReadingOk(d)'
  <2>1. Placed(d) /\ WorkOk(d) /\ ReadingOk(d)
    BY <1>8 DEF IInv
  <2>2. Placed(d)'
    BY <1>1, <1>4, <2>1 DEF Placed
  <2>3. WorkOk(d)'
    BY <1>1, <1>7, <2>1, WorkFrame DEF Acting
  <2>4. ReadingOk(d)'
    BY <1>1, <2>1, ReadingFrame
  <2>. QED  BY <2>2, <2>3, <2>4
<1>9. ASSUME NEW m \in DOMAIN calls'
      PROVE  Placed(calls[m])' /\ WorkOk(calls[m])' /\ ReadingOk(calls[m])'
  BY <1>1, <1>8
<1>10. DataOk'
  BY <1>1, <1>7, DataFrame DEF IInv, DataOk
<1>. QED  BY <1>5, <1>6, <1>9, <1>10 DEF IInv

LEMMA JobsCome ==
  ASSUME IInv,
         \/ \E w \in Writes : Mutate(w)
         \/ \E does \in {"compact", "collect"} : Compact(does)
         \/ \E i \in Slot, ops \in RemoteOps : Hear(i, ops)
  PROVE  IInv'
<1>1. shown # 0 => shown \in Slot /\ Acting(shown) /\ ~inst[shown].closed
  BY SpacesAssumption DEF IInv, UiOk, Slot, Acting
<1>2. ASSUME NEW w \in Writes, Mutate(w)  PROVE IInv'
  <2>1. PICK job : job = [does |-> "write", write |-> w]
    OBVIOUS
  <2>2. job \in Job
    BY <2>1 DEF Job
  <2>. QED  BY <1>1, <1>2, <2>1, <2>2, EngageStep DEF Mutate
<1>3. ASSUME NEW does \in {"compact", "collect"}, Compact(does)  PROVE IInv'
  <2>1. PICK job : job = [does |-> does]
    OBVIOUS
  <2>2. job \in Job
    BY <2>1 DEF Job
  <2>. QED  BY <1>1, <1>3, <2>1, <2>2, EngageStep DEF Compact
<1>4. ASSUME NEW i \in Slot, NEW ops \in RemoteOps, Hear(i, ops)  PROVE IInv'
  <2>1. PICK job : job = [does |-> "receive", ops |-> ops]
    OBVIOUS
  <2>2. job \in Job
    BY <2>1 DEF Job
  <2>3. Acting(i) /\ ~inst[i].closed
    BY <1>4 DEF Hear, Listening, IInv, LifeOk
  <2>. QED  BY <1>4, <2>1, <2>2, <2>3, EngageStep DEF Hear
<1>. QED  BY <1>2, <1>3, <1>4

\* Nothing is under way, and no space is there.
Blank ==
  /\ calls = <<>>
  /\ inst = [i \in Slot |-> Unused]
  /\ jobs = [i \in Slot |-> <<>>]
  /\ mounted = 0 /\ shown = 0 /\ view = NoView
Underway ==
  /\ TypeInv /\ CallsInOrder /\ UiOk
  /\ \A i \in Slot : LifeOk(i)
  /\ \A k \in DOMAIN calls : Placed(calls[k]) /\ WorkOk(calls[k]) /\ ReadingOk(calls[k])

LEMMA NothingUnderway == Blank => Underway
<1>. SUFFICES ASSUME Blank  PROVE Underway
  OBVIOUS
<1>. USE DEF Blank
<1>1. Unused \in Opened
  BY SpacesAssumption, HlcAssumption DEF Unused, Opened, FreshClock, Clock
<1>2. \A S : <<>> \in Seq(S)
  OBVIOUS
<1>3. TypeInv
  BY <1>1, <1>2 DEF TypeInv
<1>4. DOMAIN calls = {}
  OBVIOUS
<1>5. CallsInOrder
  BY <1>2, <1>4 DEF CallsInOrder, IsSequence
<1>6. UiOk
  BY SpacesAssumption DEF UiOk, NoView, Viewed
<1>7. ASSUME NEW i \in Slot  PROVE LifeOk(i)
  BY SpacesAssumption DEF LifeOk, Acting, Unused
<1>. QED  BY <1>3, <1>4, <1>5, <1>6, <1>7 DEF Underway

LEMMA CrashStep ==
  ASSUME IInv, Crash
  PROVE  IInv'
<1>1. /\ Blank'
      /\ db' = db /\ issued' = issued /\ recorded' = recorded /\ overlapped' = overlapped
      /\ crowded' = crowded
  BY DEF Crash, Blank, history
<1>2. DataOk'
  <2>1. StoreSame
    BY <1>1 DEF StoreSame
  <2>. QED  BY <1>1, <2>1, DataFrame DEF IInv, DataOk
<1>3. Underway'
  BY <1>1, NothingUnderway, PTL
<1>. QED  BY <1>2, <1>3 DEF IInv, Underway

-----------------------------------------------------------------------------
\* The theorems.

LEMMA IInvInit == SpacesInit => IInv
<1>. SUFFICES ASSUME SpacesInit  PROVE IInv
  OBVIOUS
<1>1. Blank
  BY DEF SpacesInit, Blank
<1>2. Underway
  BY <1>1, NothingUnderway
<1>3. /\ db.ops = {} /\ db.cells = {} /\ db.frontier = EmptyFrontier
      /\ db.clock = FreshClock /\ db.key = NoKey /\ DOMAIN db.peers = {}
      /\ issued = {} /\ recorded = db.peers
  BY DEF SpacesInit, EmptyDb
<1>4. db.frontier \in Frontier /\ db.clock \in Clock
  BY <1>3, HlcAssumption DEF EmptyFrontier, Frontier, StampOrZero, FreshClock, Clock
<1>5. Winners({}) = {}
  BY DEF Winners
<1>6. OneWriterAgrees /\ StampsUnique /\ RecordsKept
  BY <1>3, <1>5 DEF OneWriterAgrees, LogAndCellsAgree, StampsUnique, RecordsKept
<1>7. DataOk
  BY <1>3, <1>4, <1>6, FS_EmptySet DEF DataOk
<1>. QED  BY <1>2, <1>7 DEF IInv, Underway

LEMMA StutterStep ==
  ASSUME IInv, UNCHANGED spaceVars
  PROVE  IInv'
<1>1. /\ db' = db /\ calls' = calls /\ inst' = inst /\ jobs' = jobs
      /\ mounted' = mounted /\ shown' = shown /\ view' = view
      /\ issued' = issued /\ recorded' = recorded /\ overlapped' = overlapped
      /\ crowded' = crowded
  BY DEF spaceVars, store, ui, history
<1>2. StoreSame
  BY <1>1 DEF StoreSame
<1>3. TypeInv' /\ CallsInOrder' /\ UiOk'
  BY <1>1 DEF IInv, TypeInv, CallsInOrder, UiOk
<1>4. ASSUME NEW i \in Slot  PROVE LifeOk(i)'
  BY <1>1, LifeFrame DEF IInv, LifeOk, Alone
<1>5. ASSUME NEW m \in DOMAIN calls, NEW d, d = calls[m]
      PROVE  Placed(d)' /\ WorkOk(d)' /\ ReadingOk(d)'
  <2>1. Placed(d) /\ WorkOk(d) /\ ReadingOk(d)
    BY <1>5 DEF IInv
  <2>2. Placed(d)' /\ ReadingOk(d)'
    BY <1>1, <2>1, PlacedFrame, ReadingFrame DEF Placed
  <2>3. WorkOk(d)'
    BY <1>1, <1>2, <2>1, WorkFrame DEF Acting
  <2>. QED  BY <2>2, <2>3
<1>6. ASSUME NEW m \in DOMAIN calls'
      PROVE  Placed(calls[m])' /\ WorkOk(calls[m])' /\ ReadingOk(calls[m])'
  BY <1>1, <1>5
<1>7. DataOk'
  BY <1>1, <1>2, DataFrame DEF IInv, DataOk
<1>. QED  BY <1>3, <1>4, <1>6, <1>7 DEF IInv

LEMMA IInvStep == IInv /\ [SpacesNext]_spaceVars => IInv'
<1>. SUFFICES ASSUME IInv, [SpacesNext]_spaceVars  PROVE IInv'
  OBVIOUS
<1>1. CASE Running
  <2>1. ASSUME NEW k \in DOMAIN calls, Ready(k), Serve(k)  PROVE IInv'
    <3>1. CASE OpenDb(k) \/ GetKey(k) \/ SetKey(k)
      BY <3>1, OpenDbStep, GetKeyStep, SetKeyStep
    <3>2. CASE CallFactory(k) \/ MakeTransport(k) \/ Finish(k)
      BY <2>1, <3>2, CallFactoryStep, MakeTransportStep, FinishStep
    <3>3. CASE ReadDone(k) \/ WriteDone(k)
      BY <3>3, ReadDoneStep, WriteDoneStep
    <3>4. CASE GetPeersDone(k) \/ SetPeersDone(k)
      BY <3>4, GetPeersStep, SetPeersStep
    <3>5. CASE ListDone(k) \/ RowDone(k)
      BY <3>5, ListStep, RowStep
    <3>. QED  BY <2>1, <3>1, <3>2, <3>3, <3>4, <3>5 DEF Serve
  <2>. QED  BY <1>1, <2>1, BeginStep, RunEffectStep DEF Running
<1>2. CASE Failing
  <2>1. PICK k \in DOMAIN calls : Ready(k) /\ (OpenFails(k) \/ WriteFails(k))
    BY <1>2 DEF Failing
  <2>. QED  BY <2>1, OpenFailsStep, WriteFailsStep
<1>3. CASE Happening
  <2>1. CASE \E i \in Slot : Mount(i)
    BY <2>1, MountStep
  <2>2. CASE Unmount \/ Crash
    BY <2>2, UnmountStep, CrashStep
  <2>3. CASE \/ \E w \in Writes : Mutate(w)
             \/ \E does \in {"compact", "collect"} : Compact(does)
             \/ \E i \in Slot, ops \in RemoteOps : Hear(i, ops)
    BY <2>3, JobsCome
  <2>4. CASE \E i \in Slot, r \in Recordings : Record(i, r)
    BY <2>4, RecordStep
  <2>. QED  BY <1>3, <2>1, <2>2, <2>3, <2>4 DEF Happening
<1>4. CASE UNCHANGED spaceVars
  BY <1>4, StutterStep
<1>. QED  BY <1>1, <1>2, <1>3, <1>4 DEF SpacesNext

LEMMA Invariance == SpacesSpec => []IInv
BY IInvInit, IInvStep, PTL DEF SpacesSpec

\* The spaces, the database and what is shown keep their types, every call
\* belongs to a space that is there, and the component shows nothing, or the
\* space it has opened (useSpace, openSpace).
THEOREM SpacesTypeCorrect == SpacesSpec => []SpacesTypeOK
<1>1. IInv => SpacesTypeOK
  <2>. SUFFICES ASSUME IInv  PROVE SpacesTypeOK
    OBVIOUS
  <2>1. ASSUME NEW i \in Slot
        PROVE  /\ inst[i].at \in {"free", "opening", "open", "failed"}
               /\ inst[i].key \in Local \cup {NoKey}
               /\ inst[i].clock \in Clock
               /\ inst[i].started \in 0 .. Transports
    BY DEF IInv, TypeInv, Opened
  <2>2. \A k \in DOMAIN calls : inst[calls[k].by].at # "free"
    BY DEF IInv, Placed
  <2>3. view.rows \subseteq Op
    BY DEF IInv, UiOk, Viewed
  <2>. QED  BY <2>1, <2>2, <2>3, CellsAreOps DEF IInv, UiOk, DataOk, SpacesTypeOK
<1>. QED  BY <1>1, Invariance, PTL

\* As long as no engine had a job while another one was not closed, the cells
\* stored are, between any two transactions, the winners of the log, and the
\* stored frontier and clock cover it, whatever crashes, aborts, is closed or
\* compacted, deleted rows included (applyBatch, compact; PROTOCOL.md 8.2).
THEOREM CellsAreWinners == SpacesSpec => []OneWriterAgrees
BY Invariance, PTL DEF IInv, DataOk

\* Under the same condition no two writes of this device carry the same stamp:
\* the clock a space starts from covers every write of the spaces before it,
\* those included that were on their way when it began to open, and those of a
\* process that died (SyncEngine.open, HybridLogicalClock.now).
THEOREM NoStampTwice == SpacesSpec => []StampsUnique
BY Invariance, PTL DEF IInv, DataOk

\* A recording stays stored under later recordings, of the same peer or of
\* others, as long as no two of them overlap (recordPeerFrontier).
THEOREM RecordingsStay == SpacesSpec => []RecordsKept
BY Invariance, PTL DEF IInv, DataOk

\* A space that opened is the one shown, or closed, however mounts and unmounts
\* fall into its opening (the cancelled flag of useSpace).
THEOREM NoSpaceLeftOpen == SpacesSpec => []OneLiveSpace
<1>1. IInv => OneLiveSpace
  <2>. SUFFICES ASSUME IInv  PROVE OneLiveSpace
    OBVIOUS
  <2>1. \A i \in Slot : inst[i].at = "open" /\ ~inst[i].closed => shown = i
    BY DEF IInv, LifeOk
  <2>2. shown # 0 => mounted = shown /\ inst[shown].at = "open" /\ ~inst[shown].closed
    BY DEF IInv, UiOk
  <2>. QED  BY <2>1, <2>2 DEF OneLiveSpace
<1>. QED  BY <1>1, Invariance, PTL

-----------------------------------------------------------------------------
\* The device's identity. An opening finds the stored key or claims a new one;
\* what follows shows that of two openings under way the later one, whose space
\* may be shown, is the one whose key stays.

Claiming == {"openDb", "getKey", "setKey"}
Rank == [openDb |-> 1, getKey |-> 2, setKey |-> 3]

\* Call k's opening is further on than call m's, or as far and goes first.
Ahead(k, m) ==
  /\ calls[k].at \in Claiming /\ calls[m].at \in Claiming
  /\ \/ Rank[calls[k].at] > Rank[calls[m].at]
     \/ calls[k].at = calls[m].at /\ k < m

\* Only the last of the openings under way may be the mounted component's.
LastIsMounted == \A k, m \in DOMAIN calls : Ahead(k, m) => mounted # calls[k].by

NoClaim == \A k \in DOMAIN calls : calls[k].at # "setKey"

\* A space with its clock, or about to read it, has found a key; the mounted
\* one the key there is. While a key is about to be stored nothing has been
\* written, and those who have stored theirs are no longer mounted, and still
\* wait for their clocks.
KeysOk ==
  /\ \A i \in Slot : Acting(i) =>
       /\ db.key # NoKey
       /\ mounted = i => inst[i].key = db.key
  /\ \A k \in DOMAIN calls : calls[k].at = "getClock" =>
       /\ db.key # NoKey
       /\ mounted = calls[k].by => inst[calls[k].by].key = db.key
  /\ \A k \in DOMAIN calls : calls[k].at = "setKey" =>
       /\ issued = {}
       /\ \A i \in Slot : ~Acting(i)
       /\ db.key # NoKey => \E m \in DOMAIN calls : calls[m].at = "getClock"
       /\ \A m \in DOMAIN calls :
            calls[m].at = "getClock" => k < m /\ mounted # calls[m].by

\* What this device writes, and has written, is under the stored key.
WritesOk ==
  /\ \A o \in issued : Author(o) = db.key
  /\ \A i \in Slot : \A n \in DOMAIN jobs[i] :
       jobs[i][n].does = "write" => inst[i].key = db.key
  /\ \A k \in DOMAIN calls : calls[k].at \in Work /\ calls[k].does = "write" =>
       \A o \in calls[k].ops : Author(o) = db.key

\* The calls in `gone` are answered and those in `came` are made; the others
\* keep their order, before what came.
Succeeds(gone, came) ==
  /\ \A m \in DOMAIN calls' :
       \/ \E j \in DOMAIN calls \ gone : calls'[m] = calls[j]
       \/ calls'[m] \in came
  /\ \A m, p \in DOMAIN calls' : m < p =>
       \E j \in DOMAIN calls \ gone :
         /\ calls'[m] = calls[j]
         /\ \/ \E l \in DOMAIN calls \ gone : j < l /\ calls'[p] = calls[l]
            \/ calls'[p] \in came
  /\ \A j \in DOMAIN calls \ gone : \E m \in DOMAIN calls' : calls'[m] = calls[j]
  /\ \A c \in came : \E m \in DOMAIN calls' : calls'[m] = c

LEMMA AnswerSucceeds ==
  ASSUME IsSequence(calls), NEW k \in DOMAIN calls, NEW c, NEW next, NEW came,
         \/ next = <<>> /\ came = {}
         \/ next = <<c>> /\ came = {c},
         Answer(k, next)
  PROVE  Succeeds({k}, came)
<1>. DEFINE n == Len(calls)
            old(m) == IF m < k THEN m ELSE m + 1
            new(j) == IF j < k THEN j ELSE j - 1
<1>1. n \in Nat /\ DOMAIN calls = 1 .. n /\ k \in 1 .. n
  BY DEF IsSequence
<1>2. /\ DOMAIN calls' = 1 .. n - 1 + Len(next)
      /\ \A m \in 1 .. n - 1 :
           /\ m < k => calls'[m] = calls[m]
           /\ m >= k => calls'[m] = calls[m + 1]
      /\ next # <<>> => calls'[n] = next[1]
  <2>1. next = <<>> \/ \E e : next = <<e>>
    OBVIOUS
  <2>. QED  BY <2>1, CallReplaced
<1>3. ASSUME NEW m \in 1 .. n - 1
      PROVE  old(m) \in DOMAIN calls \ {k} /\ calls'[m] = calls[old(m)]
  BY <1>1, <1>2
<1>4. \A m, p \in 1 .. n - 1 : m < p => old(m) < old(p)
  BY <1>1
<1>5. ASSUME NEW j \in DOMAIN calls \ {k}
      PROVE  new(j) \in 1 .. n - 1 /\ old(new(j)) = j
  BY <1>1
<1>. HIDE DEF old, new
<1>6. 1 .. n - 1 \subseteq DOMAIN calls'
  BY <1>1, <1>2
<1>7. ASSUME NEW m \in DOMAIN calls', m \notin 1 .. n - 1
      PROVE  m = n /\ calls'[m] \in came
  <2>1. CASE next = <<>>
    BY <1>1, <1>2, <1>7, <2>1
  <2>2. CASE next = <<c>> /\ came = {c}
    <3>1. Len(next) = 1 /\ next[1] = c /\ next # <<>>
      BY <2>2
    <3>. QED  BY <1>1, <1>2, <1>7, <2>2, <3>1
  <2>. QED  BY <2>1, <2>2
<1>8. ASSUME NEW d \in came  PROVE \E m \in DOMAIN calls' : calls'[m] = d
  <2>1. next = <<c>> /\ d = c
    BY <1>8
  <2>2. Len(next) = 1 /\ next[1] = c /\ next # <<>>
    BY <2>1
  <2>3. n \in DOMAIN calls' /\ calls'[n] = c
    BY <1>1, <1>2, <2>2
  <2>. QED  BY <2>1, <2>3
<1>9. \A m \in DOMAIN calls' :
        \/ \E j \in DOMAIN calls \ {k} : calls'[m] = calls[j]
        \/ calls'[m] \in came
  BY <1>3, <1>7
<1>10. ASSUME NEW m \in DOMAIN calls', NEW p \in DOMAIN calls', m < p
       PROVE  \E j \in DOMAIN calls \ {k} :
                /\ calls'[m] = calls[j]
                /\ \/ \E l \in DOMAIN calls \ {k} : j < l /\ calls'[p] = calls[l]
                   \/ calls'[p] \in came
  <2>1. m \in 1 .. n - 1
    BY <1>1, <1>2, <1>7, <1>10
  <2>2. CASE p \in 1 .. n - 1
    BY <1>3, <1>4, <1>10, <2>1, <2>2
  <2>3. CASE p \notin 1 .. n - 1
    BY <1>3, <1>7, <2>1, <2>3
  <2>. QED  BY <2>2, <2>3
<1>11. \A j \in DOMAIN calls \ {k} : \E m \in DOMAIN calls' : calls'[m] = calls[j]
  BY <1>3, <1>5, <1>6
<1>. QED  BY <1>8, <1>9, <1>10, <1>11 DEF Succeeds

LEMMA MakeSucceeds ==
  ASSUME IsSequence(calls), NEW c, Make(c)
  PROVE  Succeeds({}, {c})
<1>. DEFINE n == Len(calls)
            S == {calls[m] : m \in DOMAIN calls} \cup {c}
<1>1. n \in Nat /\ DOMAIN calls = 1 .. n /\ calls \in Seq(S)
  BY DEF IsSequence
<1>2. c \in S
  OBVIOUS
<1>. HIDE DEF S
<1>3. /\ DOMAIN calls' = 1 .. n + 1
      /\ \A m \in 1 .. n : calls'[m] = calls[m]
      /\ calls'[n + 1] = c
  BY <1>1, <1>2, AppendProperties DEF Make
<1>. QED  BY <1>1, <1>3 DEF Succeeds

LEMMA NothingSucceeds ==
  ASSUME IsSequence(calls), calls' = calls
  PROVE  Succeeds({}, {})
BY DEF Succeeds

\* A call is not answered before those ahead of it that use the same store.
LEMMA NoneBefore ==
  ASSUME IsSequence(calls), NEW k \in DOMAIN calls, Ready(k), NEW m \in DOMAIN calls, m < k,
         NEW s, s \in Scope(calls[k]), s \in Scope(calls[m])
  PROVE  FALSE
<1>1. m \in 1 .. k - 1 /\ k \in Nat /\ m \in Nat
  BY DEF IsSequence
<1>2. Scope(calls[m]) \cap Scope(calls[k]) # {}
  OBVIOUS
<1>3. Waits(calls[m]) /\ Waits(calls[k])
  BY DEF Waits
<1>. QED  BY <1>1, <1>2, <1>3 DEF Ready

\* Where an opening goes on, or another call comes, the order is kept.
LEMMA LastFrame ==
  ASSUME LastIsMounted, NEW gone, NEW came, Succeeds(gone, came),
         \A c \in came : c.at \notin Claiming,
         mounted' \in {mounted, 0}, \A k \in DOMAIN calls : calls[k].by # 0
  PROVE  LastIsMounted'
<1>1. SUFFICES ASSUME NEW m \in DOMAIN calls', NEW p \in DOMAIN calls', Ahead(m, p)'
               PROVE  mounted' # calls'[m].by
  BY DEF LastIsMounted
<1>2. calls'[m].at \in Claiming /\ calls'[p].at \in Claiming
  BY <1>1 DEF Ahead
<1>3. \E j, l \in DOMAIN calls :
        calls'[m] = calls[j] /\ calls'[p] = calls[l] /\ (m < p => j < l)
  <2>1. calls'[m] \notin came /\ calls'[p] \notin came
    BY <1>2
  <2>. QED  BY <2>1 DEF Succeeds
<1>4. PICK j \in DOMAIN calls, l \in DOMAIN calls :
        calls'[m] = calls[j] /\ calls'[p] = calls[l] /\ (m < p => j < l)
  BY <1>3
<1>5. Ahead(j, l)
  BY <1>1, <1>4 DEF Ahead
<1>. QED  BY <1>4, <1>5 DEF LastIsMounted

\* The next call of an opening that claims, made when it is its turn.
LEMMA LastMoves ==
  ASSUME CallsInOrder, LastIsMounted, NEW k \in DOMAIN calls, Ready(k), NEW c,
         Succeeds({k}, {c}), c.by = calls[k].by,
         \/ calls[k].at = "openDb" /\ c.at = "getKey"
         \/ calls[k].at = "getKey" /\ c.at = "setKey",
         mounted' = mounted
  PROVE  LastIsMounted'
<1>1. SUFFICES ASSUME NEW m \in DOMAIN calls', NEW p \in DOMAIN calls', Ahead(m, p)'
               PROVE  mounted # calls'[m].by
  BY DEF LastIsMounted
<1>2. /\ calls[k].at \in Claiming /\ c.at \in Claiming
      /\ Rank[c.at] = Rank[calls[k].at] + 1 /\ Rank[calls[k].at] \in {1, 2}
  BY DEF Claiming, Rank
<1>3. /\ calls'[m].at \in Claiming /\ calls'[p].at \in Claiming
      /\ \/ Rank[calls'[m].at] > Rank[calls'[p].at]
         \/ calls'[m].at = calls'[p].at /\ m < p
  BY <1>1 DEF Ahead
<1>4. \A s \in Claiming : Rank[s] \in {1, 2, 3}
  BY DEF Claiming, Rank
<1>5. \A s, t \in Claiming : Rank[s] = Rank[t] => s = t
  BY DEF Claiming, Rank
<1>6. \A j \in DOMAIN calls \ {k} : calls[j].at \in Claiming => calls[j] # c
  BY DEF CallsInOrder, Opening, Loading, Claiming
<1>7. CASE \E j \in DOMAIN calls \ {k} : calls'[m] = calls[j]
  <2>1. PICK j \in DOMAIN calls \ {k} : calls'[m] = calls[j]
    BY <1>7
  <2>2. CASE calls'[p] = c
    <3>1. Rank[calls[j].at] > Rank[calls[k].at]
      BY <1>2, <1>3, <1>4, <2>1, <2>2
    <3>2. Ahead(j, k)
      BY <1>2, <1>3, <2>1, <3>1 DEF Ahead
    <3>. QED  BY <2>1, <3>2 DEF LastIsMounted
  <2>3. CASE calls'[p] # c
    <3>1. \E i, l \in DOMAIN calls :
            calls'[m] = calls[i] /\ calls'[p] = calls[l] /\ (m < p => i < l)
      BY <1>7, <2>3 DEF Succeeds
    <3>2. PICK i \in DOMAIN calls, l \in DOMAIN calls :
            calls'[m] = calls[i] /\ calls'[p] = calls[l] /\ (m < p => i < l)
      BY <3>1
    <3>3. Ahead(i, l)
      BY <1>3, <3>2 DEF Ahead
    <3>. QED  BY <3>2, <3>3 DEF LastIsMounted
  <2>. QED  BY <2>2, <2>3
<1>8. CASE calls'[m] = c /\ ~\E j \in DOMAIN calls \ {k} : calls'[m] = calls[j]
  <2>1. Rank[c.at] > Rank[calls'[p].at]
    BY <1>3, <1>8 DEF Succeeds
  <2>2. calls'[p] # c
    BY <1>2, <2>1
  <2>3. PICK j \in DOMAIN calls \ {k} : calls'[p] = calls[j]
    BY <2>2 DEF Succeeds
  <2>4. Rank[calls[k].at] >= Rank[calls[j].at] /\ calls[j].at \in Claiming
    BY <1>2, <1>3, <1>4, <2>1, <2>3
  <2>5. Ahead(k, j)
    <3>1. CASE Rank[calls[k].at] > Rank[calls[j].at]
      BY <1>2, <2>4, <3>1 DEF Ahead
    <3>2. CASE Rank[calls[k].at] = Rank[calls[j].at]
      <4>1. calls[k].at = calls[j].at
        BY <1>2, <1>5, <2>4, <3>2
      <4>2. Scope(calls[k]) = Scope(calls[j]) /\ \E s : s \in Scope(calls[k])
        BY <4>1 DEF Scope
      <4>3. IsSequence(calls)
        BY DEF CallsInOrder
      <4>4. ~(j < k)
        BY <4>2, <4>3, NoneBefore
      <4>5. j \in Nat /\ k \in Nat /\ j # k
        BY <4>3 DEF IsSequence
      <4>. QED  BY <1>2, <2>4, <4>1, <4>4, <4>5 DEF Ahead
    <3>. QED  BY <1>2, <1>4, <2>4, <3>1, <3>2
  <2>. QED  BY <1>8, <2>5 DEF LastIsMounted
<1>. QED  BY <1>7, <1>8 DEF Succeeds

\* A claim under way stays ahead of the clocks about to be read.
LEMMA ClaimFirst ==
  ASSUME IInv, IsSequence(calls'), KeysOk, NEW gone, NEW came, Succeeds(gone, came),
         NEW m \in DOMAIN calls', calls'[m].at = "setKey", calls'[m] \notin came,
         NEW p \in DOMAIN calls', calls'[p].at = "getClock"
  PROVE  m < p
<1>1. ~(p < m)
  <2>1. SUFFICES ASSUME p < m  PROVE FALSE
    OBVIOUS
  <2>2. PICK j \in DOMAIN calls, n \in DOMAIN calls :
          calls'[p] = calls[j] /\ calls'[m] = calls[n] /\ j < n
    BY <2>1 DEF Succeeds
  <2>3. n < j
    BY <2>2 DEF KeysOk
  <2>4. n \in Int /\ j \in Int
    BY DEF IInv, CallsInOrder, IsSequence
  <2>. QED  BY <2>2, <2>3, <2>4
<1>2. m \in Int /\ p \in Int /\ m # p
  BY DEF IsSequence
<1>. QED  BY <1>1, <1>2

LEMMA KeysFrame ==
  ASSUME IInv, IsSequence(calls'), KeysOk, NEW gone, NEW came, Succeeds(gone, came),
         \A c \in came : c.at \notin {"setKey", "getClock"},
         \A k \in DOMAIN calls \cap gone : calls[k].at = "getClock" => NoClaim,
         db'.key = db.key,
         \A j \in Slot : inst'[j].key = inst[j].key,
         \A j \in Slot : Acting(j)' =>
           \/ Acting(j)
           \/ NoClaim /\ db.key # NoKey /\ (mounted = j => inst[j].key = db.key),
         mounted' \in {mounted, 0}, issued' = issued \/ NoClaim
  PROVE  KeysOk'
<1>1. \A k \in DOMAIN calls : calls[k].by \in Slot /\ calls[k].by # 0
  BY DEF IInv, Placed, Slot
<1>2. ASSUME NEW j \in Slot, Acting(j)'
      PROVE  db'.key # NoKey /\ (mounted' = j => inst'[j].key = db'.key)
  <2>1. j # 0
    BY DEF Slot
  <2>. QED  BY <1>2, <2>1 DEF KeysOk
<1>3. ASSUME NEW m \in DOMAIN calls', calls'[m].at \in {"setKey", "getClock"}
      PROVE  \E j \in DOMAIN calls \ gone : calls'[m] = calls[j]
  BY <1>3 DEF Succeeds
<1>4. ASSUME NEW m \in DOMAIN calls', calls'[m].at = "getClock"
      PROVE  /\ db'.key # NoKey
             /\ mounted' = calls'[m].by => inst'[calls'[m].by].key = db'.key
  <2>1. PICK j \in DOMAIN calls : calls'[m] = calls[j]
    BY <1>3, <1>4
  <2>. QED  BY <1>1, <1>4, <2>1 DEF KeysOk
<1>5. ASSUME NEW m \in DOMAIN calls', calls'[m].at = "setKey"
      PROVE  /\ issued' = {}
             /\ \A i \in Slot : ~Acting(i)'
             /\ db'.key # NoKey => \E p \in DOMAIN calls' : calls'[p].at = "getClock"
             /\ \A p \in DOMAIN calls' :
                  calls'[p].at = "getClock" => m < p /\ mounted' # calls'[p].by
  <2>1. PICK k \in DOMAIN calls \ gone : calls'[m] = calls[k]
    BY <1>3, <1>5
  <2>2. ~NoClaim /\ calls[k].at = "setKey"
    BY <1>5, <2>1 DEF NoClaim
  <2>3. issued' = {} /\ \A i \in Slot : ~Acting(i)'
    BY <2>2 DEF KeysOk
  <2>4. db'.key # NoKey => \E p \in DOMAIN calls' : calls'[p].at = "getClock"
    <3>1. SUFFICES ASSUME db.key # NoKey
                   PROVE  \E p \in DOMAIN calls' : calls'[p].at = "getClock"
      OBVIOUS
    <3>2. PICK l \in DOMAIN calls : calls[l].at = "getClock"
      BY <2>2, <3>1 DEF KeysOk
    <3>3. l \in DOMAIN calls \ gone
      BY <2>2, <3>2
    <3>. QED  BY <3>2, <3>3 DEF Succeeds
  <2>5. ASSUME NEW p \in DOMAIN calls', calls'[p].at = "getClock"
        PROVE  m < p /\ mounted' # calls'[p].by
    <3>1. PICK l \in DOMAIN calls : calls'[p] = calls[l]
      BY <1>3, <2>5
    <3>2. mounted # calls[l].by
      BY <2>2, <2>5, <3>1 DEF KeysOk
    <3>3. m < p
      <4>1. calls'[m] \notin came
        BY <1>5
      <4>. QED  BY <1>5, <2>5, <4>1, ClaimFirst
    <3>. QED  BY <1>1, <3>1, <3>2, <3>3
  <2>. QED  BY <2>3, <2>4, <2>5
<1>. QED  BY <1>2, <1>4, <1>5 DEF KeysOk

LEMMA WritesFrame ==
  ASSUME WritesOk, NEW gone, NEW came, Succeeds(gone, came),
         \A c \in came : c.at \in Work /\ c.does = "write" =>
                          \A o \in c.ops : Author(o) = db.key,
         db'.key = db.key,
         \A o \in issued' : Author(o) = db.key,
         \A j \in Slot : \A n \in DOMAIN jobs'[j] :
           jobs'[j][n].does = "write" => inst'[j].key = db.key
  PROVE  WritesOk'
<1>1. ASSUME NEW m \in DOMAIN calls', calls'[m].at \in Work, calls'[m].does = "write",
             NEW o \in calls'[m].ops
      PROVE  Author(o) = db'.key
  <2>1. CASE calls'[m] \in came
    BY <1>1, <2>1
  <2>2. ASSUME NEW j \in DOMAIN calls, calls'[m] = calls[j]
        PROVE  Author(o) = db'.key
    BY <1>1, <2>2 DEF WritesOk
  <2>. QED  BY <2>1, <2>2 DEF Succeeds
<1>. QED  BY <1>1 DEF WritesOk

\* Of a job that ends the others stay.
LEMMA OtherJobsStay ==
  ASSUME IInv, WritesOk, NEW i \in Slot, jobs[i] # <<>>, EndJob(i) \/ jobs' = jobs
  PROVE  \A j \in Slot : \A n \in DOMAIN jobs'[j] :
           jobs'[j][n].does = "write" => inst[j].key = db.key
<1>1. CASE jobs' = jobs
  BY <1>1 DEF WritesOk
<1>2. CASE EndJob(i)
  <2>1. jobs \in [Slot -> Seq(Job)] /\ jobs[i] \in Seq(Job)
    BY DEF IInv, TypeInv
  <2>2. jobs'[i] = Tail(jobs[i]) /\ \A j \in Slot \ {i} : jobs'[j] = jobs[j]
    BY <1>2, <2>1 DEF EndJob
  <2>3. ASSUME NEW n \in DOMAIN jobs'[i]
        PROVE  n + 1 \in DOMAIN jobs[i] /\ jobs'[i][n] = jobs[i][n + 1]
    BY <2>1, <2>2
  <2>4. ASSUME NEW n \in DOMAIN jobs'[i], jobs'[i][n].does = "write"
        PROVE  inst[i].key = db.key
    BY <2>3, <2>4 DEF WritesOk
  <2>. QED  BY <2>2, <2>4 DEF WritesOk
<1>. QED  BY <1>1, <1>2

KeyInv == LastIsMounted /\ KeysOk /\ WritesOk

\* A step that neither finds nor claims a key.
LEMMA KeyFrame ==
  ASSUME IInv, KeyInv, IsSequence(calls'), NEW gone, NEW came, Succeeds(gone, came),
         \A c \in came : /\ c.at \notin Claiming \cup {"getClock"}
                         /\ c.at \in Work /\ c.does = "write" =>
                              \A o \in c.ops : Author(o) = db.key,
         \A k \in DOMAIN calls \cap gone : calls[k].at = "getClock" => NoClaim,
         db'.key = db.key,
         \A j \in Slot : inst'[j].key = inst[j].key,
         \A j \in Slot : Acting(j)' =>
           \/ Acting(j)
           \/ NoClaim /\ db.key # NoKey /\ (mounted = j => inst[j].key = db.key),
         mounted' \in {mounted, 0}, issued' = issued \/ NoClaim,
         \A o \in issued' : Author(o) = db.key,
         \A j \in Slot : \A n \in DOMAIN jobs'[j] :
           jobs'[j][n].does = "write" => inst[j].key = db.key
  PROVE  KeyInv'
<1>1. \A k \in DOMAIN calls : calls[k].by # 0
  BY DEF IInv, Placed, Slot
<1>2. \A c \in came : c.at \notin Claiming
  OBVIOUS
<1>3. LastIsMounted'
  BY <1>1, <1>2, LastFrame DEF KeyInv
<1>4. \A c \in came : c.at \notin {"setKey", "getClock"}
  BY DEF Claiming
<1>5. KeysOk'
  <2>1. KeysOk
    BY DEF KeyInv
  <2>. QED  BY <1>4, <2>1, KeysFrame
<1>6. \A c \in came : c.at \in Work /\ c.does = "write" => \A o \in c.ops : Author(o) = db.key
  OBVIOUS
<1>7. WritesOk'
  <2>1. WritesOk
    BY DEF KeyInv
  <2>2. \A j \in Slot : \A n \in DOMAIN jobs'[j] :
          jobs'[j][n].does = "write" => inst'[j].key = db.key
    OBVIOUS
  <2>. QED  BY <1>6, <2>1, <2>2, WritesFrame
<1>. QED  BY <1>3, <1>5, <1>7 DEF KeyInv

\* A clock is not read before the keys being claimed are stored.
LEMMA ClaimsBeforeClocks ==
  ASSUME IInv, KeyInv, NEW k \in DOMAIN calls, Ready(k), calls[k].at = "getClock"
  PROVE  NoClaim
<1>1. SUFFICES ASSUME NEW m \in DOMAIN calls, calls[m].at = "setKey"  PROVE FALSE
  BY DEF NoClaim
<1>2. m < k
  BY <1>1 DEF KeyInv, KeysOk
<1>3. "meta" \in Scope(calls[k]) /\ "meta" \in Scope(calls[m])
  BY <1>1 DEF Scope
<1>4. IsSequence(calls)
  BY DEF IInv, CallsInOrder
<1>. QED  BY <1>2, <1>3, <1>4, NoneBefore

\* A call is answered that claims no key, and none is claimed next.
LEMMA KeyAnswer ==
  ASSUME IInv, IInv', KeyInv, NEW k \in DOMAIN calls, Ready(k), NEW c, NEW next,
         \/ next = <<>>
         \/ next = <<c>> /\ c.at \notin Claiming \cup {"getClock"}
              /\ (c.at \in Work /\ c.does = "write" => \A o \in c.ops : Author(o) = db.key),
         Answer(k, next),
         db'.key = db.key,
         \A j \in Slot : inst'[j].key = inst[j].key,
         \A j \in Slot : Acting(j)' =>
           \/ Acting(j)
           \/ NoClaim /\ db.key # NoKey /\ (mounted = j => inst[j].key = db.key),
         mounted' = mounted, issued' = issued \/ NoClaim,
         \A o \in issued' : Author(o) = db.key,
         \A j \in Slot : \A n \in DOMAIN jobs'[j] :
           jobs'[j][n].does = "write" => inst[j].key = db.key
  PROVE  KeyInv'
<1>1. IsSequence(calls) /\ IsSequence(calls')
  BY DEF IInv, CallsInOrder
<1>2. PICK came : came = IF next = <<>> THEN {} ELSE {c}
  OBVIOUS
<1>3. next = <<c>> => next # <<>>
  OBVIOUS
<1>4. (next = <<>> /\ came = {}) \/ (next = <<c>> /\ came = {c})
  BY <1>2, <1>3
<1>5. Succeeds({k}, came)
  BY <1>1, <1>4, AnswerSucceeds
<1>6. \A d \in came : /\ d.at \notin Claiming \cup {"getClock"}
                      /\ d.at \in Work /\ d.does = "write" =>
                           \A o \in d.ops : Author(o) = db.key
  BY <1>3, <1>4
<1>7. \A m \in DOMAIN calls \cap {k} : calls[m].at = "getClock" => NoClaim
  BY ClaimsBeforeClocks
<1>. QED  BY <1>1, <1>5, <1>6, <1>7, KeyFrame

\* A call is made that claims no key.
LEMMA KeyMake ==
  ASSUME IInv, IInv', KeyInv, NEW c, Make(c), c.at \notin Claiming \cup {"getClock"},
         c.at \in Work /\ c.does = "write" => \A o \in c.ops : Author(o) = db.key,
         db'.key = db.key,
         \A j \in Slot : inst'[j].key = inst[j].key,
         \A j \in Slot : Acting(j)' => Acting(j),
         mounted' = mounted, issued' = issued, jobs' = jobs
  PROVE  KeyInv'
<1>1. IsSequence(calls) /\ IsSequence(calls')
  BY DEF IInv, CallsInOrder
<1>2. Succeeds({}, {c})
  BY <1>1, MakeSucceeds
<1>3. \A d \in {c} : /\ d.at \notin Claiming \cup {"getClock"}
                     /\ d.at \in Work /\ d.does = "write" =>
                          \A o \in d.ops : Author(o) = db.key
  OBVIOUS
<1>4. /\ \A o \in issued' : Author(o) = db.key
      /\ \A j \in Slot : \A n \in DOMAIN jobs'[j] :
           jobs'[j][n].does = "write" => inst[j].key = db.key
  BY DEF KeyInv, WritesOk
<1>5. \A k \in DOMAIN calls \cap {} : calls[k].at = "getClock" => NoClaim
  OBVIOUS
<1>. QED  BY <1>1, <1>2, <1>3, <1>4, <1>5, KeyFrame

\* No call is made or answered.
LEMMA KeyStays ==
  ASSUME IInv, KeyInv, calls' = calls,
         db'.key = db.key,
         \A j \in Slot : inst'[j].key = inst[j].key,
         \A j \in Slot : Acting(j)' => Acting(j),
         mounted' \in {mounted, 0}, issued' = issued,
         \A j \in Slot : \A n \in DOMAIN jobs'[j] :
           jobs'[j][n].does = "write" => inst[j].key = db.key
  PROVE  KeyInv'
<1>1. IsSequence(calls) /\ IsSequence(calls')
  BY DEF IInv, CallsInOrder
<1>2. Succeeds({}, {})
  BY <1>1, NothingSucceeds
<1>3. \A o \in issued' : Author(o) = db.key
  BY DEF KeyInv, WritesOk
<1>4. \A k \in DOMAIN calls \cap {} : calls[k].at = "getClock" => NoClaim
  OBVIOUS
<1>5. \A d \in {} : /\ d.at \notin Claiming \cup {"getClock"}
                    /\ d.at \in Work /\ d.does = "write" =>
                          \A o \in d.ops : Author(o) = db.key
  OBVIOUS
<1>. QED  BY <1>1, <1>2, <1>3, <1>4, <1>5, KeyFrame

LEMMA KeyAnswered ==
  ASSUME IInv, IInv', KeyInv, NEW k \in DOMAIN calls, Ready(k),
         \/ GetPeersDone(k) \/ SetPeersDone(k) \/ ListDone(k) \/ RowDone(k)
  PROVE  KeyInv'
<1>1. PICK c : /\ c.at \in {"setPeers", "row"}
               /\ Answer(k, <<>>) \/ Answer(k, <<c>>)
  <2>1. CASE GetPeersDone(k)
    <3>. DEFINE c == [by |-> calls[k].by, at |-> "setPeers", peer |-> calls[k].peer,
                      have |-> calls[k].have,
                      peers |-> Spread(db.peers, calls[k].peer, calls[k].have)]
    <3>1. c.at = "setPeers" /\ Answer(k, Then(calls[k].by, c))
      BY <2>1 DEF GetPeersDone
    <3>. QED  BY <3>1 DEF Then
  <2>2. CASE SetPeersDone(k)
    <3>. DEFINE c == [at |-> "row"]
    <3>1. c.at = "row" /\ Answer(k, <<>>)
      BY <2>2 DEF SetPeersDone
    <3>. HIDE DEF c
    <3>. QED  BY <3>1
  <2>3. CASE ListDone(k)
    <3>. DEFINE c == [by |-> calls[k].by, at |-> "row", todo |-> ListRows(db), got |-> {}]
    <3>1. /\ c.at = "row"
          /\ Answer(k, IF ListRows(db) = {} THEN <<>> ELSE Then(calls[k].by, c))
      BY <2>3 DEF ListDone
    <3>. QED  BY <3>1 DEF Then
  <2>4. CASE RowDone(k)
    <3>. DEFINE row == CHOOSE r \in calls[k].todo : \A q \in calls[k].todo : r <= q
                todo == calls[k].todo \ {row}
                c == [by |-> calls[k].by, at |-> "row", todo |-> todo,
                      got |-> calls[k].got \cup View(GetRow(db, row))]
    <3>1. c.at = "row" /\ Answer(k, IF todo = {} THEN <<>> ELSE Then(calls[k].by, c))
      BY <2>4 DEF RowDone
    <3>. QED  BY <3>1 DEF Then
  <2>. QED  BY <2>1, <2>2, <2>3, <2>4
<1>2. PICK next : (next = <<>> \/ next = <<c>>) /\ Answer(k, next)
  BY <1>1
<1>3. c.at \notin Claiming \cup {"getClock"} /\ c.at \notin Work
  BY <1>1 DEF Claiming, Work
<1>4. db'.key = db.key /\ inst' = inst /\ jobs' = jobs /\ mounted' = mounted /\ issued' = issued
  <2>1. CASE SetPeersDone(k)
    BY <2>1, MetaPut DEF SetPeersDone, ui
  <2>2. CASE GetPeersDone(k)
    BY <2>2 DEF GetPeersDone, history, ui
  <2>3. CASE ListDone(k) \/ RowDone(k)
    <3>1. UNCHANGED <<db, inst, jobs, mounted, history>>
      BY <2>3 DEF ListDone, RowDone
    <3>. QED  BY <3>1 DEF history
  <2>. QED  BY <2>1, <2>2, <2>3
<1>5. /\ \A j \in Slot : inst'[j].key = inst[j].key
      /\ \A j \in Slot : Acting(j)' => Acting(j)
  BY <1>4 DEF Acting
<1>6. /\ \A o \in issued' : Author(o) = db.key
      /\ \A j \in Slot : \A n \in DOMAIN jobs'[j] :
           jobs'[j][n].does = "write" => inst[j].key = db.key
  BY <1>4 DEF KeyInv, WritesOk
<1>. QED  BY <1>2, <1>3, <1>4, <1>5, <1>6, KeyAnswer

LEMMA KeyOpenFails ==
  ASSUME IInv, IInv', KeyInv, NEW k \in DOMAIN calls, Ready(k), OpenFails(k)
  PROVE  KeyInv'
<1>1. calls[k].by \in Slot /\ inst \in [Slot -> Opened]
  BY DEF IInv, TypeInv, Placed
<1>2. inst' = [inst EXCEPT ![calls[k].by].at = "failed"]
  BY DEF OpenFails
<1>3. \A j \in Slot : /\ inst'[j].key = inst[j].key
                      /\ Acting(j)' => Acting(j)
  BY <1>1, <1>2 DEF Acting, Opened
<1>4. db'.key = db.key /\ jobs' = jobs /\ mounted' = mounted /\ issued' = issued
  BY DEF OpenFails, history, ui
<1>5. PICK next : next = <<>> /\ Answer(k, next)
  BY DEF OpenFails
<1>6. /\ \A o \in issued' : Author(o) = db.key
      /\ \A j \in Slot : \A n \in DOMAIN jobs'[j] :
           jobs'[j][n].does = "write" => inst[j].key = db.key
  BY <1>4 DEF KeyInv, WritesOk
<1>. QED  BY <1>3, <1>4, <1>5, <1>6, KeyAnswer

\* A job reads, writes, or fails to.
LEMMA KeyWork ==
  ASSUME IInv, IInv', KeyInv, NEW k \in DOMAIN calls, Ready(k),
         ReadDone(k) \/ WriteDone(k) \/ WriteFails(k)
  PROVE  KeyInv'
<1>1. PICK i : i = calls[k].by
  OBVIOUS
<1>2. calls[k].at \in Work
  BY DEF ReadDone, WriteDone, WriteFails, Work
<1>3. i \in Slot /\ jobs[i] # <<>> /\ Acting(i)
  BY <1>1, <1>2, JobState
<1>4. NoClaim
  BY <1>3 DEF KeyInv, KeysOk, NoClaim
<1>5. calls[k].does = "write" => \A o \in calls[k].ops : Author(o) = db.key
  BY <1>2 DEF KeyInv, WritesOk
<1>6. /\ inst' = inst /\ mounted' = mounted
      /\ issued' = issued \/ (calls[k].does = "write" /\ issued' = issued \cup calls[k].ops)
      /\ EndJob(i) \/ jobs' = jobs
  BY <1>1 DEF ReadDone, WriteDone, WriteFails, ui, history
<1>7. PICK write : write =
        [by |-> i, at |-> "write",
         txs |-> Transactions(IF Compacts(calls[k].does) THEN CompactPuts(Plan(calls[k].does))
                              ELSE BatchPuts(BatchOf(i, calls[k].ops \ db.ops))),
         does |-> calls[k].does, ops |-> calls[k].ops \ db.ops]
  OBVIOUS
<1>8. /\ write.at = "write" /\ write.does = calls[k].does
      /\ write.ops \subseteq calls[k].ops
  BY <1>7
<1>9. calls[k].at = "write" => Tail(calls[k].txs) = <<>>
  <2>1. SUFFICES ASSUME calls[k].at = "write"  PROVE Tail(calls[k].txs) = <<>>
    OBVIOUS
  <2>2. WorkOk(calls[k])
    BY DEF IInv
  <2>3. \E puts : calls[k].txs = <<puts>>
    BY <2>1, <2>2 DEF WorkOk
  <2>. QED  BY <2>3
<1>10. db'.key = db.key
  <2>1. CASE ReadDone(k) \/ WriteFails(k)
    BY <2>1 DEF ReadDone, WriteFails
  <2>2. CASE WriteDone(k)
    <3>1. WorkOk(calls[k]) /\ calls[k].at = "write"
      BY <2>2 DEF IInv, WriteDone
    <3>2. PICK puts : /\ calls[k].txs = <<puts>>
                      /\ \/ \E plan : puts = CompactPuts(plan)
                         \/ \E b : puts = BatchPuts(b)
      BY <3>1 DEF WorkOk
    <3>3. Head(calls[k].txs) = puts
      BY <3>2
    <3>4. Perform(db, puts).key = db.key
      BY <3>2, CompactionPut, BatchPut
    <3>. QED  BY <2>2, <3>3, <3>4 DEF WriteDone
  <2>. QED  BY <2>1, <2>2
<1>11. PICK r : r = Refresh(i)
  OBVIOUS
<1>12. r.at \in {"list", "row"}
  BY <1>11 DEF Refresh
<1>13. PICK c : /\ c.at \notin Claiming \cup {"getClock"}
                /\ c.at \in Work /\ c.does = "write" => \A o \in c.ops : Author(o) = db.key
                /\ Answer(k, <<>>) \/ Answer(k, <<c>>)
  <2>1. CASE ReadDone(k)
    <3>1. Answer(k, <<>>) \/ Answer(k, <<write>>)
      BY <1>1, <1>7, <2>1 DEF ReadDone
    <3>. QED  BY <1>5, <1>8, <3>1 DEF Claiming
  <2>2. CASE WriteDone(k)
    <3>1. Answer(k, <<>>) \/ Answer(k, <<r>>)
      BY <1>1, <1>9, <1>11, <2>2 DEF WriteDone, Then
    <3>. QED  BY <1>12, <3>1 DEF Claiming, Work
  <2>3. CASE WriteFails(k)
    BY <1>12, <2>3 DEF WriteFails, Claiming, Work
  <2>. QED  BY <2>1, <2>2, <2>3
<1>14. PICK next : (next = <<>> \/ next = <<c>>) /\ Answer(k, next)
  BY <1>13
<1>15. \A j \in Slot : inst'[j].key = inst[j].key /\ (Acting(j)' => Acting(j))
  BY <1>6 DEF Acting
<1>16. \A o \in issued' : Author(o) = db.key
  BY <1>5, <1>6 DEF KeyInv, WritesOk
<1>17. \A j \in Slot : \A n \in DOMAIN jobs'[j] :
         jobs'[j][n].does = "write" => inst[j].key = db.key
  BY <1>3, <1>6, OtherJobsStay DEF KeyInv
<1>. QED  BY <1>4, <1>6, <1>10, <1>13, <1>14, <1>15, <1>16, <1>17, KeyAnswer

\* A job gets the mutex: what a write stamps, it stamps with the stored key.
LEMMA KeyBegin ==
  ASSUME IInv, IInv', KeyInv, NEW i \in Slot, Begin(i)
  PROVE  KeyInv'
<1>1. PICK job : job = Head(jobs[i])
  OBVIOUS
<1>2. PICK clock : clock = Moved(inst[i].clock, job)
  OBVIOUS
<1>3. PICK ops : ops = Brought(clock, inst[i].key, job)
  OBVIOUS
<1>4. PICK read : read = [by |-> i, at |-> "read", does |-> job.does, ops |-> ops]
  OBVIOUS
<1>5. /\ jobs[i] # <<>>
      /\ inst' = [inst EXCEPT ![i].clock = clock]
      /\ calls' = calls \o Then(i, read)
      /\ IF inst[i].closed THEN EndJob(i) ELSE UNCHANGED jobs
      /\ db' = db /\ mounted' = mounted /\ issued' = issued
  BY <1>1, <1>2, <1>3, <1>4 DEF Begin, Moved, Brought, ui, history
<1>6. inst \in [Slot -> Opened] /\ jobs[i] \in Seq(Job)
  BY DEF IInv, TypeInv
<1>7. \A j \in Slot : inst'[j].key = inst[j].key /\ (Acting(j)' => Acting(j))
  BY <1>5, <1>6 DEF Acting, Opened
<1>8. \A j \in Slot : \A n \in DOMAIN jobs'[j] :
        jobs'[j][n].does = "write" => inst[j].key = db.key
  BY <1>5, OtherJobsStay DEF KeyInv
<1>9. calls \in Seq({calls[k] : k \in DOMAIN calls})
  BY DEF IInv, CallsInOrder, IsSequence
<1>10. CASE inst[i].closed
  <2>1. calls' = calls
    BY <1>5, <1>9, <1>10 DEF Then
  <2>. QED  BY <1>5, <1>7, <1>8, <2>1, KeyStays
<1>11. CASE ~inst[i].closed
  <2>1. calls' = calls \o <<read>>
    BY <1>5, <1>11 DEF Then
  <2>2. Make(read) /\ jobs' = jobs
    BY <1>5, <1>9, <1>11, <2>1 DEF Make
  <2>3. read.at = "read" /\ read.does = job.does /\ read.ops = ops
    BY <1>4
  <2>4. job.does = "write" => \A o \in ops : Author(o) = db.key
    <3>1. SUFFICES ASSUME job.does = "write", NEW o \in ops  PROVE Author(o) = db.key
      OBVIOUS
    <3>2. 1 \in DOMAIN jobs[i] /\ jobs[i][1] = job
      BY <1>1, <1>5, <1>6
    <3>3. inst[i].key = db.key
      BY <3>1, <3>2 DEF KeyInv, WritesOk
    <3>4. Author(o) = inst[i].key
      BY <1>3, <3>1 DEF Brought, OpOf, StampOf, Author
    <3>. QED  BY <3>3, <3>4
  <2>5. read.at \notin Claiming \cup {"getClock"}
    BY <2>3 DEF Claiming
  <2>. QED  BY <1>5, <1>7, <2>2, <2>3, <2>4, <2>5, KeyMake
<1>. QED  BY <1>10, <1>11

LEMMA KeyMade ==
  ASSUME IInv, IInv', KeyInv,
         RunEffect \/ \E i \in Slot, r \in Recordings : Record(i, r)
  PROVE  KeyInv'
<1>1. PICK c : c.at \in {"list", "row", "getPeers"} /\ Make(c)
  <2>1. CASE RunEffect
    <3>. DEFINE c == Refresh(shown)
    <3>1. c.at \in {"list", "row"} /\ Make(c)
      BY <2>1 DEF RunEffect, Refresh
    <3>. HIDE DEF c
    <3>. QED  BY <3>1
  <2>2. ASSUME NEW i \in Slot, NEW r \in Recordings, Record(i, r)
        PROVE  \E c : c.at \in {"list", "row", "getPeers"} /\ Make(c)
    <3>. DEFINE c == [by |-> i, at |-> "getPeers", peer |-> r.peer, have |-> r.have]
    <3>1. c.at = "getPeers" /\ Make(c)
      BY <2>2 DEF Record
    <3>. HIDE DEF c
    <3>. QED  BY <3>1
  <2>. QED  BY <2>1, <2>2
<1>2. c.at \notin Claiming \cup {"getClock"} /\ c.at \notin Work
  BY <1>1 DEF Claiming, Work
<1>3. db' = db /\ inst' = inst /\ jobs' = jobs /\ mounted' = mounted /\ issued' = issued
  BY DEF RunEffect, Record, ui, history
<1>. QED  BY <1>1, <1>2, <1>3, KeyMake DEF Acting

LEMMA KeyUnmount ==
  ASSUME IInv, KeyInv, Unmount
  PROVE  KeyInv'
<1>1. inst \in [Slot -> Opened] /\ mounted \in Slot
  BY SpacesAssumption DEF IInv, TypeInv, UiOk, Slot, Unmount
<1>2. /\ calls' = calls /\ db' = db /\ jobs' = jobs /\ issued' = issued /\ mounted' = 0
      /\ inst' = [inst EXCEPT ![mounted] =
                    [@ EXCEPT !.cancelled = TRUE, !.closed = (shown = mounted)]]
  BY DEF Unmount, store, history
<1>3. \A j \in Slot : inst'[j].key = inst[j].key /\ (Acting(j)' => Acting(j))
  BY <1>1, <1>2 DEF Acting, Opened
<1>4. \A j \in Slot : \A n \in DOMAIN jobs'[j] :
        jobs'[j][n].does = "write" => inst[j].key = db.key
  BY <1>2 DEF KeyInv, WritesOk
<1>. QED  BY <1>2, <1>3, <1>4, KeyStays

\* Only the space shown is given writes.
LEMMA KeyQueue ==
  ASSUME IInv, KeyInv,
         \/ \E w \in Writes : Mutate(w)
         \/ \E does \in {"compact", "collect"} : Compact(does)
         \/ \E i \in Slot, ops \in RemoteOps : Hear(i, ops)
  PROVE  KeyInv'
<1>0. PICK i \in Slot : \E job : Engage(i, job) /\ (job.does = "write" => shown = i)
  <2>1. shown # 0 => shown \in Slot
    BY SpacesAssumption DEF IInv, UiOk, Slot
  <2>2. ASSUME NEW w \in Writes, Mutate(w)
        PROVE  shown \in Slot /\ Engage(shown, [does |-> "write", write |-> w])
    BY <2>1, <2>2 DEF Mutate
  <2>3. ASSUME NEW i \in Slot, NEW job, Engage(i, job), job.does # "write"
        PROVE  \E d : Engage(i, d) /\ (d.does = "write" => shown = i)
    BY <2>3
  <2>4. ASSUME NEW does \in {"compact", "collect"}, Compact(does)
        PROVE  \E i \in Slot : \E job : Engage(i, job) /\ (job.does = "write" => shown = i)
    <3>. DEFINE job == [does |-> does]
    <3>1. shown \in Slot /\ Engage(shown, job) /\ job.does # "write"
      BY <2>1, <2>4 DEF Compact
    <3>. HIDE DEF job
    <3>. QED  BY <2>3, <3>1
  <2>5. ASSUME NEW j \in Slot, NEW ops \in RemoteOps, Hear(j, ops)
        PROVE  \E i \in Slot : \E job : Engage(i, job) /\ (job.does = "write" => shown = i)
    <3>. DEFINE job == [does |-> "receive", ops |-> ops]
    <3>1. Engage(j, job) /\ job.does # "write"
      BY <2>5 DEF Hear
    <3>. HIDE DEF job
    <3>. QED  BY <2>3, <3>1
  <2>. QED  BY <2>2, <2>4, <2>5
<1>1. PICK job : Engage(i, job) /\ (job.does = "write" => shown = i)
  BY <1>0
<1>2. /\ calls' = calls /\ db' = db /\ inst' = inst /\ mounted' = mounted /\ issued' = issued
      /\ jobs' = [jobs EXCEPT ![i] = Append(@, job)]
  BY <1>1 DEF store, ui, Engage
<1>3. job.does = "write" => inst[i].key = db.key
  <2>1. shown = i => mounted = i /\ inst[i].at = "open"
    BY DEF IInv, UiOk, Slot
  <2>. QED  BY <1>1, <2>1 DEF KeyInv, KeysOk, Acting
<1>4. jobs \in [Slot -> Seq(Job)]
  BY DEF IInv, TypeInv
<1>5. ASSUME NEW n \in DOMAIN jobs'[i], jobs'[i][n].does = "write"
      PROVE  inst[i].key = db.key
  <2>1. jobs'[i] = Append(jobs[i], job) /\ jobs[i] \in Seq(Job)
    BY <1>2, <1>4
  <2>2. \/ n \in DOMAIN jobs[i] /\ jobs'[i][n] = jobs[i][n]
        \/ jobs'[i][n] = job
    BY <2>1
  <2>. QED  BY <1>3, <1>5, <2>2 DEF KeyInv, WritesOk
<1>6. ASSUME NEW j \in Slot, NEW n \in DOMAIN jobs'[j], jobs'[j][n].does = "write"
      PROVE  inst[j].key = db.key
  <2>1. CASE j # i
    <3>1. jobs'[j] = jobs[j]
      BY <1>2, <1>4, <2>1
    <3>. QED  BY <1>6, <3>1 DEF KeyInv, WritesOk
  <2>. QED  BY <1>5, <1>6, <2>1
<1>. QED  BY <1>2, <1>6, KeyStays DEF Acting

LEMMA KeyStutter ==
  ASSUME IInv, KeyInv, UNCHANGED spaceVars
  PROVE  KeyInv'
<1>1. /\ calls' = calls /\ db' = db /\ inst' = inst /\ mounted' = mounted /\ issued' = issued
      /\ jobs' = jobs
  BY DEF spaceVars, store, ui, history
<1>2. \A j \in Slot : \A n \in DOMAIN jobs'[j] :
        jobs'[j][n].does = "write" => inst[j].key = db.key
  BY <1>1 DEF KeyInv, WritesOk
<1>. QED  BY <1>1, <1>2, KeyStays DEF Acting

NothingClaimed == Blank /\ \A o \in issued : Author(o) = db.key

LEMMA KeyBlank == NothingClaimed => KeyInv
BY SpacesAssumption
   DEF NothingClaimed, Blank, KeyInv, LastIsMounted, KeysOk, WritesOk, Ahead, Acting, Unused

LEMMA KeyCrash ==
  ASSUME KeyInv, Crash
  PROVE  KeyInv'
<1>1. NothingClaimed'
  BY DEF Crash, Blank, NothingClaimed, history, KeyInv, WritesOk
<1>. QED  BY <1>1, KeyBlank, PTL

LEMMA KeyInit == SpacesInit => KeyInv
<1>1. SpacesInit => NothingClaimed
  BY DEF SpacesInit, NothingClaimed, Blank
<1>. QED  BY <1>1, KeyBlank

\* The space has its clock, or has had it.
LEMMA KeyOpened ==
  ASSUME IInv, IInv', KeyInv, NEW k \in DOMAIN calls, Ready(k),
         CallFactory(k) \/ MakeTransport(k) \/ Finish(k)
  PROVE  KeyInv'
<1>1. PICK i : i = calls[k].by
  OBVIOUS
<1>2. calls[k].at \in {"getClock", "make", "hello"} /\ calls[k].at \in Opening
  BY DEF CallFactory, MakeTransport, Finish, Opening, Loading
<1>3. i \in Slot /\ (Acting(i) <=> calls[k].at # "getClock")
  BY <1>1, <1>2, OpeningState
<1>4. inst \in [Slot -> Opened]
  BY DEF IInv, TypeInv
<1>5. MadeBefore(k) \in Opened /\ MadeBefore(k).key = inst[i].key
  BY <1>1, <1>3, <1>4 DEF MadeBefore, Opened, IInv, DataOk
<1>6. /\ inst'[i].key = inst[i].key
      /\ \A j \in Slot \ {i} : inst'[j] = inst[j]
  <2>1. CASE CallFactory(k)
    <3>1. inst' = [inst EXCEPT ![i] = [MadeBefore(k) EXCEPT !.started = @ + 1]]
      BY <1>1, <2>1 DEF CallFactory
    <3>. QED  BY <1>3, <1>4, <1>5, <3>1 DEF Opened
  <2>2. CASE MakeTransport(k)
    BY <1>1, <1>3, <1>4, <2>2 DEF MakeTransport, Opened
  <2>3. CASE Finish(k)
    <3>1. inst' = [inst EXCEPT ![i] =
             [MadeBefore(k) EXCEPT !.at = "open", !.closed = inst[i].cancelled]]
      BY <1>1, <2>3 DEF Finish
    <3>. QED  BY <1>3, <1>4, <1>5, <3>1 DEF Opened
  <2>. QED  BY <2>1, <2>2, <2>3
<1>7. ASSUME NEW j \in Slot, Acting(j)'
      PROVE  \/ Acting(j)
             \/ NoClaim /\ db.key # NoKey /\ (mounted = j => inst[j].key = db.key)
  <2>1. CASE j = i /\ calls[k].at = "getClock"
    BY <1>1, <2>1, ClaimsBeforeClocks DEF KeyInv, KeysOk
  <2>2. CASE j = i /\ calls[k].at # "getClock"
    BY <1>3, <2>2
  <2>3. CASE j # i
    BY <1>6, <1>7, <2>3 DEF Acting
  <2>. QED  BY <1>2, <2>1, <2>2, <2>3
<1>8. PICK c : c = Call(i, IF calls[k].at = "make" THEN "hello" ELSE "make")
  OBVIOUS
<1>9. PICK next : (next = <<>> \/ next = <<c>>) /\ Answer(k, next)
  BY <1>1, <1>8 DEF CallFactory, MakeTransport, Finish
<1>10. c.at \notin Claiming \cup {"getClock"} /\ c.at \notin Work
  BY <1>8 DEF Call, Claiming, Work
<1>11. db' = db /\ jobs' = jobs /\ mounted' = mounted /\ issued' = issued
  BY DEF CallFactory, MakeTransport, Finish, ui, history
<1>12. /\ \A o \in issued' : Author(o) = db.key
       /\ \A j \in Slot : \A n \in DOMAIN jobs'[j] :
            jobs'[j][n].does = "write" => inst[j].key = db.key
  BY <1>11 DEF KeyInv, WritesOk
<1>. QED  BY <1>6, <1>7, <1>9, <1>10, <1>11, <1>12, KeyAnswer

LEMMA KeyOpenDb ==
  ASSUME IInv, IInv', KeyInv, NEW k \in DOMAIN calls, Ready(k), OpenDb(k)
  PROVE  KeyInv'
<1>1. PICK c : c = Call(calls[k].by, "getKey")
  OBVIOUS
<1>2. c.by = calls[k].by /\ c.at = "getKey" /\ calls[k].at = "openDb"
  BY <1>1 DEF Call, OpenDb
<1>3. /\ db' = db /\ inst' = inst /\ jobs' = jobs /\ mounted' = mounted /\ issued' = issued
  BY DEF OpenDb, ui, history
<1>4. PICK next : next = <<c>> /\ Answer(k, next)
  BY <1>1 DEF OpenDb
<1>5. PICK came : came = {c}
  OBVIOUS
<1>6. IsSequence(calls) /\ IsSequence(calls') /\ CallsInOrder
  BY DEF IInv, CallsInOrder
<1>7. Succeeds({k}, came)
  BY <1>4, <1>5, <1>6, AnswerSucceeds
<1>8. LastIsMounted'
  BY <1>2, <1>3, <1>5, <1>6, <1>7, LastMoves DEF KeyInv
<1>9. KeysOk'
  <2>1. KeysOk
    BY DEF KeyInv
  <2>2. \A d \in came : d.at \notin {"setKey", "getClock"}
    BY <1>2, <1>5
  <2>3. \A m \in DOMAIN calls \cap {k} : calls[m].at = "getClock" => NoClaim
    BY <1>2
  <2>4. \A j \in Slot : Acting(j)' => Acting(j)
    BY <1>3 DEF Acting
  <2>. QED  BY <1>3, <1>6, <1>7, <2>1, <2>2, <2>3, <2>4, KeysFrame
<1>10. WritesOk'
  <2>1. WritesOk
    BY DEF KeyInv
  <2>2. \A d \in came : d.at \in Work /\ d.does = "write" =>
                          \A o \in d.ops : Author(o) = db.key
    BY <1>2, <1>5 DEF Work
  <2>3. /\ \A o \in issued' : Author(o) = db.key
        /\ \A j \in Slot : \A n \in DOMAIN jobs'[j] :
             jobs'[j][n].does = "write" => inst'[j].key = db.key
    BY <1>3, <2>1 DEF WritesOk
  <2>. QED  BY <1>3, <1>7, <2>1, <2>2, <2>3, WritesFrame
<1>. QED  BY <1>8, <1>9, <1>10 DEF KeyInv

\* Of two openings one cannot be about to store a key while another looks for
\* it and a third, which has stored its own, waits for its clock.
LEMMA TwoOpenings ==
  ASSUME IInv, KeyInv, Slots <= 2, NEW k \in DOMAIN calls, calls[k].at = "getKey",
         db.key # NoKey
  PROVE  NoClaim
<1>1. SUFFICES ASSUME NEW m \in DOMAIN calls, calls[m].at = "setKey"  PROVE FALSE
  BY DEF NoClaim
<1>2. PICK l \in DOMAIN calls : calls[l].at = "getClock"
  BY <1>1 DEF KeyInv, KeysOk
<1>3. /\ calls[k].by # calls[m].by /\ calls[k].by # calls[l].by
      /\ calls[m].by # calls[l].by
  BY <1>1, <1>2 DEF IInv, CallsInOrder, Opening, Loading
<1>4. calls[k].by \in 1 .. 2 /\ calls[m].by \in 1 .. 2 /\ calls[l].by \in 1 .. 2
  BY SpacesAssumption DEF IInv, Placed, Slot
<1>. QED  BY <1>3, <1>4

LEMMA KeyGetKey ==
  ASSUME IInv, IInv', KeyInv, Slots <= 2, NEW k \in DOMAIN calls, Ready(k), GetKey(k)
  PROVE  KeyInv'
<1>1. PICK i : i = calls[k].by
  OBVIOUS
<1>2. PICK c : c = Call(i, IF db.key # NoKey THEN "getClock" ELSE "setKey")
  OBVIOUS
<1>3. PICK key : key \in Identities /\ inst' = [inst EXCEPT ![i].key = key]
  BY <1>1 DEF GetKey
<1>4. calls[k].at = "getKey" /\ calls[k].at \in Opening
  BY DEF GetKey, Opening, Loading
<1>5. /\ i \in Slot /\ inst[i] \in Opened /\ ~Acting(i)
      /\ \A m \in DOMAIN calls \ {k} : calls[m].by = i => calls[m].at \notin Opening
  BY <1>1, <1>4, OpeningState
<1>6. inst \in [Slot -> Opened] /\ jobs[i] = <<>>
  BY <1>5 DEF IInv, TypeInv, LifeOk
<1>7. /\ inst'[i].key = key /\ \A j \in Slot \ {i} : inst'[j] = inst[j]
      /\ \A j \in Slot : Acting(j)' <=> Acting(j)
  BY <1>3, <1>5, <1>6 DEF Acting, Opened
<1>8. /\ db' = db /\ jobs' = jobs /\ mounted' = mounted /\ issued' = issued
  BY DEF GetKey, ui, history
<1>9. PICK next : next = <<c>> /\ Answer(k, next)
  BY <1>1, <1>2 DEF GetKey
<1>10. PICK came : came = {c}
  OBVIOUS
<1>11. IsSequence(calls) /\ IsSequence(calls') /\ CallsInOrder
  BY DEF IInv, CallsInOrder
<1>12. Succeeds({k}, came)
  BY <1>9, <1>10, <1>11, AnswerSucceeds
<1>13. c.by = i /\ c.at = IF db.key # NoKey THEN "getClock" ELSE "setKey"
  BY <1>2 DEF Call
<1>14. WritesOk'
  <2>1. WritesOk
    BY DEF KeyInv
  <2>2. \A d \in came : d.at \in Work /\ d.does = "write" =>
                          \A o \in d.ops : Author(o) = db.key
    BY <1>10, <1>13 DEF Work
  <2>3. \A o \in issued' : Author(o) = db.key
    BY <1>8, <2>1 DEF WritesOk
  <2>4. \A j \in Slot : \A n \in DOMAIN jobs'[j] :
          jobs'[j][n].does = "write" => inst'[j].key = db.key
    BY <1>6, <1>7, <1>8, <2>1 DEF WritesOk
  <2>. QED  BY <1>8, <1>12, <2>1, <2>2, <2>3, <2>4, WritesFrame
<1>15. \A m \in DOMAIN calls' :
         \/ calls'[m] = c
         \/ \E j \in DOMAIN calls \ {k} : calls'[m] = calls[j]
  BY <1>10, <1>12 DEF Succeeds
<1>16. CASE db.key # NoKey
  <2>1. key = db.key /\ c.at = "getClock"
    BY <1>3, <1>13, <1>16 DEF Identities
  <2>2. NoClaim
    BY <1>4, <1>16, TwoOpenings
  <2>3. LastIsMounted'
    <3>1. \A d \in came : d.at \notin Claiming
      BY <1>10, <2>1 DEF Claiming
    <3>2. \A m \in DOMAIN calls : calls[m].by # 0
      BY DEF IInv, Placed, Slot
    <3>. QED  BY <1>8, <1>12, <3>1, <3>2, LastFrame DEF KeyInv
  <2>4. ASSUME NEW j \in Slot, Acting(j)'
        PROVE  db'.key # NoKey /\ (mounted' = j => inst'[j].key = db'.key)
    BY <1>7, <1>8, <1>16, <2>1, <2>4 DEF KeyInv, KeysOk
  <2>5. ASSUME NEW m \in DOMAIN calls', calls'[m].at = "getClock"
        PROVE  db'.key # NoKey /\ (mounted' = calls'[m].by =>
                                     inst'[calls'[m].by].key = db'.key)
    <3>1. CASE calls'[m] = c
      BY <1>7, <1>8, <1>13, <1>16, <2>1, <3>1
    <3>2. ASSUME NEW j \in DOMAIN calls \ {k}, calls'[m] = calls[j]
          PROVE  db'.key # NoKey /\ (mounted' = calls'[m].by =>
                                       inst'[calls'[m].by].key = db'.key)
      <4>1. calls[j].by \in Slot \ {i}
        BY <1>5, <2>5, <3>2 DEF IInv, Placed, Opening, Loading
      <4>. QED  BY <1>7, <1>8, <1>16, <2>5, <3>2, <4>1 DEF KeyInv, KeysOk
    <3>. QED  BY <1>15, <3>1, <3>2
  <2>6. \A m \in DOMAIN calls' : calls'[m].at # "setKey"
    BY <1>15, <2>1, <2>2 DEF NoClaim
  <2>7. KeysOk'
    BY <2>4, <2>5, <2>6 DEF KeysOk
  <2>. QED  BY <1>14, <2>3, <2>7 DEF KeyInv
<1>17. CASE db.key = NoKey
  <2>1. c.at = "setKey"
    BY <1>13, <1>17
  <2>2. LastIsMounted'
    BY <1>1, <1>4, <1>8, <1>10, <1>11, <1>12, <1>13, <2>1, LastMoves DEF KeyInv
  <2>3. \A j \in Slot : ~Acting(j)
    BY <1>17 DEF KeyInv, KeysOk
  <2>4. issued = {}
    <3>1. ASSUME NEW o \in issued  PROVE FALSE
      <4>1. Author(o) \in Device /\ Author(o) = NoKey
        BY <1>17, <3>1 DEF IInv, DataOk, Op, Stamp, Author, KeyInv, WritesOk
      <4>. QED  BY <4>1, HlcAssumption DEF NoKey
    <3>. QED  BY <3>1
  <2>5. \A m \in DOMAIN calls' : calls'[m].at # "getClock"
    BY <1>15, <1>17, <2>1 DEF KeyInv, KeysOk
  <2>6. KeysOk'
    BY <1>7, <1>8, <1>17, <2>3, <2>4, <2>5 DEF KeysOk
  <2>. QED  BY <1>14, <2>2, <2>6 DEF KeyInv
<1>. QED  BY <1>16, <1>17

LEMMA KeySetKey ==
  ASSUME IInv, IInv', KeyInv, NEW k \in DOMAIN calls, Ready(k), SetKey(k)
  PROVE  KeyInv'
<1>1. PICK i : i = calls[k].by
  OBVIOUS
<1>2. PICK c : c = Call(i, "getClock")
  OBVIOUS
<1>3. c.by = i /\ c.at = "getClock" /\ calls[k].at = "setKey"
  BY <1>2 DEF Call, SetKey
<1>4. i \in Slot /\ inst[i].key \in Local
  BY <1>1, <1>3 DEF IInv, Placed
<1>5. db'.key = inst[i].key /\ db'.key # NoKey
  BY <1>1, <1>4, MetaPut, SpacesAssumption, HlcAssumption DEF SetKey, NoKey
<1>6. inst' = inst /\ jobs' = jobs /\ mounted' = mounted /\ issued' = issued
  BY DEF SetKey, ui, history
<1>7. issued = {} /\ \A j \in Slot : ~Acting(j)
  BY <1>3 DEF KeyInv, KeysOk
<1>8. \A j \in Slot : jobs[j] = <<>>
  BY <1>7 DEF IInv, LifeOk
<1>9. \A m \in DOMAIN calls : calls[m].at \notin Work
  BY <1>8 DEF IInv, Placed
<1>10. PICK next : next = <<c>> /\ Answer(k, next)
  BY <1>1, <1>2 DEF SetKey
<1>11. PICK came : came = {c}
  OBVIOUS
<1>12. IsSequence(calls) /\ IsSequence(calls')
  BY DEF IInv, CallsInOrder
<1>13. Succeeds({k}, came)
  BY <1>10, <1>11, <1>12, AnswerSucceeds
<1>14. \A m \in DOMAIN calls' :
         \/ calls'[m] = c
         \/ \E j \in DOMAIN calls \ {k} : calls'[m] = calls[j]
  BY <1>11, <1>13 DEF Succeeds
<1>15. LastIsMounted'
  <2>1. \A d \in came : d.at \notin Claiming
    BY <1>3, <1>11 DEF Claiming
  <2>2. \A m \in DOMAIN calls : calls[m].by # 0
    BY DEF IInv, Placed, Slot
  <2>. QED  BY <1>6, <1>13, <2>1, <2>2, LastFrame DEF KeyInv
<1>16. WritesOk'
  <2>1. \A m \in DOMAIN calls' : calls'[m].at \notin Work
    BY <1>3, <1>9, <1>14 DEF Work
  <2>. QED  BY <1>6, <1>7, <1>8, <2>1 DEF WritesOk
<1>17. ASSUME NEW m \in DOMAIN calls', calls'[m].at = "getClock"
       PROVE  mounted' = calls'[m].by => inst'[calls'[m].by].key = db'.key
  <2>1. ASSUME NEW j \in DOMAIN calls, calls'[m] = calls[j]  PROVE mounted # calls'[m].by
    BY <1>3, <1>17, <2>1 DEF KeyInv, KeysOk
  <2>. QED  BY <1>3, <1>5, <1>6, <1>14, <2>1
<1>18. ASSUME NEW m \in DOMAIN calls', calls'[m].at = "setKey"
       PROVE  /\ \E p \in DOMAIN calls' : calls'[p].at = "getClock"
              /\ \A p \in DOMAIN calls' :
                   calls'[p].at = "getClock" => m < p /\ mounted' # calls'[p].by
  <2>1. calls'[m] # c /\ calls'[m] \notin came
    BY <1>3, <1>11, <1>18
  <2>2. PICK j \in DOMAIN calls \ {k} : calls'[m] = calls[j]
    BY <1>14, <2>1
  <2>3. mounted # i
    <3>1. "meta" \in Scope(calls[j]) /\ "meta" \in Scope(calls[k])
      BY <1>3, <1>18, <2>2 DEF Scope
    <3>2. ~(j < k)
      BY <1>12, <3>1, NoneBefore
    <3>3. j \in Nat /\ k \in Nat /\ j # k
      BY <1>12 DEF IsSequence
    <3>4. Ahead(k, j)
      BY <1>3, <1>18, <2>2, <3>2, <3>3 DEF Ahead, Claiming
    <3>. QED  BY <1>1, <3>4 DEF KeyInv, LastIsMounted
  <2>4. ASSUME NEW p \in DOMAIN calls', calls'[p].at = "getClock"
        PROVE  m < p /\ mounted' # calls'[p].by
    <3>1. m < p
      BY <1>12, <1>13, <1>18, <2>1, <2>4, ClaimFirst DEF KeyInv
    <3>2. ASSUME NEW l \in DOMAIN calls, calls'[p] = calls[l]  PROVE mounted # calls'[p].by
      BY <1>3, <2>4, <3>2 DEF KeyInv, KeysOk
    <3>. QED  BY <1>3, <1>6, <1>14, <2>3, <3>1, <3>2
  <2>5. \E p \in DOMAIN calls' : calls'[p] = c
    BY <1>11, <1>13 DEF Succeeds
  <2>. QED  BY <1>3, <2>4, <2>5
<1>19. KeysOk'
  <2>1. \A j \in Slot : ~Acting(j)'
    BY <1>6, <1>7 DEF Acting
  <2>. QED  BY <1>5, <1>6, <1>7, <1>17, <1>18, <2>1 DEF KeysOk
<1>. QED  BY <1>15, <1>16, <1>19 DEF KeyInv

LEMMA KeyMount ==
  ASSUME IInv, IInv', KeyInv, NEW i \in Slot, Mount(i)
  PROVE  KeyInv'
<1>1. PICK c : c = Call(i, "openDb")
  OBVIOUS
<1>2. c.by = i /\ c.at = "openDb"
  BY <1>1 DEF Call
<1>3. /\ Make(c) /\ mounted' = i
      /\ inst' = [inst EXCEPT ![i] = [Unused EXCEPT !.at = "opening"]]
      /\ \A k \in DOMAIN calls : calls[k].by # i
      /\ jobs[i] = <<>>
      /\ db' = db /\ jobs' = jobs /\ issued' = issued
  BY <1>1 DEF Mount, Reusable
<1>4. inst \in [Slot -> Opened]
  BY DEF IInv, TypeInv
<1>5. /\ \A j \in Slot \ {i} : inst'[j] = inst[j]
      /\ inst'[i] = [Unused EXCEPT !.at = "opening"]
  BY <1>3, <1>4
<1>6. \A j \in Slot : Acting(j)' => j # i /\ Acting(j)
  BY <1>5, SpacesAssumption DEF Acting, Unused
<1>7. IsSequence(calls) /\ IsSequence(calls')
  BY DEF IInv, CallsInOrder
<1>8. PICK came : came = {c}
  OBVIOUS
<1>9. Succeeds({}, came)
  BY <1>3, <1>7, <1>8, MakeSucceeds
<1>10. ASSUME NEW m \in DOMAIN calls'
       PROVE  calls'[m] = c \/ \E j \in DOMAIN calls : calls'[m] = calls[j] /\ calls[j].by # i
  BY <1>3, <1>8, <1>9 DEF Succeeds
<1>11. LastIsMounted'
  <2>1. SUFFICES ASSUME NEW m \in DOMAIN calls', NEW p \in DOMAIN calls', Ahead(m, p)',
                        calls'[m].by = i
                 PROVE  FALSE
    BY <1>3 DEF LastIsMounted
  <2>2. calls'[m] = c
    BY <1>10, <2>1
  <2>3. calls'[p].at \in Claiming /\ ~(Rank["openDb"] > Rank[calls'[p].at])
    BY <2>1 DEF Ahead, Claiming, Rank
  <2>4. m < p
    BY <1>2, <2>1, <2>2, <2>3 DEF Ahead
  <2>5. \E j \in DOMAIN calls : calls'[m] = calls[j]
    BY <1>9, <2>4 DEF Succeeds
  <2>. QED  BY <1>3, <2>1, <2>5
<1>12. ASSUME NEW m \in DOMAIN calls', calls'[m].at \in {"getClock", "setKey"}
       PROVE  \E j \in DOMAIN calls : calls'[m] = calls[j] /\ calls[j].by # i
  BY <1>2, <1>10, <1>12
<1>13. ASSUME NEW m \in DOMAIN calls', calls'[m].at = "setKey"
       PROVE  /\ issued' = {}
              /\ \A j \in Slot : ~Acting(j)'
              /\ db'.key # NoKey => \E p \in DOMAIN calls' : calls'[p].at = "getClock"
              /\ \A p \in DOMAIN calls' :
                   calls'[p].at = "getClock" => m < p /\ mounted' # calls'[p].by
  <2>1. PICK j \in DOMAIN calls : calls'[m] = calls[j]
    BY <1>12, <1>13
  <2>2. /\ issued = {} /\ \A l \in Slot : ~Acting(l)
        /\ db.key # NoKey => \E l \in DOMAIN calls : calls[l].at = "getClock"
    BY <1>13, <2>1 DEF KeyInv, KeysOk
  <2>3. db'.key # NoKey => \E p \in DOMAIN calls' : calls'[p].at = "getClock"
    BY <1>3, <1>9, <2>2 DEF Succeeds
  <2>4. calls'[m] \notin came
    BY <1>2, <1>8, <1>13
  <2>5. ASSUME NEW p \in DOMAIN calls', calls'[p].at = "getClock"
        PROVE  m < p /\ mounted' # calls'[p].by
    <3>1. m < p
      BY <1>7, <1>9, <1>13, <2>4, <2>5, ClaimFirst DEF KeyInv
    <3>. QED  BY <1>3, <1>12, <2>5, <3>1
  <2>. QED  BY <1>3, <1>6, <2>2, <2>3, <2>5
<1>14. KeysOk'
  <2>1. ASSUME NEW j \in Slot, Acting(j)'  PROVE db'.key # NoKey /\ mounted' # j
    BY <1>3, <1>6, <2>1 DEF KeyInv, KeysOk
  <2>2. ASSUME NEW m \in DOMAIN calls', calls'[m].at = "getClock"
        PROVE  db'.key # NoKey /\ mounted' # calls'[m].by
    BY <1>3, <1>12, <2>2 DEF KeyInv, KeysOk
  <2>. QED  BY <1>13, <2>1, <2>2 DEF KeysOk
<1>15. WritesOk'
  <2>1. WritesOk
    BY DEF KeyInv
  <2>2. \A d \in came : d.at \in Work /\ d.does = "write" =>
                          \A o \in d.ops : Author(o) = db.key
    BY <1>2, <1>8 DEF Work
  <2>3. \A o \in issued' : Author(o) = db.key
    BY <1>3, <2>1 DEF WritesOk
  <2>4. \A j \in Slot : \A n \in DOMAIN jobs'[j] :
          jobs'[j][n].does = "write" => inst'[j].key = db.key
    BY <1>3, <1>5, <2>1 DEF WritesOk
  <2>. QED  BY <1>3, <1>9, <2>1, <2>2, <2>3, <2>4, WritesFrame
<1>. QED  BY <1>11, <1>14, <1>15 DEF KeyInv

LEMMA KeyStep ==
  ASSUME Slots <= 2
  PROVE  IInv /\ IInv' /\ KeyInv /\ [SpacesNext]_spaceVars => KeyInv'
<1>. SUFFICES ASSUME IInv, IInv', KeyInv, [SpacesNext]_spaceVars  PROVE KeyInv'
  OBVIOUS
<1>1. CASE Running
  <2>1. ASSUME NEW k \in DOMAIN calls, Ready(k), Serve(k)  PROVE KeyInv'
    <3>1. CASE OpenDb(k) \/ GetKey(k) \/ SetKey(k)
      BY <2>1, <3>1, KeyOpenDb, KeyGetKey, KeySetKey
    <3>2. CASE CallFactory(k) \/ MakeTransport(k) \/ Finish(k)
      BY <2>1, <3>2, KeyOpened
    <3>3. CASE ReadDone(k) \/ WriteDone(k)
      BY <2>1, <3>3, KeyWork
    <3>4. CASE GetPeersDone(k) \/ SetPeersDone(k) \/ ListDone(k) \/ RowDone(k)
      BY <2>1, <3>4, KeyAnswered
    <3>. QED  BY <2>1, <3>1, <3>2, <3>3, <3>4 DEF Serve
  <2>. QED  BY <1>1, <2>1, KeyBegin, KeyMade DEF Running
<1>2. CASE Failing
  <2>1. PICK k \in DOMAIN calls : Ready(k) /\ (OpenFails(k) \/ WriteFails(k))
    BY <1>2 DEF Failing
  <2>. QED  BY <2>1, KeyOpenFails, KeyWork
<1>3. CASE Happening
  <2>1. CASE \E i \in Slot : Mount(i)
    BY <2>1, KeyMount
  <2>2. CASE Unmount \/ Crash
    BY <2>2, KeyUnmount, KeyCrash
  <2>3. CASE \/ \E w \in Writes : Mutate(w)
             \/ \E does \in {"compact", "collect"} : Compact(does)
             \/ \E i \in Slot, ops \in RemoteOps : Hear(i, ops)
    BY <2>3, KeyQueue
  <2>4. CASE \E i \in Slot, r \in Recordings : Record(i, r)
    BY <2>4, KeyMade
  <2>. QED  BY <1>3, <2>1, <2>2, <2>3, <2>4 DEF Happening
<1>4. CASE UNCHANGED spaceVars
  BY <1>4, KeyStutter
<1>. QED  BY <1>1, <1>2, <1>3, <1>4 DEF SpacesNext

\* The device keeps its identity: all it wrote is under the key in its
\* database, and so is what the space that is shown will write, whatever was
\* remounted or killed while keys were being claimed, as long as no more than
\* two openings overlap (SyncEngine.open).
THEOREM OneIdentityKept ==
  ASSUME Slots <= 2
  PROVE  SpacesSpec => []OneIdentity
<1>1. IInv /\ KeyInv => OneIdentity
  <2>. SUFFICES ASSUME IInv, KeyInv  PROVE OneIdentity
    OBVIOUS
  <2>1. shown # 0 => shown \in Slot /\ mounted = shown /\ Acting(shown)
    BY SpacesAssumption DEF IInv, UiOk, Slot, Acting
  <2>. QED  BY <2>1 DEF KeyInv, KeysOk, WritesOk, OneIdentity
<1>2. IInv /\ IInv' /\ KeyInv /\ [SpacesNext]_spaceVars => KeyInv'
  BY KeyStep
<1>. QED  BY <1>1, <1>2, KeyInit, Invariance, PTL DEF SpacesSpec

-----------------------------------------------------------------------------
\* What a hook shows. While its effect is live it either has the rows as they
\* are, or one of its refreshes is to finish after all the others and will have
\* read the rows as they are.

Reading == {"list", "row"}

\* The refreshes under way for the hook as it is.
Live == {k \in DOMAIN calls : calls[k].by = view.of /\ calls[k].at \in Reading}

\* The answers a refresh still waits for, if no row is added.
Left(c) == IF c.at = "list" THEN Cardinality(ListRows(db)) + 1 ELSE Cardinality(c.todo)

\* What a refresh still asks for.
Shape(c) ==
  IF c.at = "list" THEN hook = "rows"
  ELSE /\ c.todo # {}
       /\ IF hook = "rows" THEN c.todo \subseteq ListRows(db) ELSE c.todo = {TheRow}

\* What the hook is to show. A refresh that has read some rows will return
\* that: those it has read are as they were.
Shows == View(IF hook = "rows" THEN db.cells ELSE GetRow(db, TheRow))
RowsOf(d, T) == {o \in d.cells : o.row \in T}
Current(c) == c.at = "row" => c.got \cup View(RowsOf(db, c.todo)) = Shows

\* Refresh n is the last to finish: the others have no more answers to wait
\* for, and those that wait behind it have fewer.
FinishesLast(n) ==
  \A m \in Live : /\ m < n => Left(calls[m]) <= Left(calls[n])
                  /\ m > n => Left(calls[m]) < Left(calls[n])

\* A compaction's commit deletes rows whole, with no refresh under way.
Collects(c) ==
  /\ Live = {} /\ c.ops = {}
  /\ \E rows : /\ \A r \in rows : \E o \in GetRow(db, r) : o.column = Tombstone /\ o.value
               /\ db'.cells = {o \in db.cells : o.row \notin rows}

UpToDate == Live = {} /\ ~view.loading /\ view.rows = Shows
Catching == \E n \in Live : Current(calls[n]) /\ FinishesLast(n)

\* Only the hook as it is waits for rows, or one of a space closed since.
OneEffect ==
  \A k \in DOMAIN calls : calls[k].at \in Reading =>
    calls[k].by = view.of \/ inst[calls[k].by].closed

ViewInv ==
  /\ hook \in {"rows", "row"}
  /\ OneEffect
  /\ view.of # 0 => /\ \A k \in Live : Shape(calls[k])
                    /\ UpToDate \/ Catching

-----------------------------------------------------------------------------
\* Of the calls now pending, f says which of the earlier ones each of them is:
\* those in `gone` are answered, and `next`, which follows them, is made.
Moves(f, gone, next) ==
  /\ IsSequence(calls) /\ IsSequence(calls')
  /\ f \in [DOMAIN calls' -> Nat]
  /\ \A m \in DOMAIN calls' :
       \/ f[m] \in DOMAIN calls \ gone /\ calls'[m] = calls[f[m]]
       \/ f[m] = Len(calls) + 1 /\ next = <<calls'[m]>>
  /\ \A m, p \in DOMAIN calls' : m < p => f[m] < f[p]
  /\ \A j \in DOMAIN calls \ gone : \E m \in DOMAIN calls' : f[m] = j
  /\ \A c : next = <<c>> =>
       \E m \in DOMAIN calls' : f[m] = Len(calls) + 1 /\ calls'[m] = c

\* The calls behind the one answered move up.
LEMMA AnswerMoves ==
  ASSUME IsSequence(calls), NEW k \in DOMAIN calls, NEW next,
         next = <<>> \/ \E c : next = <<c>>,
         Answer(k, next)
  PROVE  \E f : Moves(f, {k}, next)
<1>. DEFINE n == Len(calls)
            f == [m \in DOMAIN calls' |-> IF m < k THEN m ELSE m + 1]
<1>1. n \in Nat /\ DOMAIN calls = 1 .. n /\ k \in 1 .. n
  BY DEF IsSequence
<1>2. /\ IsSequence(calls')
      /\ DOMAIN calls' = 1 .. n - 1 + Len(next)
      /\ \A m \in 1 .. n - 1 :
           /\ m < k => calls'[m] = calls[m]
           /\ m >= k => calls'[m] = calls[m + 1]
      /\ next # <<>> => calls'[n] = next[1]
  <2>1. next = <<>> \/ \E e : next = <<e>>
    OBVIOUS
  <2>. QED  BY <2>1, CallReplaced
<1>3. /\ next = <<>> => DOMAIN calls' = 1 .. n - 1
      /\ \A c : next = <<c>> => /\ DOMAIN calls' = 1 .. n
                                /\ calls'[n] = c
  <2>1. CASE next = <<>>
    BY <1>1, <1>2, <2>1
  <2>2. ASSUME NEW c, next = <<c>>
        PROVE  DOMAIN calls' = 1 .. n /\ calls'[n] = c
    <3>1. Len(next) = 1 /\ next[1] = c /\ next # <<>>
      BY <2>2
    <3>. QED  BY <1>1, <1>2, <3>1
  <2>3. ASSUME NEW c, next = <<c>>  PROVE next # <<>>
    BY <2>3
  <2>. QED  BY <2>1, <2>2, <2>3
<1>4. /\ f \in [DOMAIN calls' -> Nat]
      /\ \A m, p \in DOMAIN calls' : m < p => f[m] < f[p]
  BY <1>1, <1>3
<1>5. ASSUME NEW m \in 1 .. n - 1
      PROVE  m \in DOMAIN calls' /\ f[m] \in DOMAIN calls \ {k} /\ calls'[m] = calls[f[m]]
  <2>1. m \in DOMAIN calls'
    BY <1>1, <1>3
  <2>. QED  BY <1>1, <1>2, <2>1
<1>6. ASSUME NEW m \in DOMAIN calls', m \notin 1 .. n - 1
      PROVE  f[m] = n + 1 /\ next = <<calls'[m]>>
  <2>1. PICK c : next = <<c>>
    BY <1>3, <1>6
  <2>2. m = n /\ calls'[m] = c
    BY <1>1, <1>3, <1>6, <2>1
  <2>. QED  BY <1>1, <2>1, <2>2
<1>7. ASSUME NEW j \in DOMAIN calls \ {k}  PROVE \E m \in DOMAIN calls' : f[m] = j
  <2>1. CASE j < k
    <3>1. j \in 1 .. n - 1
      BY <1>1, <2>1
    <3>2. j \in DOMAIN calls' /\ f[j] = j
      BY <1>5, <2>1, <3>1
    <3>. QED  BY <3>2
  <2>2. CASE j > k
    <3>1. j - 1 \in 1 .. n - 1 /\ ~(j - 1 < k) /\ j - 1 + 1 = j
      BY <1>1, <2>2
    <3>2. j - 1 \in DOMAIN calls' /\ f[j - 1] = j
      BY <1>5, <3>1
    <3>. QED  BY <3>2
  <2>. QED  BY <1>1, <2>1, <2>2
<1>8. ASSUME NEW c, next = <<c>>
      PROVE  \E m \in DOMAIN calls' : f[m] = n + 1 /\ calls'[m] = c
  <2>1. n \in DOMAIN calls' /\ n \notin 1 .. n - 1 /\ calls'[n] = c
    BY <1>1, <1>3, <1>8
  <2>. QED  BY <1>6, <2>1
<1>. HIDE DEF f
<1>9. Moves(f, {k}, next)
  BY <1>2, <1>4, <1>5, <1>6, <1>7, <1>8 DEF Moves
<1>. QED  BY <1>9

LEMMA MakeMoves ==
  ASSUME IsSequence(calls), NEW c, Make(c)
  PROVE  \E f : Moves(f, {}, <<c>>)
<1>. DEFINE n == Len(calls)
            S == {calls[m] : m \in DOMAIN calls} \cup {c}
            f == [m \in DOMAIN calls' |-> m]
<1>1. n \in Nat /\ DOMAIN calls = 1 .. n /\ calls \in Seq(S)
  BY DEF IsSequence
<1>2. c \in S
  OBVIOUS
<1>. HIDE DEF S
<1>3. /\ DOMAIN calls' = 1 .. n + 1
      /\ \A m \in 1 .. n : calls'[m] = calls[m]
      /\ calls'[n + 1] = c
      /\ calls' \in Seq(S)
  BY <1>1, <1>2, AppendProperties DEF Make
<1>4. IsSequence(calls')
  BY <1>3 DEF IsSequence
<1>5. \A d : <<c>> = <<d>> => d = c
  OBVIOUS
<1>6. Moves(f, {}, <<c>>)
  BY <1>1, <1>3, <1>4, <1>5 DEF Moves
<1>. QED  BY <1>6

LEMMA NothingMoves ==
  ASSUME IsSequence(calls), calls' = calls
  PROVE  \E f : Moves(f, {}, <<>>)
<1>. DEFINE f == [m \in DOMAIN calls |-> m]
<1>1. DOMAIN calls = 1 .. Len(calls) /\ Len(calls) \in Nat
  BY DEF IsSequence
<1>2. Moves(f, {}, <<>>)
  BY <1>1 DEF Moves
<1>. QED  BY <1>2

-----------------------------------------------------------------------------
\* What a refresh reads.

\* There are finitely many rows.
LEMMA RowsFinite ==
  ASSUME IInv, ~crowded
  PROVE  /\ IsFiniteSet(ListRows(db)) /\ Cardinality(ListRows(db)) \in Nat
         /\ ListRows(db) \subseteq Row
<1>. DEFINE f == [o \in db.cells |-> o.row]
<1>1. db.cells \subseteq db.ops /\ db.cells \subseteq Op /\ IsFiniteSet(db.ops)
  BY DEF IInv, DataOk, OneWriterAgrees, LogAndCellsAgree, Winners
<1>2. IsFiniteSet(db.cells)
  BY <1>1, FS_Subset
<1>3. f \in Surjection(db.cells, ListRows(db))
  BY DEF Surjection, ListRows
<1>. HIDE DEF f
<1>4. IsFiniteSet(ListRows(db))
  BY <1>2, <1>3, FS_Surjection
<1>. QED  BY <1>1, <1>4, FS_CardinalityType DEF ListRows, Op

\* A refresh waits for an answer.
LEMMA LeftPositive ==
  ASSUME IInv, ~crowded, NEW c, Shape(c)
  PROVE  /\ Left(c) \in Nat /\ Left(c) > 0
         /\ c.at # "list" => IsFiniteSet(c.todo) /\ c.todo \subseteq Row
<1>1. CASE c.at = "list"
  BY <1>1, RowsFinite DEF Left
<1>2. CASE c.at # "list"
  <2>1. IsFiniteSet(c.todo) /\ c.todo \subseteq Row /\ c.todo # {}
    <3>1. CASE hook = "rows"
      BY <1>2, <3>1, RowsFinite, FS_Subset DEF Shape
    <3>2. CASE hook # "rows"
      BY <1>2, <3>2, FS_Singleton, SpacesAssumption DEF Shape
    <3>. QED  BY <3>1, <3>2
  <2>2. Cardinality(c.todo) \in Nat /\ Cardinality(c.todo) # 0
    BY <2>1, FS_CardinalityType, FS_EmptySet
  <2>. QED  BY <1>2, <2>1, <2>2 DEF Left
<1>. QED  BY <1>1, <1>2

\* The view of some rows is those rows of the view.
LEMMA ViewOfRows ==
  ASSUME NEW d, NEW T
  PROVE  View(RowsOf(d, T)) = {o \in View(d.cells) : o.row \in T}
BY DEF View, RowsOf, Hidden

LEMMA OneRow ==
  ASSUME NEW d, NEW row
  PROVE  GetRow(d, row) = RowsOf(d, {row})
BY DEF GetRow, RowsOf

LEMMA AllRows ==
  ASSUME NEW d
  PROVE  RowsOf(d, ListRows(d)) = d.cells
BY DEF RowsOf, ListRows

\* The next row is read: what the refresh comes to show stays.
LEMMA NextRow ==
  ASSUME IInv, ~crowded, NEW c, c.at = "row", Shape(c), Current(c),
         NEW row, row = CHOOSE r \in c.todo : \A q \in c.todo : r <= q
  PROVE  /\ row \in c.todo
         /\ c.got \cup View(GetRow(db, row)) \cup View(RowsOf(db, c.todo \ {row})) = Shows
<1>1. c.todo \subseteq Nat /\ c.todo # {}
  BY LeftPositive, SpacesAssumption DEF Shape
<1>2. \E r \in c.todo : \A q \in c.todo : r <= q
  BY <1>1, LeastNatural
<1>3. row \in c.todo
  BY <1>2
<1>4. View(RowsOf(db, c.todo)) =
        View(GetRow(db, row)) \cup View(RowsOf(db, c.todo \ {row}))
  <2>. DEFINE V == View(db.cells)
  <2>1. View(RowsOf(db, c.todo)) = {o \in V : o.row \in c.todo}
    BY ViewOfRows
  <2>2. View(GetRow(db, row)) = {o \in V : o.row \in {row}}
    BY ViewOfRows, OneRow
  <2>3. View(RowsOf(db, c.todo \ {row})) = {o \in V : o.row \in c.todo \ {row}}
    BY ViewOfRows
  <2>. HIDE DEF V
  <2>4. {o \in V : o.row \in c.todo} =
          {o \in V : o.row \in {row}} \cup {o \in V : o.row \in c.todo \ {row}}
    BY <1>3
  <2>. QED  BY <2>1, <2>2, <2>3, <2>4
<1>5. c.got \cup View(RowsOf(db, c.todo)) = Shows
  BY DEF Current
<1>. DEFINE a == View(GetRow(db, row))
            b == View(RowsOf(db, c.todo \ {row}))
<1>6. c.got \cup a \cup b = c.got \cup (a \cup b)
  OBVIOUS
<1>. QED  BY <1>3, <1>4, <1>5, <1>6

-----------------------------------------------------------------------------
\* Steps that leave the hook's refreshes alone.

\* A refresh of the next state is one of this, or has just been made.
LEMMA LiveMoves ==
  ASSUME NEW f, NEW gone, NEW next, Moves(f, gone, next), view'.of = view.of
  PROVE  /\ \A m \in Live' :
              /\ m \in DOMAIN calls' /\ calls'[m].at \in Reading /\ calls'[m].by = view.of
              /\ \/ f[m] \in Live \ gone /\ calls'[m] = calls[f[m]]
                 \/ f[m] = Len(calls) + 1 /\ next = <<calls'[m]>>
         /\ \A j \in Live \ gone :
              \E m \in Live' : f[m] = j /\ calls'[m] = calls[j]
         /\ \A m, p \in Live' : m < p => f[m] < f[p]
         /\ \A m \in Live' : m \in Nat /\ f[m] \in Nat
         /\ \A m \in Live : m \in Nat /\ m < Len(calls) + 1
         /\ \A c : next = <<c>> /\ c.at \in Reading /\ c.by = view.of =>
              \E m \in Live' : f[m] = Len(calls) + 1 /\ calls'[m] = c
<1>1. /\ DOMAIN calls \subseteq Nat /\ DOMAIN calls' \subseteq Nat
      /\ \A j \in DOMAIN calls : j < Len(calls) + 1
  <2>1. \A q : IsSequence(q) =>
          DOMAIN q \subseteq Nat /\ \A j \in DOMAIN q : j < Len(q) + 1
    BY DEF IsSequence
  <2>. QED  BY <2>1 DEF Moves
<1>2. Live' = {m \in DOMAIN calls' : calls'[m].by = view.of /\ calls'[m].at \in Reading}
  BY DEF Live, Reading
<1>3. ASSUME NEW m \in Live'
      PROVE \/ f[m] \in Live \ gone /\ calls'[m] = calls[f[m]]
            \/ f[m] = Len(calls) + 1 /\ next = <<calls'[m]>>
  <2>1. m \in DOMAIN calls' /\ calls'[m].by = view.of /\ calls'[m].at \in Reading
    BY <1>2
  <2>2. CASE f[m] \in DOMAIN calls \ gone /\ calls'[m] = calls[f[m]]
    BY <2>1, <2>2 DEF Live
  <2>3. CASE f[m] = Len(calls) + 1 /\ next = <<calls'[m]>>
    BY <2>3
  <2>. QED  BY <2>1, <2>2, <2>3 DEF Moves
<1>4. ASSUME NEW j \in Live \ gone
      PROVE  \E m \in Live' : f[m] = j /\ calls'[m] = calls[j]
  <2>1. PICK m \in DOMAIN calls' : f[m] = j
    BY DEF Moves, Live
  <2>2. j \in DOMAIN calls
    BY DEF Live
  <2>3. f[m] # Len(calls) + 1
    BY <1>1, <2>1, <2>2
  <2>4. calls'[m] = calls[j]
    BY <2>1, <2>3 DEF Moves
  <2>5. m \in Live'
    BY <1>2, <2>4 DEF Live
  <2>. QED  BY <2>1, <2>4, <2>5
<1>5. ASSUME NEW c, next = <<c>>, c.at \in Reading, c.by = view.of
      PROVE  \E m \in Live' : f[m] = Len(calls) + 1 /\ calls'[m] = c
  BY <1>2, <1>5 DEF Moves, Live
<1>6. \A m, p \in Live' : m < p => f[m] < f[p]
  BY <1>2 DEF Moves
<1>7. \A m \in Live' : m \in Nat /\ f[m] \in Nat
  BY <1>1, <1>2 DEF Moves
<1>8. \A m \in Live : m \in Nat /\ m < Len(calls) + 1
  BY <1>1 DEF Live
<1>. QED  BY <1>2, <1>3, <1>4, <1>5, <1>6, <1>7, <1>8

\* Where no call is made, each refresh is one of before.
LEMMA LiveStay ==
  ASSUME NEW f, NEW gone, Moves(f, gone, <<>>), view'.of = view.of
  PROVE  \A m \in Live' : f[m] \in Live \ gone /\ calls'[m] = calls[f[m]]
<1>1. PICK next : next = <<>>
  OBVIOUS
<1>2. Moves(f, gone, next)
  BY <1>1
<1>3. \A m \in Live' : \/ f[m] \in Live \ gone /\ calls'[m] = calls[f[m]]
                       \/ f[m] = Len(calls) + 1 /\ next = <<calls'[m]>>
  BY <1>2, LiveMoves
<1>4. \A m : next # <<calls'[m]>>
  BY <1>1
<1>. QED  BY <1>3, <1>4

\* A closed space that has calls stays closed.
ClosedStay ==
  \A k \in DOMAIN calls :
    inst[calls[k].by].closed => inst'[calls[k].by].closed

\* The cells are, for the hook, as they were.
SameReads ==
  /\ Shows' = Shows
  /\ \A c : /\ Shape(c) => Shape(c)'
            /\ Shape(c) => Left(c)' = Left(c)
            /\ Shape(c) /\ Current(c) => Current(c)'

LEMMA EffectStays ==
  ASSUME OneEffect, ClosedStay, view'.of = view.of,
         NEW f, NEW gone, NEW next, Moves(f, gone, next),
         \A c : next = <<c>> => c.at \notin Reading \/ c.by = view.of
  PROVE  OneEffect'
<1>. SUFFICES ASSUME NEW m \in DOMAIN calls', calls'[m].at \in Reading
              PROVE  calls'[m].by = view.of \/ inst'[calls'[m].by].closed
  BY DEF OneEffect, Reading
<1>1. CASE f[m] \in DOMAIN calls /\ calls'[m] = calls[f[m]]
  BY <1>1 DEF OneEffect, ClosedStay
<1>2. CASE next = <<calls'[m]>>
  BY <1>2
<1>3. \/ f[m] \in DOMAIN calls \ gone /\ calls'[m] = calls[f[m]]
      \/ next = <<calls'[m]>>
  BY DEF Moves
<1>. QED  BY <1>1, <1>2, <1>3

\* The refresh that finishes last still does.
LEMMA ViewFrame ==
  ASSUME IInv, ViewInv, NEW f, NEW gone, NEW next, Moves(f, gone, next),
         hook' = hook, view' = view, ClosedStay, SameReads,
         gone \cap Live = {}, \A c : next = <<c>> => c.at \notin Reading
  PROVE  ViewInv'
<1>1. OneEffect'
  BY EffectStays DEF ViewInv
<1>2. /\ \A m \in Live' : f[m] \in Live /\ calls'[m] = calls[f[m]]
      /\ \A j \in Live : \E m \in Live' : f[m] = j /\ calls'[m] = calls[j]
      /\ \A m, p \in Live' : m < p => f[m] < f[p]
  <2>1. \A j \in Live : j \in Live \ gone
    OBVIOUS
  <2>2. \A m \in Live' : next # <<calls'[m]>>
    BY LiveMoves
  <2>. QED  BY <2>1, <2>2, LiveMoves
<1>3. ASSUME view.of # 0, NEW m \in Live'  PROVE Shape(calls[m])'
  <2>1. PICK c : c = calls'[m]
    OBVIOUS
  <2>2. Shape(c)
    BY <1>2, <1>3, <2>1 DEF ViewInv
  <2>3. Shape(c)'
    BY <2>2 DEF SameReads
  <2>. QED  BY <2>1, <2>3 DEF Shape
<1>4. ASSUME UpToDate  PROVE UpToDate'
  <2>1. Live' = {}
    BY <1>2, <1>4 DEF UpToDate
  <2>. QED  BY <1>4, <2>1 DEF UpToDate, SameReads
<1>5. ASSUME NEW m \in Live, view.of # 0, NEW c, c = calls[m]  PROVE Left(c)' = Left(c)
  <2>1. Shape(c)
    BY <1>5 DEF ViewInv
  <2>. QED  BY <2>1 DEF SameReads
<1>6. ASSUME view.of # 0, Catching  PROVE Catching'
  <2>1. PICK j \in Live : Current(calls[j]) /\ FinishesLast(j)
    BY <1>6 DEF Catching
  <2>2. PICK n \in Live' : f[n] = j /\ calls'[n] = calls[j]
    BY <1>2
  <2>3. PICK c : c = calls[j]
    OBVIOUS
  <2>4. Current(c)' /\ c = calls'[n]
    <3>1. Shape(c) /\ Current(c)
      BY <1>6, <2>1, <2>3 DEF ViewInv
    <3>. QED  BY <2>2, <2>3, <3>1 DEF SameReads
  <2>5. Current(calls[n])'
    BY <2>4 DEF Current
  <2>6. ASSUME NEW m \in Live'
        PROVE  /\ m < n => (Left(calls[m]) <= Left(calls[n]))'
               /\ m > n => (Left(calls[m]) < Left(calls[n]))'
    <3>1. PICK d : d = calls'[m]
      OBVIOUS
    <3>2. f[m] \in Live /\ d = calls[f[m]] /\ (m < n => f[m] < j) /\ (n < m => j < f[m])
      BY <1>2, <2>2, <3>1
    <3>3. /\ m < n => Left(d) <= Left(c)
          /\ n < m => Left(d) < Left(c)
      <4>1. /\ f[m] < j => Left(d) <= Left(c)
            /\ f[m] > j => Left(d) < Left(c)
        BY <2>1, <2>3, <3>2 DEF FinishesLast
      <4>2. f[m] \in Nat /\ j \in Nat
        BY <3>2, LiveMoves
      <4>. QED  BY <3>2, <4>1, <4>2
    <3>4. Left(d)' = Left(d) /\ Left(c)' = Left(c)
      BY <1>5, <1>6, <2>3, <3>2
    <3>5. Left(calls[m])' = Left(d)' /\ Left(calls[n])' = Left(c)'
      BY <2>4, <3>1 DEF Left
    <3>6. m \in Nat /\ n \in Nat
      BY LiveMoves
    <3>. QED  BY <3>3, <3>4, <3>5, <3>6
  <2>7. FinishesLast(n)'
    BY <2>6 DEF FinishesLast
  <2>. QED  BY <2>5, <2>7 DEF Catching
<1>. QED  BY <1>1, <1>3, <1>4, <1>6 DEF ViewInv

LEMMA SameCells ==
  ASSUME db'.cells = db.cells, hook' = hook
  PROVE  SameReads
<1>1. ASSUME NEW c
      PROVE  /\ Left(c)' = Left(c)
             /\ Shape(c) => Shape(c)'
  BY DEF Left, Shape, ListRows
<1>2. Shows' = Shows
  BY DEF Shows, GetRow
<1>3. ASSUME NEW c, Current(c)  PROVE Current(c)'
  BY <1>2, <1>3 DEF Current, RowsOf
<1>. QED  BY <1>1, <1>2, <1>3 DEF SameReads

-----------------------------------------------------------------------------
\* A refresh goes on. The database answers the first one first.

LEMMA FirstAnswered ==
  ASSUME IsSequence(calls), NEW k \in DOMAIN calls, Ready(k), calls[k].at \in Reading
  PROVE  \A m \in Live : k \in Nat /\ m \in Nat /\ k <= m
<1>. SUFFICES ASSUME NEW m \in Live  PROVE k \in Nat /\ m \in Nat /\ k <= m
  OBVIOUS
<1>1. \A q : IsSequence(q) => DOMAIN q \subseteq Nat
  BY DEF IsSequence
<1>2. k \in Nat /\ m \in Nat /\ m \in DOMAIN calls /\ calls[m].at \in Reading
  BY <1>1 DEF Live
<1>3. "cells" \in Scope(calls[k]) /\ "cells" \in Scope(calls[m])
  BY <1>2 DEF Scope, Reading
<1>4. ~(m < k)
  BY <1>2, <1>3, NoneBefore
<1>. QED  BY <1>2, <1>4

\* It asks for the next thing.
LEMMA RefreshMoves ==
  ASSUME IInv, ~crowded, ViewInv, NEW k \in Live, Ready(k), NEW d, Answer(k, <<d>>),
         d.by = view.of, d.at = "row", view.of # 0,
         Shape(d), Left(d) = Left(calls[k]) - 1, Current(calls[k]) => Current(d),
         db' = db, hook' = hook, view' = view, inst' = inst
  PROVE  ViewInv'
<1>1. PICK f : Moves(f, {k}, <<d>>)
  BY AnswerMoves DEF Live, IInv, CallsInOrder
<1>2. OneEffect'
  <2>1. \A c : <<d>> = <<c>> => c.at \notin Reading \/ c.by = view.of
    OBVIOUS
  <2>. QED  BY <1>1, <2>1, EffectStays DEF ViewInv, ClosedStay
<1>3. \A m \in Live : k \in Nat /\ m \in Nat /\ k <= m
  BY FirstAnswered DEF Live, IInv, CallsInOrder
<1>4. /\ \A m \in Live' :
           \/ f[m] \in Live \ {k} /\ calls'[m] = calls[f[m]]
           \/ f[m] = Len(calls) + 1 /\ d = calls'[m]
      /\ \A j \in Live \ {k} : \E m \in Live' : f[m] = j /\ calls'[m] = calls[j]
      /\ \A m, p \in Live' : m < p => f[m] < f[p]
      /\ \A m \in Live' : m \in Nat /\ f[m] \in Nat
      /\ \E m \in Live' : f[m] = Len(calls) + 1 /\ calls'[m] = d
      /\ \A m \in Live : m < Len(calls) + 1
  <2>1. \A c : <<d>> = <<c>> => d = c
    OBVIOUS
  <2>2. d.at \in Reading
    BY DEF Reading
  <2>. QED  BY <1>1, <2>1, <2>2, LiveMoves
<1>5. ASSUME NEW c
      PROVE  Left(c)' = Left(c) /\ (Shape(c) => Shape(c)') /\ (Current(c) => Current(c)')
  BY DEF Left, Shape, Current, Shows
<1>6. ASSUME NEW m \in Live'  PROVE Shape(calls[m])'
  <2>1. PICK c : c = calls'[m]
    OBVIOUS
  <2>2. Shape(c)
    BY <1>4, <2>1 DEF ViewInv
  <2>3. Shape(c)'
    BY <1>5, <2>2
  <2>. QED  BY <2>1, <2>3 DEF Shape
<1>7. PICK j \in Live : Current(calls[j]) /\ FinishesLast(j)
  BY DEF ViewInv, UpToDate, Catching
<1>8. ASSUME NEW m \in Live  PROVE Left(calls[m]) \in Nat
  BY LeftPositive DEF ViewInv
<1>9. ASSUME NEW n \in Live', Current(calls'[n]),
             \A m \in Live' : /\ m < n => Left(calls'[m]) <= Left(calls'[n])
                              /\ m > n => Left(calls'[m]) < Left(calls'[n])
      PROVE  Catching'
  <2>1. Current(calls[n])'
    <3>1. PICK c : c = calls'[n]
      OBVIOUS
    <3>2. Current(c)'
      BY <1>5, <1>9, <3>1
    <3>. QED  BY <3>1, <3>2 DEF Current
  <2>2. \A m \in Live' : Left(calls[m])' = Left(calls'[m])
    <3>1. SUFFICES ASSUME NEW m \in Live'  PROVE Left(calls[m])' = Left(calls'[m])
      OBVIOUS
    <3>2. PICK c : c = calls'[m]
      OBVIOUS
    <3>3. Left(c)' = Left(c)
      BY <1>5
    <3>. QED  BY <3>2, <3>3 DEF Left
  <2>3. FinishesLast(n)'
    BY <1>9, <2>2 DEF FinishesLast
  <2>. QED  BY <2>1, <2>3 DEF Catching
<1>10. ASSUME j = k  PROVE Catching'
  <2>1. PICK n \in Live' : f[n] = Len(calls) + 1 /\ calls'[n] = d
    BY <1>4
  <2>2. ASSUME NEW m \in Live'
        PROVE  /\ m < n => Left(calls'[m]) <= Left(d)
               /\ m > n => Left(calls'[m]) < Left(d)
    <3>1. CASE f[m] \in Live \ {k} /\ calls'[m] = calls[f[m]]
      <4>1. f[m] > k
        BY <1>3, <3>1
      <4>2. Left(calls'[m]) < Left(calls[k])
        BY <1>7, <1>10, <3>1, <4>1 DEF FinishesLast
      <4>3. Left(calls'[m]) <= Left(d)
        BY <1>8, <3>1, <4>2
      <4>4. ~(m > n)
        <5>1. f[m] < f[n] /\ (n < m => f[n] < f[m])
          BY <1>4, <2>1, <3>1
        <5>2. m \in Nat /\ n \in Nat /\ f[m] \in Nat /\ f[n] \in Nat
          BY <1>4
        <5>. QED  BY <5>1, <5>2
      <4>. QED  BY <4>3, <4>4
    <3>2. CASE f[m] = Len(calls) + 1 /\ d = calls'[m]
      <4>1. Left(d) <= Left(d)
        BY <1>8
      <4>2. ~(m > n)
        <5>1. n < m => f[n] < f[m]
          BY <1>4
        <5>2. m \in Nat /\ n \in Nat /\ f[m] \in Nat
          BY <1>4
        <5>. QED  BY <2>1, <3>2, <5>1, <5>2
      <4>. QED  BY <3>2, <4>1, <4>2
    <3>. QED  BY <1>4, <3>1, <3>2
  <2>. QED  BY <1>7, <1>9, <1>10, <2>1, <2>2
<1>11. ASSUME j # k  PROVE Catching'
  <2>1. PICK n \in Live' : f[n] = j /\ calls'[n] = calls[j]
    BY <1>4, <1>11
  <2>2. Left(d) < Left(calls[j])
    <3>1. k < j
      BY <1>3, <1>11
    <3>2. Left(calls[k]) <= Left(calls[j])
      BY <1>7, <3>1 DEF FinishesLast
    <3>. QED  BY <1>8, <3>2
  <2>3. ASSUME NEW m \in Live'
        PROVE  /\ m < n => Left(calls'[m]) <= Left(calls'[n])
               /\ m > n => Left(calls'[m]) < Left(calls'[n])
    <3>1. CASE f[m] \in Live \ {k} /\ calls'[m] = calls[f[m]]
      <4>1. /\ m < n => f[m] < j
            /\ n < m => j < f[m]
        BY <1>4, <2>1
      <4>2. m \in Nat /\ n \in Nat /\ f[m] \in Nat /\ j \in Nat
        BY <1>3, <1>4
      <4>. QED  BY <1>7, <2>1, <3>1, <4>1, <4>2 DEF FinishesLast
    <3>2. CASE d = calls'[m]
      <4>1. Left(d) <= Left(calls[j])
        BY <1>8, <2>2
      <4>. QED  BY <2>1, <2>2, <3>2, <4>1
    <3>. QED  BY <1>4, <3>1, <3>2
  <2>. QED  BY <1>7, <1>9, <2>1, <2>3
<1>. QED  BY <1>2, <1>6, <1>10, <1>11 DEF ViewInv

\* It has read everything, and the hook shows what it has read.
LEMMA RefreshEnds ==
  ASSUME IInv, ~crowded, ViewInv, NEW k \in Live, Ready(k), Answer(k, <<>>), view.of # 0,
         Left(calls[k]) = 1, NEW rows, Current(calls[k]) => rows = Shows,
         view' = [view EXCEPT !.rows = rows, !.loading = FALSE],
         db' = db, hook' = hook, inst' = inst
  PROVE  ViewInv'
<1>1. PICK f : Moves(f, {k}, <<>>)
  BY AnswerMoves DEF Live, IInv, CallsInOrder
<1>2. view'.of = view.of /\ view'.rows = rows /\ ~view'.loading
  BY DEF IInv, UiOk, Viewed
<1>3. OneEffect'
  <2>1. \A c : <<>> # <<c>>
    OBVIOUS
  <2>. QED  BY <1>1, <1>2, <2>1, EffectStays DEF ViewInv, ClosedStay
<1>4. \A m \in Live : k \in Nat /\ m \in Nat /\ k <= m
  BY FirstAnswered DEF Live, IInv, CallsInOrder
<1>5. /\ \A m \in Live' : f[m] \in Live \ {k} /\ calls'[m] = calls[f[m]]
      /\ \A j \in Live \ {k} : \E m \in Live' : f[m] = j /\ calls'[m] = calls[j]
      /\ \A m, p \in Live' : m < p => f[m] < f[p]
      /\ \A m \in Live' : m \in Nat /\ f[m] \in Nat
  <2>1. view'.of = view.of
    BY <1>2
  <2>2. \A m \in Live' : f[m] \in Live \ {k} /\ calls'[m] = calls[f[m]]
    BY <1>1, <2>1, LiveStay
  <2>3. /\ \A j \in Live \ {k} : \E m \in Live' : f[m] = j /\ calls'[m] = calls[j]
        /\ \A m, p \in Live' : m < p => f[m] < f[p]
        /\ \A m \in Live' : m \in Nat /\ f[m] \in Nat
    BY <1>1, <2>1, LiveMoves
  <2>. QED  BY <2>2, <2>3
<1>6. ASSUME NEW c
      PROVE  Left(c)' = Left(c) /\ (Shape(c) => Shape(c)') /\ (Current(c) => Current(c)')
  BY DEF Left, Shape, Current, Shows
<1>7. ASSUME NEW m \in Live'  PROVE Shape(calls[m])'
  <2>1. PICK c : c = calls'[m]
    OBVIOUS
  <2>2. Shape(c)
    BY <1>5, <2>1 DEF ViewInv
  <2>3. Shape(c)'
    BY <1>6, <2>2
  <2>. QED  BY <2>1, <2>3 DEF Shape
<1>8. PICK j \in Live : Current(calls[j]) /\ FinishesLast(j)
  BY DEF ViewInv, UpToDate, Catching
<1>9. CASE j = k
  <2>1. ASSUME NEW m \in Live'  PROVE FALSE
    <3>1. f[m] > k /\ f[m] \in Live
      BY <1>4, <1>5
    <3>2. Left(calls[f[m]]) < 1
      BY <1>8, <1>9, <3>1 DEF FinishesLast
    <3>3. Left(calls[f[m]]) \in Nat /\ Left(calls[f[m]]) > 0
      BY <3>1, LeftPositive DEF ViewInv
    <3>. QED  BY <3>2, <3>3
  <2>2. rows = Shows /\ Shows' = Shows
    BY <1>8, <1>9 DEF Shows
  <2>. QED  BY <1>2, <1>3, <2>1, <2>2 DEF ViewInv, UpToDate
<1>10. CASE j # k
  <2>1. PICK n \in Live' : f[n] = j /\ calls'[n] = calls[j]
    BY <1>5, <1>10
  <2>2. Current(calls[n])'
    <3>1. PICK c : c = calls'[n]
      OBVIOUS
    <3>2. Current(c)'
      BY <1>6, <1>8, <2>1, <3>1
    <3>. QED  BY <3>1, <3>2 DEF Current
  <2>3. ASSUME NEW m \in Live'
        PROVE  /\ m < n => (Left(calls[m]) <= Left(calls[n]))'
               /\ m > n => (Left(calls[m]) < Left(calls[n]))'
    <3>1. PICK c, d : c = calls'[n] /\ d = calls'[m]
      OBVIOUS
    <3>2. /\ m < n => f[m] < j
          /\ n < m => j < f[m]
      BY <1>5, <2>1
    <3>3. m \in Nat /\ n \in Nat /\ f[m] \in Nat /\ j \in Nat /\ f[m] \in Live
      BY <1>4, <1>5
    <3>4. /\ m < n => Left(d) <= Left(c)
          /\ m > n => Left(d) < Left(c)
      BY <1>5, <1>8, <2>1, <3>1, <3>2, <3>3 DEF FinishesLast
    <3>5. Left(d)' = Left(d) /\ Left(c)' = Left(c)
      BY <1>6
    <3>6. Left(calls[m])' = Left(d)' /\ Left(calls[n])' = Left(c)'
      BY <3>1 DEF Left
    <3>. QED  BY <3>4, <3>5, <3>6
  <2>4. FinishesLast(n)'
    BY <2>3 DEF FinishesLast
  <2>. QED  BY <1>3, <1>7, <2>2, <2>4 DEF ViewInv, Catching
<1>. QED  BY <1>9, <1>10

\* A refresh for an effect that is gone has no consequence.
LEMMA GoneRefresh ==
  ASSUME IInv, ViewInv, NEW k \in DOMAIN calls, calls[k].at \in Reading, k \notin Live,
         NEW d, NEW next, Answer(k, next), next = <<>> \/ next = Then(calls[k].by, d),
         db' = db, hook' = hook, view' = view, inst' = inst
  PROVE  ViewInv'
<1>1. inst[calls[k].by].closed
  BY DEF ViewInv, OneEffect, Live
<1>2. next = <<>>
  BY <1>1 DEF Then
<1>3. PICK f : Moves(f, {k}, <<>>)
  BY <1>2, AnswerMoves DEF IInv, CallsInOrder
<1>4. \A c : <<>> # <<c>>
  OBVIOUS
<1>5. ClosedStay
  BY DEF ClosedStay
<1>. QED  BY <1>3, <1>4, <1>5, SameCells, ViewFrame

\* The hook's space is open.
LEMMA LiveSpace ==
  ASSUME IInv, NEW k \in Live
  PROVE  calls[k].by = view.of /\ view.of \in Slot /\ ~inst[view.of].closed /\ view.of # 0
<1>1. calls[k].by = view.of /\ view.of \in Slot
  BY DEF Live, IInv, Placed
<1>2. view.of # 0 /\ shown = view.of /\ mounted = view.of
  BY <1>1, SpacesAssumption DEF IInv, UiOk, Slot
<1>. QED  BY <1>1, <1>2 DEF IInv, UiOk

\* The rows there are, and then each of them.
LEMMA ViewListDone ==
  ASSUME IInv, ~crowded, ViewInv, NEW k \in DOMAIN calls, Ready(k), ListDone(k)
  PROVE  ViewInv'
<1>1. PICK d : d = [by |-> calls[k].by, at |-> "row", todo |-> ListRows(db), got |-> {}]
  OBVIOUS
<1>2. /\ calls[k].at = "list"
      /\ IF ListRows(db) = {} THEN SetRows(calls[k].by, {}) ELSE UNCHANGED view
      /\ Answer(k, IF ListRows(db) = {} THEN <<>> ELSE Then(calls[k].by, d))
      /\ db' = db /\ inst' = inst /\ hook' = hook /\ shown' = shown
  BY <1>1 DEF ListDone
<1>3. d.by = calls[k].by /\ d.at = "row" /\ d.todo = ListRows(db) /\ d.got = {}
  BY <1>1
<1>4. CASE k \notin Live
  <2>1. view.of # calls[k].by
    BY <1>2, <1>4 DEF Live, Reading
  <2>2. view' = view
    BY <1>2, <2>1 DEF SetRows
  <2>3. PICK next : Answer(k, next) /\ (next = <<>> \/ next = Then(calls[k].by, d))
    BY <1>2
  <2>. QED  BY <1>2, <1>4, <2>2, <2>3, GoneRefresh DEF Reading
<1>5. CASE k \in Live
  <2>1. calls[k].by = view.of /\ view.of \in Slot /\ ~inst[view.of].closed /\ view.of # 0
    BY <1>5, LiveSpace
  <2>2. Shape(calls[k])
    BY <1>5, <2>1 DEF ViewInv
  <2>3. hook = "rows" /\ Left(calls[k]) = Cardinality(ListRows(db)) + 1
    BY <1>2, <2>2 DEF Shape, Left
  <2>4. CASE ListRows(db) = {}
    <3>1. Left(calls[k]) = 1
      BY <2>3, <2>4, FS_EmptySet
    <3>2. Shows = {}
      BY <2>3, <2>4 DEF Shows, View, ListRows
    <3>3. /\ Answer(k, <<>>)
          /\ view' = [view EXCEPT !.rows = {}, !.loading = FALSE]
      BY <1>2, <2>1, <2>4 DEF SetRows
    <3>. QED  BY <1>2, <1>5, <2>1, <3>1, <3>2, <3>3, RefreshEnds
  <2>5. CASE ListRows(db) # {}
    <3>1. Shape(d)
      BY <1>3, <2>3, <2>5 DEF Shape
    <3>2. Left(d) = Left(calls[k]) - 1
      <4>1. Left(d) = Cardinality(ListRows(db))
        BY <1>3 DEF Left
      <4>. QED  BY <2>3, <4>1, RowsFinite
    <3>3. Current(d)
      <4>1. Shows = View(db.cells)
        BY <2>3 DEF Shows
      <4>2. d.got \cup View(RowsOf(db, d.todo)) = View(db.cells)
        BY <1>3, AllRows
      <4>. QED  BY <4>1, <4>2 DEF Current
    <3>4. Answer(k, <<d>>) /\ view' = view
      BY <1>2, <2>1, <2>5 DEF Then
    <3>. QED  BY <1>2, <1>3, <1>5, <2>1, <3>1, <3>2, <3>3, <3>4, RefreshMoves
  <2>. QED  BY <2>4, <2>5
<1>. QED  BY <1>4, <1>5

LEMMA ViewRowDone ==
  ASSUME IInv, ~crowded, ViewInv, NEW k \in DOMAIN calls, Ready(k), RowDone(k)
  PROVE  ViewInv'
<1>1. PICK row : row = CHOOSE r \in calls[k].todo : \A q \in calls[k].todo : r <= q
  OBVIOUS
<1>2. PICK got : got = calls[k].got \cup View(GetRow(db, row))
  OBVIOUS
<1>3. PICK todo : todo = calls[k].todo \ {row}
  OBVIOUS
<1>4. PICK d : d = [by |-> calls[k].by, at |-> "row", todo |-> todo, got |-> got]
  OBVIOUS
<1>5. /\ calls[k].at = "row"
      /\ IF todo = {} THEN SetRows(calls[k].by, got) ELSE UNCHANGED view
      /\ Answer(k, IF todo = {} THEN <<>> ELSE Then(calls[k].by, d))
      /\ db' = db /\ inst' = inst /\ hook' = hook /\ shown' = shown
  BY <1>1, <1>2, <1>3, <1>4 DEF RowDone
<1>6. d.by = calls[k].by /\ d.at = "row" /\ d.todo = todo /\ d.got = got
  BY <1>4
<1>7. CASE k \notin Live
  <2>1. view.of # calls[k].by
    BY <1>5, <1>7 DEF Live, Reading
  <2>2. view' = view
    BY <1>5, <2>1 DEF SetRows
  <2>3. PICK next : Answer(k, next) /\ (next = <<>> \/ next = Then(calls[k].by, d))
    BY <1>5
  <2>. QED  BY <1>5, <1>7, <2>2, <2>3, GoneRefresh DEF Reading
<1>8. CASE k \in Live
  <2>1. calls[k].by = view.of /\ view.of \in Slot /\ ~inst[view.of].closed /\ view.of # 0
    BY <1>8, LiveSpace
  <2>2. Shape(calls[k])
    BY <1>8, <2>1 DEF ViewInv
  <2>3. row \in calls[k].todo
    <3>1. calls[k].todo \subseteq Nat /\ calls[k].todo # {}
      BY <1>5, <2>2, LeftPositive, SpacesAssumption DEF Shape
    <3>. QED  BY <1>1, <3>1, LeastNatural
  <2>4. Current(calls[k]) => got \cup View(RowsOf(db, todo)) = Shows
    BY <1>1, <1>2, <1>3, <1>5, <2>2, NextRow
  <2>5. /\ Left(calls[k]) = Cardinality(calls[k].todo)
        /\ IsFiniteSet(calls[k].todo)
        /\ Cardinality(todo) = Left(calls[k]) - 1
        /\ Left(calls[k]) \in Nat /\ IsFiniteSet(todo)
    <3>1. Left(calls[k]) = Cardinality(calls[k].todo) /\ IsFiniteSet(calls[k].todo)
      BY <1>5, <2>2, LeftPositive DEF Left
    <3>. QED  BY <1>3, <2>2, <2>3, <3>1, FS_RemoveElement, LeftPositive
  <2>6. CASE todo = {}
    <3>1. Left(calls[k]) = 1
      BY <2>5, <2>6, FS_EmptySet
    <3>2. Current(calls[k]) => got = Shows
      <4>1. View(RowsOf(db, todo)) = {}
        BY <2>6 DEF View, RowsOf
      <4>. QED  BY <2>4, <4>1
    <3>3. /\ Answer(k, <<>>)
          /\ view' = [view EXCEPT !.rows = got, !.loading = FALSE]
      BY <1>5, <2>1, <2>6 DEF SetRows
    <3>. QED  BY <1>5, <1>8, <2>1, <3>1, <3>2, <3>3, RefreshEnds
  <2>7. CASE todo # {}
    <3>1. Shape(d)
      BY <1>3, <1>5, <1>6, <2>2, <2>7 DEF Shape
    <3>2. Left(d) = Left(calls[k]) - 1
      BY <1>6, <2>5 DEF Left
    <3>3. Current(calls[k]) => Current(d)
      BY <1>6, <2>4 DEF Current
    <3>4. Answer(k, <<d>>) /\ view' = view
      BY <1>5, <2>1, <2>7 DEF Then
    <3>. QED  BY <1>5, <1>6, <1>8, <2>1, <3>1, <3>2, <3>3, <3>4, RefreshMoves
  <2>. QED  BY <2>6, <2>7
<1>. QED  BY <1>7, <1>8

-----------------------------------------------------------------------------
\* A refresh begins.

\* The newest of the refreshes has just been made.
BegunLast ==
  /\ hook \in {"rows", "row"}
  /\ \E n \in Live : /\ calls[n] = Refresh(view.of)
                     /\ \A m \in Live : m <= n /\ Shape(calls[m])

LEMMA BegunFinishesLast == IInv /\ ~crowded /\ BegunLast => Catching
<1>. SUFFICES ASSUME IInv, ~crowded, BegunLast  PROVE Catching
  OBVIOUS
<1>1. PICK n \in Live : /\ calls[n] = Refresh(view.of)
                        /\ \A m \in Live : m <= n /\ Shape(calls[m])
  BY DEF BegunLast
<1>2. \A m \in Live : m \in Nat
  BY DEF Live, IInv, CallsInOrder, IsSequence
<1>3. CASE hook = "rows"
  <2>1. calls[n].at = "list"
    BY <1>1, <1>3 DEF Refresh
  <2>2. ASSUME NEW m \in Live  PROVE Left(calls[m]) <= Left(calls[n])
    <3>1. CASE calls[m].at = "list"
      BY <2>1, <3>1, RowsFinite DEF Left
    <3>2. CASE calls[m].at # "list"
      <4>1. calls[m].todo \in SUBSET ListRows(db)
        BY <1>1, <1>3, <3>2 DEF Shape
      <4>2. /\ Cardinality(calls[m].todo) \in Nat
            /\ Cardinality(calls[m].todo) <= Cardinality(ListRows(db))
        BY <4>1, RowsFinite, FS_Subset, FS_CardinalityType
      <4>. QED  BY <2>1, <3>2, <4>2, RowsFinite DEF Left
    <3>. QED  BY <3>1, <3>2
  <2>3. \A m \in Live : ~(m > n)
    BY <1>1, <1>2
  <2>. QED  BY <2>1, <2>2, <2>3 DEF Catching, Current, FinishesLast
<1>4. CASE hook # "rows"
  <2>1. calls[n].at = "row" /\ calls[n].todo = {TheRow} /\ calls[n].got = {}
    BY <1>1, <1>4 DEF Refresh
  <2>2. ASSUME NEW m \in Live  PROVE Left(calls[m]) = 1
    <3>1. calls[m].at # "list" /\ calls[m].todo = {TheRow}
      BY <1>1, <1>4 DEF Shape
    <3>. QED  BY <3>1, FS_Singleton DEF Left
  <2>3. \A m \in Live : ~(m > n)
    BY <1>1, <1>2
  <2>4. Current(calls[n])
    <3>1. Shows = View(RowsOf(db, {TheRow}))
      BY <1>4, OneRow DEF Shows
    <3>. QED  BY <2>1, <3>1 DEF Current
  <2>. QED  BY <2>2, <2>3, <2>4 DEF Catching, FinishesLast
<1>. QED  BY <1>3, <1>4

\* A commit leaves the rows that were there, or deletes rows their tombstones
\* hide while no refresh for the hook is under way.
LEMMA Committed ==
  ASSUME IInv, ~crowded, ~swept', NEW k \in DOMAIN calls, WriteDone(k)
  PROVE  LET c == calls[k]
         IN  /\ Answer(k, IF Concerns(c.by, c.ops) THEN Then(c.by, Refresh(c.by)) ELSE <<>>)
             /\ inst' = inst /\ hook' = hook /\ view' = view /\ crowded' = crowded
             /\ \A j \in Slot : Acting(j) /\ ~inst[j].closed => j = c.by
             /\ \/ Collects(c)
                \/ db'.cells = db.cells
                \/ db'.cells = PutWinners(db.cells, BatchOf(c.by, c.ops).winners)
<1>1. PICK c : c = calls[k]
  OBVIOUS
<1>2. c.at = "write" /\ WorkOk(c)
  BY <1>1 DEF IInv, WriteDone
<1>3. PICK puts : c.txs = <<puts>>
  BY <1>2 DEF WorkOk
<1>4. Head(c.txs) = puts /\ Tail(c.txs) = <<>>
  BY <1>3
<1>5. /\ db' = Perform(db, puts)
      /\ Answer(k, IF Concerns(c.by, c.ops) THEN Then(c.by, Refresh(c.by)) ELSE <<>>)
      /\ inst' = inst /\ hook' = hook /\ view' = view /\ crowded' = crowded
      /\ ~(Entry(puts, "cleared", {}) # {} /\ Refreshing)
  BY <1>1, <1>4 DEF WriteDone, ui
<1>6. \A j \in Slot : Acting(j) /\ ~inst[j].closed => j = c.by
  BY <1>2 DEF WorkOk
<1>7. CASE Compacts(c.does)
  <2>1. PICK plan : IsPlan(plan) /\ c.txs = <<CompactPuts(plan)>>
    BY <1>2, <1>7 DEF WorkOk
  <2>2. puts = CompactPuts(plan) /\ db'.cells = KeepCells(db.cells, plan.cells)
    BY <1>3, <1>5, <2>1, CompactionPut
  <2>3. Entry(puts, "cleared", {}) = plan.cells
    BY <2>2 DEF Entry, CompactPuts
  <2>4. CASE plan.cells = {}
    <3>1. KeepCells(db.cells, {}) = db.cells
      BY DEF KeepCells
    <3>. QED  BY <1>1, <1>5, <1>6, <2>2, <2>4, <3>1
  <2>5. CASE plan.cells # {}
    <3>1. Live = {}
      BY <1>5, <2>3, <2>5 DEF Refreshing, Live, Reading
    <3>2. c.ops = {}
      BY <1>2, <1>7 DEF WorkOk, Work
    <3>3. PICK rows : /\ \A r \in rows : \E o \in GetRow(db, r) : o.column = Tombstone /\ o.value
                      /\ plan.cells = {o \in db.cells : o.row \in rows}
      BY <2>1 DEF IsPlan
    <3>4. db'.cells = {o \in db.cells : o.row \notin rows}
      <4>1. \A o \in db.cells : o.row \in rows => SameCell(o, o) /\ o \in plan.cells
        BY <3>3 DEF SameCell
      <4>2. \A o \in db.cells, d \in plan.cells : SameCell(o, d) => o.row \in rows
        BY <3>3 DEF SameCell
      <4>3. KeepCells(db.cells, plan.cells) = {o \in db.cells : o.row \notin rows}
        BY <4>1, <4>2 DEF KeepCells
      <4>. QED  BY <2>2, <4>3
    <3>5. Collects(c)
      BY <3>1, <3>2, <3>3, <3>4 DEF Collects
    <3>. QED  BY <1>1, <1>5, <1>6, <3>5
  <2>. QED  BY <2>4, <2>5
<1>8. CASE ~Compacts(c.does)
  <2>1. puts = BatchPuts(BatchOf(c.by, c.ops))
    BY <1>2, <1>3, <1>8 DEF WorkOk
  <2>2. db'.cells = PutWinners(db.cells, BatchOf(c.by, c.ops).winners)
    BY <1>5, <2>1, BatchPut
  <2>. QED  BY <1>1, <1>5, <1>6, <2>2
<1>. QED  BY <1>7, <1>8

\* Rows their tombstones hide were not shown.
LEMMA HiddenGo ==
  ASSUME NEW c, Collects(c), hook' = hook
  PROVE  Shows' = Shows
<1>1. PICK rows :
        /\ \A r \in rows : \E o \in GetRow(db, r) : o.column = Tombstone /\ o.value
        /\ db'.cells = {o \in db.cells : o.row \notin rows}
  BY DEF Collects
<1>2. PICK A, B : A = db.cells /\ B = db'.cells
  OBVIOUS
<1>3. /\ B = {o \in A : o.row \notin rows}
      /\ \A r \in rows : Hidden(A, r)
      /\ \A r : r \notin rows => (Hidden(B, r) <=> Hidden(A, r))
  BY <1>1, <1>2 DEF GetRow, Hidden
<1>4. View(B) = View(A)
  BY <1>3 DEF View
<1>5. \A d : View(GetRow(d, TheRow)) = {o \in View(d.cells) : o.row = TheRow}
  BY DEF View, GetRow, Hidden
<1>6. View(GetRow(db', TheRow)) = View(GetRow(db, TheRow))
  BY <1>2, <1>4, <1>5
<1>. QED  BY <1>2, <1>4, <1>6 DEF Shows

\* A commit that does not concern the hook leaves what it shows.
LEMMA Unconcerned ==
  ASSUME IInv, ~crowded, ~swept', NEW k \in DOMAIN calls, WriteDone(k),
         hook \in {"rows", "row"}, ~Collects(calls[k]),
         ~Concerns(calls[k].by, calls[k].ops), view.of = calls[k].by
  PROVE  SameReads
<1>1. PICK c : c = calls[k]
  OBVIOUS
<1>2. PICK W : W = BatchOf(c.by, c.ops).winners
  OBVIOUS
<1>3. /\ hook' = hook /\ ListRows(db) \subseteq ListRows(db')
      /\ db'.cells = db.cells \/ db'.cells = PutWinners(db.cells, W)
  <2>1. hook' = hook /\ (db'.cells = db.cells \/ db'.cells = PutWinners(db.cells, W))
    BY <1>1, <1>2, Committed
  <2>. QED  BY <2>1 DEF ListRows, PutWinners, SameCell
<1>4. \A o \in W : \E p \in c.ops : SameCell(o, p)
  BY <1>2 DEF BatchOf
<1>5. CASE hook = "rows"
  <2>1. c.ops = {}
    BY <1>1, <1>5 DEF Concerns
  <2>2. W = {}
    BY <1>4, <2>1
  <2>3. db'.cells = db.cells
    BY <1>3, <2>2 DEF PutWinners
  <2>. QED  BY <1>3, <2>3, SameCells
<1>6. CASE hook = "row"
  <2>1. \A o \in W : o.row # TheRow
    BY <1>1, <1>4, <1>6 DEF Concerns, SameCell
  <2>2. GetRow(db', TheRow) = GetRow(db, TheRow)
    BY <1>3, <2>1 DEF GetRow, PutWinners, SameCell
  <2>3. Shows' = Shows
    BY <1>3, <1>6, <2>2 DEF Shows
  <2>4. ASSUME NEW c1, Shape(c1)
        PROVE  Shape(c1)' /\ Left(c1)' = Left(c1)
    BY <1>3, <1>6, <2>4 DEF Shape, Left
  <2>5. ASSUME NEW c1, Shape(c1), Current(c1)  PROVE Current(c1)'
    <3>1. c1.at = "row" => c1.todo = {TheRow}
      BY <1>6, <2>5 DEF Shape
    <3>2. c1.at = "row" => RowsOf(db', c1.todo) = RowsOf(db, c1.todo)
      BY <2>2, <3>1, OneRow
    <3>. QED  BY <2>3, <2>5, <3>2 DEF Current
  <2>. QED  BY <2>3, <2>4, <2>5 DEF SameReads
<1>. QED  BY <1>5, <1>6

\* A commit begins a refresh, which will finish last, where it concerns the hook.
LEMMA ViewWriteDone ==
  ASSUME IInv, IInv', ~crowded, ~swept', ViewInv, NEW k \in DOMAIN calls, WriteDone(k)
  PROVE  ViewInv'
<1>1. PICK c : c = calls[k]
  OBVIOUS
<1>2. PICK i : i = c.by
  OBVIOUS
<1>3. /\ Answer(k, IF Concerns(i, c.ops) THEN Then(i, Refresh(i)) ELSE <<>>)
      /\ inst' = inst /\ hook' = hook /\ view' = view /\ crowded' = crowded
      /\ \A j \in Slot : Acting(j) /\ ~inst[j].closed => j = i
  BY <1>1, <1>2, Committed
<1>4. c.at = "write" /\ WorkOk(c) /\ i \in Slot
  BY <1>1, <1>2 DEF IInv, WriteDone, Placed
<1>5. k \notin Live
  BY <1>1, <1>4 DEF Live, Reading
<1>6. ClosedStay
  BY <1>3 DEF ClosedStay
<1>0. ASSUME Collects(c)  PROVE ViewInv'
  <2>1. ~Concerns(i, c.ops) /\ Live = {}
    BY <1>0 DEF Collects, Concerns
  <2>2. PICK f : Moves(f, {k}, <<>>)
    BY <1>3, <2>1, AnswerMoves DEF IInv, CallsInOrder
  <2>3. /\ \A d : <<>> # <<d>>
        /\ \A d : <<>> = <<d>> => d.at \notin Reading \/ d.by = view.of
    OBVIOUS
  <2>4. OneEffect'
    BY <1>3, <1>6, <2>2, <2>3, EffectStays DEF ViewInv
  <2>5. view'.of = view.of
    BY <1>3
  <2>6. Live' = {}
    BY <2>1, <2>2, <2>5, LiveStay
  <2>7. Shows' = Shows
    BY <1>0, <1>3, HiddenGo
  <2>8. view.of # 0 => UpToDate
    BY <2>1 DEF ViewInv, Catching
  <2>. QED  BY <1>3, <2>4, <2>6, <2>7, <2>8 DEF ViewInv, UpToDate
<1>7. CASE ~Concerns(i, c.ops) /\ ~Collects(c)
  <2>1. PICK f : Moves(f, {k}, <<>>)
    BY <1>3, <1>7, AnswerMoves DEF IInv, CallsInOrder
  <2>2. \A d : <<>> # <<d>>
    OBVIOUS
  <2>3. CASE view.of = 0
    <3>1. OneEffect'
      BY <1>3, <1>6, <2>1, <2>2, EffectStays DEF ViewInv
    <3>. QED  BY <1>3, <2>3, <3>1 DEF ViewInv
  <2>4. CASE view.of # 0
    <3>1. view.of = i
      <4>1. view.of \in Slot /\ ~inst[view.of].closed /\ Acting(view.of)
        BY <2>4, SpacesAssumption DEF IInv, UiOk, Acting, Slot
      <4>. QED  BY <1>3, <4>1
    <3>2. SameReads
      BY <1>1, <1>2, <1>7, <3>1, Unconcerned DEF ViewInv
    <3>. QED  BY <1>3, <1>5, <1>6, <2>1, <2>2, <3>2, ViewFrame
  <2>. QED  BY <2>3, <2>4
<1>8. CASE Concerns(i, c.ops) /\ ~Collects(c)
  <2>0. ListRows(db) \subseteq ListRows(db')
    <3>1. \/ db'.cells = db.cells
          \/ db'.cells = PutWinners(db.cells, BatchOf(c.by, c.ops).winners)
      BY <1>1, <1>8, Committed
    <3>. QED  BY <3>1 DEF ListRows, PutWinners, SameCell
  <2>1. view.of = i /\ ~inst[i].closed
    BY <1>4, <1>8, SpacesAssumption DEF Concerns, IInv, UiOk, Slot
  <2>2. PICK r : r = Refresh(i)
    OBVIOUS
  <2>3. Answer(k, <<r>>)
    BY <1>3, <1>8, <2>1, <2>2 DEF Then
  <2>4. PICK f : Moves(f, {k}, <<r>>)
    BY <2>3, AnswerMoves DEF IInv, CallsInOrder
  <2>5. \A d : <<r>> = <<d>> => d = r
    OBVIOUS
  <2>6. r.by = view.of /\ r.at \in Reading
    BY <2>1, <2>2 DEF Refresh, Reading
  <2>7. OneEffect'
    BY <1>3, <1>6, <2>4, <2>5, <2>6, EffectStays DEF ViewInv
  <2>8. /\ \A m \in Live' :
             \/ f[m] \in Live /\ calls'[m] = calls[f[m]]
             \/ f[m] = Len(calls) + 1 /\ r = calls'[m]
        /\ \A m, p \in Live' : m < p => f[m] < f[p]
        /\ \A m \in Live' : m \in Nat /\ f[m] \in Nat
        /\ \A m \in Live : m < Len(calls) + 1
        /\ \E m \in Live' : f[m] = Len(calls) + 1 /\ calls'[m] = r
    BY <1>3, <2>4, <2>5, <2>6, LiveMoves
  <2>9. PICK n \in Live' : f[n] = Len(calls) + 1 /\ calls'[n] = r
    BY <2>8
  <2>10. ASSUME NEW m \in Live'  PROVE m <= n /\ Shape(calls[m])'
    <3>1. m <= n
      <4>1. f[m] <= f[n]
        BY <2>8, <2>9
      <4>2. n < m => f[n] < f[m]
        BY <2>8
      <4>3. m \in Nat /\ n \in Nat /\ f[m] \in Nat /\ f[n] \in Nat
        BY <2>8
      <4>. QED  BY <4>1, <4>2, <4>3
    <3>2. PICK d : d = calls'[m]
      OBVIOUS
    <3>3. Shape(d)'
      <4>1. CASE f[m] \in Live /\ d = calls[f[m]]
        <5>1. Shape(d)
          BY <2>1, <4>1, <1>4, SpacesAssumption DEF ViewInv, Slot
        <5>. QED  BY <1>3, <2>0, <5>1 DEF Shape
      <4>2. CASE d = Refresh(i)
        BY <1>3, <4>2 DEF Shape, Refresh, ViewInv
      <4>. QED  BY <2>2, <2>8, <3>2, <4>1, <4>2
    <3>4. Shape(calls[m])'
      BY <3>2, <3>3 DEF Shape
    <3>. QED  BY <3>1, <3>4
  <2>11. BegunLast'
    <3>1. calls'[n] = Refresh(view.of)'
      BY <1>3, <2>1, <2>2, <2>9 DEF Refresh
    <3>. QED  BY <1>3, <2>10, <3>1 DEF BegunLast, ViewInv
  <2>12. Catching'
    <3>1. ~crowded'
      BY <1>3
    <3>. QED  BY <2>11, <3>1, BegunFinishesLast, PTL
  <2>. QED  BY <1>3, <2>7, <2>10, <2>12 DEF ViewInv
<1>. QED  BY <1>0, <1>7, <1>8

\* The effect runs for a space nothing has been read for.
LEMMA ViewRunEffect ==
  ASSUME IInv, IInv', ~crowded, ViewInv, RunEffect
  PROVE  ViewInv'
<1>1. /\ Make(Refresh(shown)) /\ view' = [of |-> shown, rows |-> {}, loading |-> TRUE]
      /\ view.of # shown
      /\ db' = db /\ inst' = inst /\ hook' = hook /\ shown' = shown
  BY DEF RunEffect
<1>2. view.of = 0 /\ shown # 0 /\ view'.of = shown /\ ~inst[shown].closed
  BY <1>1 DEF IInv, UiOk
<1>3. PICK r : r = Refresh(shown)
  OBVIOUS
<1>4. PICK f : Moves(f, {}, <<r>>)
  BY <1>1, <1>3, MakeMoves DEF IInv, CallsInOrder
<1>5. \A d : <<r>> = <<d>> => d = r
  OBVIOUS
<1>6. r.by = shown /\ r.at \in Reading
  BY <1>3 DEF Refresh, Reading
<1>7. ASSUME NEW m \in DOMAIN calls'
      PROVE  \/ f[m] \in DOMAIN calls /\ calls'[m] = calls[f[m]]
             \/ f[m] = Len(calls) + 1 /\ calls'[m] = r
  BY <1>4, <1>5 DEF Moves
<1>8. ASSUME NEW j \in DOMAIN calls, calls[j].at \in Reading
      PROVE  inst[calls[j].by].closed
  <2>1. calls[j].by \in Slot
    BY DEF IInv, Placed
  <2>. QED  BY <1>2, <1>8, <2>1 DEF ViewInv, OneEffect, Slot
<1>9. OneEffect'
  BY <1>1, <1>2, <1>6, <1>7, <1>8 DEF OneEffect, Reading
<1>10. ASSUME NEW m \in Live'
       PROVE  m \in DOMAIN calls' /\ f[m] = Len(calls) + 1 /\ calls'[m] = r
  <2>1. m \in DOMAIN calls' /\ calls'[m].by = shown /\ calls'[m].at \in Reading
    BY <1>2 DEF Live, Reading
  <2>. QED  BY <1>2, <1>7, <1>8, <2>1
<1>11. PICK n \in DOMAIN calls' : f[n] = Len(calls) + 1 /\ calls'[n] = r
  BY <1>4, <1>5 DEF Moves
<1>12. n \in Live'
  BY <1>2, <1>6, <1>11 DEF Live, Reading
<1>13. ASSUME NEW m \in Live'  PROVE m <= n /\ Shape(calls[m])'
  <2>1. \A q : IsSequence(q) => DOMAIN q \subseteq Nat /\ Len(q) \in Nat
    BY DEF IsSequence
  <2>2. m \in Nat /\ n \in Nat /\ Len(calls) + 1 \in Nat
    BY <1>4, <1>10, <1>11, <2>1 DEF Moves
  <2>3. n < m => f[n] < f[m]
    BY <1>4, <1>10, <1>11 DEF Moves
  <2>4. m <= n
    BY <1>10, <1>11, <2>2, <2>3
  <2>5. Shape(r)'
    BY <1>1, <1>3 DEF Shape, Refresh, ViewInv
  <2>6. Shape(calls[m])'
    BY <1>10, <2>5 DEF Shape
  <2>. QED  BY <2>4, <2>6
<1>14. BegunLast'
  <2>1. calls'[n] = Refresh(view.of)'
    BY <1>1, <1>2, <1>3, <1>11 DEF Refresh
  <2>. QED  BY <1>1, <1>12, <1>13, <2>1 DEF BegunLast, ViewInv
<1>15. Catching'
  <2>1. ~crowded'
    BY DEF RunEffect, history
  <2>. QED  BY <1>14, <2>1, BegunFinishesLast, PTL
<1>. QED  BY <1>1, <1>9, <1>13, <1>15 DEF ViewInv

-----------------------------------------------------------------------------
\* The other steps.

\* Calls that are not a hook's are answered, or made.
LEMMA ViewAnswered ==
  ASSUME IInv, ViewInv, NEW k \in DOMAIN calls, calls[k].at \notin Reading,
         NEW next, Answer(k, next),
         next = <<>> \/ \E c : next = <<c>> /\ c.at \notin Reading,
         db'.cells = db.cells, hook' = hook, view' = view, ClosedStay
  PROVE  ViewInv'
<1>1. next = <<>> \/ \E c : next = <<c>>
  OBVIOUS
<1>2. PICK f : Moves(f, {k}, next)
  BY <1>1, AnswerMoves DEF IInv, CallsInOrder
<1>3. {k} \cap Live = {}
  BY DEF Live
<1>4. ASSUME NEW c, next = <<c>>  PROVE c.at \notin Reading
  BY <1>4
<1>. QED  BY <1>2, <1>3, <1>4, SameCells, ViewFrame

LEMMA ViewMade ==
  ASSUME IInv, ViewInv, NEW c, c.at \notin Reading, Make(c) \/ calls' = calls,
         db'.cells = db.cells, hook' = hook, view' = view, ClosedStay
  PROVE  ViewInv'
<1>1. {} \cap Live = {}
  OBVIOUS
<1>2. CASE Make(c)
  <2>1. PICK f : Moves(f, {}, <<c>>)
    BY <1>2, MakeMoves DEF IInv, CallsInOrder
  <2>2. \A d : <<c>> = <<d>> => d.at \notin Reading
    OBVIOUS
  <2>. QED  BY <1>1, <2>1, <2>2, SameCells, ViewFrame
<1>3. CASE calls' = calls
  <2>1. PICK f : Moves(f, {}, <<>>)
    BY <1>3, NothingMoves DEF IInv, CallsInOrder
  <2>2. \A d : <<>> = <<d>> => d.at \notin Reading
    OBVIOUS
  <2>. QED  BY <1>1, <2>1, <2>2, SameCells, ViewFrame
<1>. QED  BY <1>2, <1>3

\* A space that is opening is not closed.
LEMMA ViewOpening ==
  ASSUME IInv, ViewInv, NEW k \in DOMAIN calls,
         \/ OpenDb(k) \/ GetKey(k) \/ SetKey(k)
         \/ CallFactory(k) \/ MakeTransport(k) \/ Finish(k) \/ OpenFails(k)
  PROVE  ViewInv'
<1>1. calls[k].at \in Opening /\ calls[k].at \notin Reading
  BY DEF OpenDb, GetKey, SetKey, CallFactory, MakeTransport, Finish, OpenFails, Opening,
         Loading, Reading
<1>2. PICK next : /\ Answer(k, next)
                  /\ next = <<>> \/ \E c : next = <<c>> /\ c.at \notin Reading
  <2>1. \A i, at : Call(i, at).at = at
    BY DEF Call
  <2>2. CASE OpenDb(k)
    <3>1. Answer(k, <<Call(calls[k].by, "getKey")>>)
      BY <2>2 DEF OpenDb
    <3>. QED  BY <2>1, <3>1 DEF Reading
  <2>3. CASE GetKey(k)
    <3>1. PICK at \in {"getClock", "setKey"} : Answer(k, <<Call(calls[k].by, at)>>)
      BY <2>3 DEF GetKey
    <3>2. Call(calls[k].by, at).at \notin Reading
      BY <2>1 DEF Reading
    <3>. QED  BY <3>1, <3>2
  <2>4. CASE SetKey(k)
    <3>1. Answer(k, <<Call(calls[k].by, "getClock")>>)
      BY <2>4 DEF SetKey
    <3>. QED  BY <2>1, <3>1 DEF Reading
  <2>5. CASE MakeTransport(k)
    <3>1. Answer(k, <<Call(calls[k].by, "hello")>>)
      BY <2>5 DEF MakeTransport
    <3>. QED  BY <2>1, <3>1 DEF Reading
  <2>7. CASE CallFactory(k)
    <3>1. Answer(k, <<Call(calls[k].by, "make")>>)
      BY <2>7 DEF CallFactory
    <3>. QED  BY <2>1, <3>1 DEF Reading
  <2>6. CASE Finish(k) \/ OpenFails(k)
    <3>1. Answer(k, <<>>)
      BY <2>6 DEF Finish, OpenFails
    <3>. QED  BY <3>1
  <2>. QED  BY <2>2, <2>3, <2>4, <2>5, <2>6, <2>7
<1>3. db'.cells = db.cells /\ hook' = hook /\ view' = view
  <2>1. CASE SetKey(k)
    BY <2>1, MetaPut DEF SetKey, ui
  <2>2. CASE \/ OpenDb(k) \/ GetKey(k) \/ CallFactory(k) \/ MakeTransport(k)
             \/ Finish(k) \/ OpenFails(k)
    BY <2>2 DEF OpenDb, GetKey, CallFactory, MakeTransport, Finish, OpenFails, ui
  <2>. QED  BY <2>1, <2>2
<1>4. PICK i : i = calls[k].by
  OBVIOUS
<1>5. i \in Slot /\ ~inst[i].closed /\ inst \in [Slot -> Opened]
  BY <1>1, <1>4 DEF IInv, TypeInv, Placed, LifeOk
<1>6. \A j \in Slot \ {i} : inst'[j] = inst[j]
  <2>1. inst' = inst \/ \E new : inst' = [inst EXCEPT ![i] = new]
    <3>1. CASE OpenDb(k) \/ SetKey(k)
      BY <3>1 DEF OpenDb, SetKey
    <3>2. CASE GetKey(k)
      <4>1. PICK key : inst' = [inst EXCEPT ![i].key = key]
        BY <1>4, <3>2 DEF GetKey
      <4>2. inst' = [inst EXCEPT ![i] = [inst[i] EXCEPT !.key = key]]
        BY <1>5, <4>1
      <4>. QED  BY <4>2
    <3>3. CASE CallFactory(k)
      <4>1. inst' = [inst EXCEPT ![i] = [MadeBefore(k) EXCEPT !.started = @ + 1]]
        BY <1>4, <3>3 DEF CallFactory
      <4>. QED  BY <4>1
    <3>6. CASE MakeTransport(k)
      <4>1. inst' = [inst EXCEPT ![i].listening = TRUE]
        BY <1>4, <3>6 DEF MakeTransport
      <4>2. inst' = [inst EXCEPT ![i] = [inst[i] EXCEPT !.listening = TRUE]]
        BY <1>5, <4>1
      <4>. QED  BY <4>2
    <3>4. CASE Finish(k)
      <4>1. inst' = [inst EXCEPT ![i] =
                       [MadeBefore(k) EXCEPT !.at = "open", !.closed = inst[i].cancelled]]
        BY <1>4, <3>4 DEF Finish
      <4>. QED  BY <4>1
    <3>5. CASE OpenFails(k)
      <4>1. inst' = [inst EXCEPT ![i].at = "failed"]
        BY <1>4, <3>5 DEF OpenFails
      <4>2. inst' = [inst EXCEPT ![i] = [inst[i] EXCEPT !.at = "failed"]]
        BY <1>5, <4>1
      <4>. QED  BY <4>2
    <3>. QED  BY <3>1, <3>2, <3>3, <3>4, <3>5, <3>6
  <2>. QED  BY <1>5, <2>1
<1>7. ClosedStay
  <2>1. \A m \in DOMAIN calls : calls[m].by \in Slot
    BY DEF IInv, Placed
  <2>. QED  BY <1>5, <1>6, <2>1 DEF ClosedStay
<1>. QED  BY <1>1, <1>2, <1>3, <1>7, ViewAnswered

\* The call of a job or a recording is answered, and the cells stay as they are.
LEMMA ViewRecording ==
  ASSUME IInv, ViewInv, NEW k \in DOMAIN calls,
         ReadDone(k) \/ WriteFails(k) \/ GetPeersDone(k) \/ SetPeersDone(k)
  PROVE  ViewInv'
<1>1. calls[k].at \notin Reading
  BY DEF ReadDone, WriteFails, GetPeersDone, SetPeersDone, Reading
<1>2. PICK next : /\ Answer(k, next)
                  /\ next = <<>> \/ \E c : next = <<c>> /\ c.at \notin Reading
  <2>1. CASE ReadDone(k)
    <3>1. PICK c : /\ c.at = "write"
                   /\ Answer(k, <<>>) \/ Answer(k, <<c>>)
      <4>. DEFINE does == calls[k].does
                  fresh == calls[k].ops \ db.ops
                  puts == IF Compacts(does) THEN CompactPuts(Plan(does))
                                           ELSE BatchPuts(BatchOf(calls[k].by, fresh))
                  write == [by |-> calls[k].by, at |-> "write", txs |-> Transactions(puts),
                            does |-> does, ops |-> fresh]
      <4>1. write.at = "write" /\ (Answer(k, <<>>) \/ Answer(k, <<write>>))
        BY <2>1 DEF ReadDone
      <4>. HIDE DEF write
      <4>. QED  BY <4>1
    <3>. QED  BY <3>1 DEF Reading
  <2>2. CASE GetPeersDone(k)
    <3>. DEFINE c == [by |-> calls[k].by, at |-> "setPeers", peer |-> calls[k].peer,
                      have |-> calls[k].have,
                      peers |-> Spread(db.peers, calls[k].peer, calls[k].have)]
    <3>1. c.at = "setPeers" /\ Answer(k, Then(calls[k].by, c))
      BY <2>2 DEF GetPeersDone
    <3>. HIDE DEF c
    <3>. QED  BY <3>1 DEF Then, Reading
  <2>3. CASE WriteFails(k) \/ SetPeersDone(k)
    <3>1. Answer(k, <<>>)
      BY <2>3 DEF WriteFails, SetPeersDone
    <3>. QED  BY <3>1
  <2>. QED  BY <2>1, <2>2, <2>3
<1>3. db'.cells = db.cells /\ hook' = hook /\ view' = view /\ inst' = inst
  <2>1. CASE SetPeersDone(k)
    BY <2>1, MetaPut DEF SetPeersDone, ui
  <2>2. CASE ReadDone(k) \/ WriteFails(k) \/ GetPeersDone(k)
    BY <2>2 DEF ReadDone, WriteFails, GetPeersDone, ui
  <2>. QED  BY <2>1, <2>2
<1>4. ClosedStay
  BY <1>3 DEF ClosedStay
<1>. QED  BY <1>1, <1>2, <1>3, <1>4, ViewAnswered

LEMMA ViewBegin ==
  ASSUME IInv, ViewInv, NEW i \in Slot, Begin(i)
  PROVE  ViewInv'
<1>1. PICK clock, does, ops :
        /\ inst' = [inst EXCEPT ![i].clock = clock]
        /\ calls' = calls \o Then(i, [by |-> i, at |-> "read", does |-> does, ops |-> ops])
  BY DEF Begin
<1>2. PICK read : read = [by |-> i, at |-> "read", does |-> does, ops |-> ops]
  OBVIOUS
<1>3. read.at \notin Reading
  BY <1>2 DEF Reading
<1>4. calls \in Seq({calls[k] : k \in DOMAIN calls})
  BY DEF IInv, CallsInOrder, IsSequence
<1>5. Make(read) \/ calls' = calls
  BY <1>1, <1>2, <1>4 DEF Then, Make
<1>6. db' = db /\ hook' = hook /\ view' = view
  BY DEF Begin, ui
<1>7. ClosedStay
  <2>1. inst \in [Slot -> Opened] /\ \A m \in DOMAIN calls : calls[m].by \in Slot
    BY DEF IInv, TypeInv, Placed
  <2>2. \A j \in Slot : inst'[j].closed = inst[j].closed
    BY <1>1, <2>1 DEF Opened
  <2>. QED  BY <2>1, <2>2 DEF ClosedStay
<1>. QED  BY <1>3, <1>5, <1>6, <1>7, ViewMade

LEMMA ViewHappens ==
  ASSUME IInv, ViewInv,
         \/ \E w \in Writes : Mutate(w)
         \/ \E does \in {"compact", "collect"} : Compact(does)
         \/ \E i \in Slot, ops \in RemoteOps : Hear(i, ops)
         \/ \E i \in Slot, r \in Recordings : Record(i, r)
         \/ UNCHANGED spaceVars
  PROVE  ViewInv'
<1>1. db' = db /\ inst' = inst /\ hook' = hook /\ view' = view
  BY DEF Mutate, Compact, Hear, Engage, Record, spaceVars, store, ui
<1>2. PICK c : c.at \notin Reading /\ (Make(c) \/ calls' = calls)
  <2>1. ASSUME NEW i \in Slot, NEW r \in Recordings, Record(i, r)
        PROVE  \E c : c.at \notin Reading /\ Make(c)
    <3>. DEFINE c == [by |-> i, at |-> "getPeers", peer |-> r.peer, have |-> r.have]
    <3>1. c.at = "getPeers" /\ Make(c)
      BY <2>1 DEF Record
    <3>. HIDE DEF c
    <3>. QED  BY <3>1 DEF Reading
  <2>2. ASSUME calls' = calls  PROVE \E c : c.at \notin Reading /\ calls' = calls
    <3>1. Call(0, "getKey").at \notin Reading
      BY DEF Call, Reading
    <3>. QED  BY <2>2, <3>1
  <2>3. CASE \/ \E w \in Writes : Mutate(w)
             \/ \E does \in {"compact", "collect"} : Compact(does)
             \/ \E i \in Slot, ops \in RemoteOps : Hear(i, ops)
             \/ UNCHANGED spaceVars
    <3>1. calls' = calls
      BY <2>3 DEF Mutate, Compact, Hear, Engage, spaceVars, store
    <3>. QED  BY <2>2, <3>1
  <2>. QED  BY <2>1, <2>3
<1>3. ClosedStay
  BY <1>1 DEF ClosedStay
<1>. QED  BY <1>1, <1>2, <1>3, ViewMade

\* A space that is opened anew has no calls left from before.
LEMMA ViewMount ==
  ASSUME IInv, ViewInv, NEW i \in Slot, Mount(i)
  PROVE  ViewInv'
<1>1. /\ \A k \in DOMAIN calls : calls[k].by # i
      /\ inst' = [inst EXCEPT ![i] = [Unused EXCEPT !.at = "opening"]]
      /\ Make(Call(i, "openDb"))
      /\ db' = db /\ hook' = hook /\ view' = view
  BY DEF Mount, Reusable
<1>2. ClosedStay
  <2>1. inst \in [Slot -> Opened] /\ \A m \in DOMAIN calls : calls[m].by \in Slot
    BY DEF IInv, TypeInv, Placed
  <2>. QED  BY <1>1, <2>1 DEF ClosedStay
<1>3. Call(i, "openDb").at \notin Reading
  BY DEF Call, Reading
<1>. QED  BY <1>1, <1>2, <1>3, ViewMade

\* The hooks' space closes with them.
LEMMA ViewUnmount ==
  ASSUME IInv, ViewInv, Unmount
  PROVE  ViewInv'
<1>1. /\ calls' = calls /\ hook' = hook /\ view' = NoView /\ mounted # 0
      /\ inst' = [inst EXCEPT ![mounted] =
                    [@ EXCEPT !.cancelled = TRUE, !.closed = (shown = mounted)]]
  BY DEF Unmount, store
<1>2. view'.of = 0
  BY <1>1 DEF NoView
<1>3. ASSUME NEW k \in DOMAIN calls, calls[k].at \in Reading
      PROVE  inst'[calls[k].by].closed
  <2>1. inst \in [Slot -> Opened] /\ calls[k].by \in Slot /\ mounted \in Slot
    BY <1>1, SpacesAssumption DEF IInv, TypeInv, Placed, UiOk, Slot
  <2>2. CASE calls[k].by = view.of
    <3>1. calls[k].by = shown /\ shown = mounted
      BY <2>1, <2>2, SpacesAssumption DEF IInv, UiOk, Slot
    <3>. QED  BY <1>1, <2>1, <3>1 DEF Opened
  <2>3. CASE inst[calls[k].by].closed
    <3>1. calls[k].by # mounted
      BY <1>1, <2>3 DEF IInv, UiOk
    <3>. QED  BY <1>1, <2>1, <2>3, <3>1
  <2>. QED  BY <1>3, <2>2, <2>3 DEF ViewInv, OneEffect
<1>4. OneEffect'
  BY <1>1, <1>3 DEF OneEffect, Reading
<1>. QED  BY <1>1, <1>2, <1>4 DEF ViewInv

LEMMA ViewNothing ==
  hook \in {"rows", "row"} /\ calls = <<>> /\ view = NoView => ViewInv
<1>. SUFFICES ASSUME hook \in {"rows", "row"}, calls = <<>>, view = NoView  PROVE ViewInv
  OBVIOUS
<1>1. view.of = 0 /\ DOMAIN calls = {}
  BY DEF NoView
<1>. QED  BY <1>1 DEF ViewInv, OneEffect

LEMMA ViewCrash ==
  ASSUME ViewInv, Crash
  PROVE  ViewInv'
<1>1. (hook \in {"rows", "row"} /\ calls = <<>> /\ view = NoView)'
  BY DEF Crash, ViewInv
<1>. QED  BY <1>1, ViewNothing, PTL

\* Nothing forgets that two engines were at work, or rows collected.
LEMMA OnceExcused ==
  ASSUME IInv, [SpacesNext]_spaceVars
  PROVE  (crowded => crowded') /\ (swept => swept')
<1>1. CASE Running
  <2>1. ASSUME NEW k \in DOMAIN calls, Serve(k)
        PROVE  (crowded => crowded') /\ (swept => swept')
    <3>1. CASE WriteDone(k)
      BY <3>1 DEF WriteDone
    <3>2. CASE SetPeersDone(k)
      BY <3>2 DEF SetPeersDone
    <3>3. CASE OpenDb(k) \/ GetKey(k) \/ SetKey(k)
      BY <3>3 DEF OpenDb, GetKey, SetKey, history
    <3>4. CASE CallFactory(k) \/ MakeTransport(k) \/ Finish(k)
      BY <3>4 DEF CallFactory, MakeTransport, Finish, history
    <3>5. CASE ReadDone(k) \/ GetPeersDone(k)
      BY <3>5 DEF ReadDone, GetPeersDone, history
    <3>6. CASE ListDone(k) \/ RowDone(k)
      <4>1. UNCHANGED history
        BY <3>6 DEF ListDone, RowDone
      <4>. QED  BY <4>1 DEF history
    <3>. QED  BY <2>1, <3>1, <3>2, <3>3, <3>4, <3>5, <3>6 DEF Serve
  <2>2. ASSUME NEW i \in Slot, Begin(i)  PROVE UNCHANGED history
    BY <2>2 DEF Begin
  <2>3. ASSUME RunEffect  PROVE UNCHANGED history
    BY <2>3 DEF RunEffect
  <2>4. ASSUME UNCHANGED history  PROVE (crowded => crowded') /\ (swept => swept')
    BY <2>4 DEF history
  <2>. QED  BY <1>1, <2>1, <2>2, <2>3, <2>4 DEF Running
<1>2. CASE Failing
  BY <1>2 DEF Failing, OpenFails, WriteFails, history
<1>3. CASE Happening
  <2>0. Remember => (crowded => crowded')
    BY Zenon DEF Remember
  <2>1. CASE \E i \in Slot : Mount(i)
    <3>1. Remember /\ swept' = swept
      BY <2>1 DEF Mount
    <3>. QED  BY <2>0, <3>1
  <2>2. CASE Unmount \/ Crash
    BY <2>2 DEF Unmount, Crash, history
  <2>3. CASE \/ \E w \in Writes : Mutate(w)
             \/ \E does \in {"compact", "collect"} : Compact(does)
             \/ \E i \in Slot, ops \in RemoteOps : Hear(i, ops)
    <3>1. Remember /\ swept' = swept
      BY <2>3 DEF Mutate, Compact, Hear, Engage
    <3>. QED  BY <2>0, <3>1
  <2>4. CASE \E i \in Slot, r \in Recordings : Record(i, r)
    BY <2>4 DEF Record
  <2>. QED  BY <1>3, <2>1, <2>2, <2>3, <2>4 DEF Happening
<1>4. CASE UNCHANGED spaceVars
  BY <1>4 DEF spaceVars, history
<1>. QED  BY <1>1, <1>2, <1>3, <1>4 DEF SpacesNext

Watched == crowded \/ swept \/ ViewInv

LEMMA ViewStep == IInv /\ IInv' /\ Watched /\ [SpacesNext]_spaceVars => Watched'
<1>. SUFFICES ASSUME IInv, IInv', ViewInv, ~crowded, ~swept', [SpacesNext]_spaceVars
              PROVE  ViewInv'
  BY OnceExcused DEF Watched
<1>1. CASE Running
  <2>1. ASSUME NEW k \in DOMAIN calls, Ready(k), Serve(k)  PROVE ViewInv'
    <3>1. CASE \/ OpenDb(k) \/ GetKey(k) \/ SetKey(k)
               \/ CallFactory(k) \/ MakeTransport(k) \/ Finish(k)
      BY <3>1, ViewOpening
    <3>2. CASE ReadDone(k) \/ GetPeersDone(k) \/ SetPeersDone(k)
      BY <3>2, ViewRecording
    <3>3. CASE WriteDone(k)
      BY <3>3, ViewWriteDone
    <3>4. CASE ListDone(k) \/ RowDone(k)
      BY <2>1, <3>4, ViewListDone, ViewRowDone
    <3>. QED  BY <2>1, <3>1, <3>2, <3>3, <3>4 DEF Serve
  <2>. QED  BY <1>1, <2>1, ViewBegin, ViewRunEffect DEF Running
<1>2. CASE Failing
  <2>1. PICK k \in DOMAIN calls : Ready(k) /\ (OpenFails(k) \/ WriteFails(k))
    BY <1>2 DEF Failing
  <2>. QED  BY <2>1, ViewOpening, ViewRecording
<1>3. CASE Happening
  <2>1. CASE (\E i \in Slot : Mount(i)) \/ Unmount \/ Crash
    BY <2>1, ViewMount, ViewUnmount, ViewCrash
  <2>2. CASE \/ \E w \in Writes : Mutate(w)
             \/ \E does \in {"compact", "collect"} : Compact(does)
             \/ \E i \in Slot, ops \in RemoteOps : Hear(i, ops)
             \/ \E i \in Slot, r \in Recordings : Record(i, r)
    BY <2>2, ViewHappens
  <2>. QED  BY <1>3, <2>1, <2>2 DEF Happening
<1>4. CASE UNCHANGED spaceVars
  BY <1>4, ViewHappens
<1>. QED  BY <1>1, <1>2, <1>3, <1>4 DEF SpacesNext

\* As long as no engine had a job while another one was not closed, and no
\* deleted rows were collected while the hook was reading, once nothing is
\* under way the hook shows the rows as the database holds them, whatever was
\* committed while its refreshes were reading, and in which order they came to
\* their ends (useRows, useRow, and the subscription of openSpace).
THEOREM ViewIsLive == SpacesSpec => []ViewSettles
<1>1. SpacesInit => Watched
  <2>1. SpacesInit => hook \in {"rows", "row"} /\ calls = <<>> /\ view = NoView
    BY DEF SpacesInit
  <2>. QED  BY <2>1, ViewNothing DEF Watched
<1>2. IInv /\ Watched => ViewSettles
  <2>. SUFFICES ASSUME IInv, ViewInv, Quiet, shown # 0
                PROVE  ~view.loading /\ view.rows = Shows
    BY DEF ViewSettles, Shows, Watched
  <2>1. \A c : c.at \in Reading => Waits(c)
    BY DEF Reading, Waits, Scope
  <2>2. view.of # 0 /\ Live = {}
    BY <2>1 DEF Quiet, Live
  <2>. QED  BY <2>2 DEF ViewInv, UpToDate, Catching
<1>3. SpacesSpec => []Watched
  BY <1>1, ViewStep, Invariance, PTL DEF SpacesSpec
<1>. QED  BY <1>2, <1>3, Invariance, PTL
=============================================================================
