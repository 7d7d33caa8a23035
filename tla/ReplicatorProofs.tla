-------------------------- MODULE ReplicatorProofs --------------------------
(***************************************************************************)
(* Theorems of Replicator, for every set of devices, every bound, either   *)
(* transport and any number of faults.                                     *)
(*                                                                         *)
(* The inductive invariant says what messages under way and waiting tasks  *)
(* may hold: stamps and ops that were issued, and frontiers that their     *)
(* sender has had. With it every step of a replicator drives the engine as *)
(* SyncEngine lets the network drive it, so that Replicator implements     *)
(* SyncEngine and inherits its theorems.                                   *)
(***************************************************************************)
EXTENDS Replicator, MergeProofs, SequenceTheorems

\* Finite sets of issued ops.
SomeIssued == {S \in SUBSET Issued : IsFiniteSet(S)}

\* What a message of s may say.
Says(s) ==
       [t : {"hello"}, clock : RemoteStamps]
  \cup [t : {"keys"}, ids : SUBSET Device]
  \cup [t : {"since", "ack"}, have : Reported(s)]
  \cup [t : {"ops"}, ops : SUBSET Issued]

\* What a task of r may hold.
Holds(r) ==
       [at : {"announce"}]
  \cup [at : {"observe"}, from : Device \ {r}, clock : RemoteStamps]
  \cup [at : {"greet", "ask", "ack"}, from : Device \ {r}]
  \cup [at : {"reply"}, from : Device \ {r}, have : Frontier]
  \cup [at : {"send"}, from : Device \ {r}, ops : SomeIssued]
  \cup [at : {"apply"}, from : Device \ {r}, ops : SomeIssued \ {{}}]

Lists ==
  /\ started \in [Device -> BOOLEAN]
  /\ peers \in [Device -> SUBSET Device]
  /\ \A r \in Device : r \notin peers[r]

Tasks ==
  /\ DOMAIN tasks = Device
  /\ \A r \in Device : tasks[r] \in Seq(Holds(r))

Links == \A l \in links : l \subseteq Device /\ Cardinality(l) = 2

Channels ==
  /\ DOMAIN chan = Device
  /\ \A s \in Device : DOMAIN chan[s] = Device /\ chan[s][s] = <<>>
  /\ \A s, d \in Device : chan[s][d] \in Seq(Says(s))

Counts == sessions \in 0 .. MaxSessions /\ faults \in 0 .. MaxFaults

NetworkInv == Lists /\ Tasks /\ Links /\ Channels /\ Counts

-----------------------------------------------------------------------------
\* Sequences.

\* A sequence of members of a set is one of any larger set.
LEMMA SeqMonotone ==
  ASSUME NEW S, NEW T, S \subseteq T, NEW q \in Seq(S)
  PROVE  q \in Seq(T)
OBVIOUS

\* One element makes a sequence.
LEMMA SeqOfOne ==
  ASSUME NEW S, NEW e \in S
  PROVE  <<e>> \in Seq(S)
OBVIOUS

\* Queues change by appending, joining, dropping and replacing.
LEMMA SeqChanges ==
  ASSUME NEW S, NEW q \in Seq(S)
  PROVE  /\ \A e \in S : Append(q, e) \in Seq(S)
         /\ \A t \in Seq(S) : q \o t \in Seq(S)
         /\ q # <<>> => Head(q) \in S /\ Tail(q) \in Seq(S)
         /\ \A i \in DOMAIN q :
              /\ q[i] \in S
              /\ RemoveAt(q, i) \in Seq(S)
              /\ \A e \in S : [q EXCEPT ![i] = e] \in Seq(S)
<1>1. ASSUME NEW i \in DOMAIN q  PROVE RemoveAt(q, i) \in Seq(S)
  <2>1. SubSeq(q, 1, i - 1) \in Seq(S) /\ SubSeq(q, i + 1, Len(q)) \in Seq(S)
    BY SubSeqProperties
  <2>. QED  BY <2>1 DEF RemoveAt
<1>2. ASSUME NEW i \in DOMAIN q, NEW e \in S  PROVE [q EXCEPT ![i] = e] \in Seq(S)
  OBVIOUS
<1>. QED  BY <1>1, <1>2

-----------------------------------------------------------------------------
\* What is issued stays issued, and so what may be said only grows.

\* What has been issued, seen or said stays so when more is applied.
LEMMA SayingsGrow ==
  ASSUME \A r \in Device : applied[r] \subseteq applied'[r]
  PROVE  /\ Issued \subseteq Issued'
         /\ RemoteStamps \subseteq RemoteStamps'
         /\ SomeIssued \subseteq SomeIssued'
         /\ \A s \in Device : Reported(s) \subseteq Reported(s)'
         /\ \A s \in Device : Says(s) \subseteq Says(s)'
         /\ \A r \in Device : Holds(r) \subseteq Holds(r)'
<1>1. Issued \subseteq Issued'
  BY DEF Issued
<1>2. RemoteStamps \subseteq RemoteStamps'
  BY <1>1 DEF RemoteStamps
<1>3. SomeIssued \subseteq SomeIssued'
  BY <1>1 DEF SomeIssued
<1>4. \A s \in Device : Reported(s) \subseteq Reported(s)'
  BY ReportsGrow
<1>5. ASSUME NEW s \in Device  PROVE Says(s) \subseteq Says(s)'
  BY <1>1, <1>2, <1>4 DEF Says
<1>6. ASSUME NEW r \in Device  PROVE Holds(r) \subseteq Holds(r)'
  BY <1>2, <1>3 DEF Holds
<1>. QED  BY <1>1, <1>2, <1>3, <1>4, <1>5, <1>6

-----------------------------------------------------------------------------
\* Messages.

\* A message carries what its kind says it does.
LEMMA SaidOf ==
  ASSUME NEW s \in Device, NEW m \in Says(s)
  PROVE  /\ m.t = "hello" => m.clock \in RemoteStamps
         /\ m.t = "keys" => m.ids \in SUBSET Device
         /\ m.t \in {"since", "ack"} => m.have \in Reported(s)
         /\ m.t = "ops" => m.ops \in SUBSET Issued
BY DEF Says

\* A replica says hello with the newest stamp of its log, which was issued.
LEMMA HelloIsSaid ==
  ASSUME IInv, NEW r \in Device
  PROVE  HelloFrom(r) \in Says(r)
<1>. DEFINE stamps == {o.stamp : o \in log[r]}
            f == [o \in log[r] |-> o.stamp]
<1>1. log[r] \subseteq applied[r] /\ log[r] \subseteq Op /\ log[r] \subseteq Issued
  BY DEF IInv, Origin, TypeOK, Issued
<1>2. CASE log[r] = {}
  BY <1>2 DEF HelloFrom, Says, RemoteStamps
<1>3. CASE log[r] # {}
  <2>1. IsFiniteSet(log[r])
    BY <1>1, FS_Subset DEF IInv, Finite
  <2>2. f \in Surjection(log[r], stamps)
    BY DEF Surjection
  <2>3. IsFiniteSet(stamps)
    BY <2>1, <2>2, FS_Surjection
  <2>4. stamps \subseteq StampOrZero /\ stamps # {}
    BY <1>1, <1>3 DEF Op, StampOrZero
  <2>5. Latest(stamps) \in stamps
    BY <2>3, <2>4, LatestIsLargest
  <2>6. Latest(stamps) \in RemoteStamps
    BY <1>1, <2>5 DEF RemoteStamps
  <2>. QED  BY <1>3, <2>6 DEF HelloFrom, Says
<1>. QED  BY <1>2, <1>3

\* The keys a replica sends are among those that may be sent.
LEMMA KeysAreSaid ==
  ASSUME TypeOK, NEW r \in Device
  PROVE  KeysFrom(r) \in Says(r)
BY DEF TypeOK, KeysFrom, Says

\* The frontier a replica has is one it may report.
LEMMA FrontierIsReported ==
  ASSUME TypeOK, FrontierExact, NEW r \in Device
  PROVE  /\ frontier[r] \in Reported(r)
         /\ [t |-> "since", have |-> frontier[r]] \in Says(r)
         /\ [t |-> "ack", have |-> frontier[r]] \in Says(r)
BY OwnFrontierIsReported DEF Says

\* Ops are sent in messages that hold some of them each.
LEMMA OpsAreSaid ==
  ASSUME NEW S, IsFiniteSet(S), NEW T, S \subseteq T
  PROVE  OpsMessages(S) \in Seq([t : {"ops"}, ops : SUBSET T])
<1>. DEFINE n == (Cardinality(S) + OpsPerMessage - 1) \div OpsPerMessage
<1>1. n \in Nat
  BY FS_CardinalityType, ReplicatorAssumption
<1>2. DOMAIN OpsMessages(S) = 1 .. n
  BY DEF OpsMessages, Chunks
<1>3. ASSUME NEW k \in 1 .. n
      PROVE  OpsMessages(S)[k] \in [t : {"ops"}, ops : SUBSET T]
  BY <1>2, <1>3 DEF OpsMessages, Chunks
<1>4. OpsMessages(S) = [k \in 1 .. n |-> OpsMessages(S)[k]]
  BY <1>2 DEF OpsMessages
<1>. DEFINE M == [t : {"ops"}, ops : SUBSET T]
<1>. HIDE DEF n, M
<1>5. OpsMessages(S) \in [1 .. n -> M]
  BY <1>3, <1>4, Zenon DEF M
<1>6. OpsMessages(S) \in Seq(M)
  BY <1>1, <1>5
<1>. QED  BY <1>6 DEF M

-----------------------------------------------------------------------------
\* Every step drives the engine as SyncEngine's network may.

\* A waiting task holds what its point in the handler says it does.
LEMMA HeldOf ==
  ASSUME NEW r \in Device, NEW k \in Holds(r)
  PROVE  /\ k.at \in {"announce", "observe", "greet", "ask", "ack", "reply", "send", "apply"}
         /\ k.at # "announce" => k.from \in Device \ {r}
         /\ k.at = "observe" => k.clock \in RemoteStamps
         /\ k.at = "reply" => k.have \in Frontier
         /\ k.at = "send" => k.ops \in SomeIssued
         /\ k.at = "apply" => k.ops \in SomeIssued \ {{}}
BY DEF Holds

\* A handler's task, and the head of a queue between two replicas.
LEMMA InHand ==
  ASSUME NetworkInv
  PROVE  /\ \A r \in Device : \A i \in DOMAIN tasks[r] : tasks[r][i] \in Holds(r)
         /\ \A s, d \in Device : chan[s][d] # <<>> =>
              s # d /\ Head(chan[s][d]) \in Says(s)
BY SeqChanges DEF NetworkInv, Tasks, Channels

\* The newest stamp of a batch is one that was issued.
LEMMA NewestIsRemote ==
  ASSUME TypeOK, NEW S \in SomeIssued \ {{}}
  PROVE  Latest({o.stamp : o \in S}) \in RemoteStamps
<1>. DEFINE stamps == {o.stamp : o \in S}
            f == [o \in S |-> o.stamp]
<1>1. S \subseteq Issued /\ IsFiniteSet(S) /\ S \subseteq Op
  BY IssuedType DEF SomeIssued
<1>2. f \in Surjection(S, stamps)
  BY DEF Surjection
<1>3. IsFiniteSet(stamps)
  BY <1>1, <1>2, FS_Surjection
<1>4. stamps \subseteq StampOrZero /\ stamps # {}
  BY <1>1 DEF Op, StampOrZero
<1>5. Latest(stamps) \in stamps
  BY <1>3, <1>4, LatestIsLargest
<1>. QED  BY <1>1, <1>5 DEF RemoteStamps

\* A step of a handler is a step of its engine, or none: each hands the engine
\* only ops, clocks and frontiers the engine's own environment may hand it.
LEMMA DrivenByTask ==
  ASSUME EngineInv, NetworkInv, NEW r \in Device, RunTask(r)
  PROVE  [Next]_vars
<1>1. PICK i \in DOMAIN tasks[r] :
        \/ Announce(r, i) \/ Observe(r, i) \/ Greet(r, i) \/ Ask(r, i)
        \/ Reply(r, i) \/ Send(r, i) \/ Apply(r, i) \/ Acknowledge(r, i)
  BY DEF RunTask
<1>2. tasks[r][i] \in Holds(r)
  BY InHand
<1>3. CASE Observe(r, i)
  <2>1. tasks[r][i].clock \in RemoteStamps
    BY <1>2, <1>3, HeldOf DEF Observe
  <2>2. Receiving(r)
    BY <1>3, <2>1 DEF Observe, Receiving
  <2>. QED  BY <2>2 DEF Next
<1>4. CASE Apply(r, i)
  <2>1. tasks[r][i].ops \in SUBSET Issued
    BY <1>2, <1>4, HeldOf DEF Apply, SomeIssued
  <2>2. Receiving(r)
    BY <1>4, <2>1 DEF Apply, Receiving
  <2>. QED  BY <2>2 DEF Next
<1>5. CASE ~Observe(r, i) /\ ~Apply(r, i)
  <2>1. UNCHANGED vars
    BY <1>1, <1>5 DEF Announce, Greet, Ask, Reply, Send, Acknowledge
  <2>. QED  BY <2>1
<1>. QED  BY <1>3, <1>4, <1>5

\* An arriving message makes the engine learn keys or record a frontier of the
\* sender, or leaves it alone.
LEMMA DrivenByMessage ==
  ASSUME EngineInv, NetworkInv, NEW s \in Device, NEW d \in Device, Arrive(s, d)
  PROVE  [Next]_vars
<1>. DEFINE m == Head(chan[s][d])
<1>1. s # d /\ m \in Says(s)
  BY InHand DEF Arrive
<1>2. \/ UNCHANGED vars
      \/ LearnKeys(d, {s})
      \/ m.t = "keys" /\ LearnKeys(d, m.ids)
      \/ m.t \in {"since", "ack"} /\ RecordPeerFrontier(d, s, m.have)
  BY DEF Arrive
<1>3. CASE LearnKeys(d, {s})
  BY <1>3 DEF Next, Receiving
<1>4. CASE m.t = "keys" /\ LearnKeys(d, m.ids)
  BY <1>1, <1>4, SaidOf DEF Next, Receiving
<1>5. CASE m.t \in {"since", "ack"} /\ RecordPeerFrontier(d, s, m.have)
  BY <1>1, <1>5, SaidOf DEF Next, Recording
<1>. QED  BY <1>2, <1>3, <1>4, <1>5

\* A handler that fails has moved the clock by a stamp that was issued, or
\* not at all.
LEMMA DrivenByFailure ==
  ASSUME EngineInv, NetworkInv, NEW r \in Device, NEW i \in DOMAIN tasks[r],
         HandlerFails(r, i)
  PROVE  [Next]_vars
<1>. DEFINE k == tasks[r][i]
            stamp == IF k.at = "observe" THEN k.clock ELSE Latest({o.stamp : o \in k.ops})
<1>1. k \in Holds(r) /\ k.at \in {"observe", "apply"}
  BY InHand DEF HandlerFails
<1>2. stamp \in RemoteStamps
  BY <1>1, HeldOf, NewestIsRemote DEF EngineInv, IInv
<1>3. PICK pt \in Times : UNCHANGED vars \/ ReceiveFails(r, stamp, pt)
  BY DEF HandlerFails
<1>. QED  BY <1>2, <1>3 DEF Next, Failing

\* Replicator drives the engine within the bounds of SyncEngine's network.
LEMMA Driven ==
  ASSUME EngineInv, NetworkInv, [ReplicatorNext]_allVars
  PROVE  [Next]_vars
<1>1. CASE UNCHANGED allVars
  BY <1>1 DEF allVars
<1>2. CASE Handling
  BY <1>2, DrivenByMessage, DrivenByTask DEF Handling
<1>3. CASE Editing
  BY <1>3 DEF Editing, Edit, Commit, Next, Writing
<1>4. CASE Connecting
  BY <1>4 DEF Connecting, Start, Connect
<1>5. CASE Disconnecting
  BY <1>5 DEF Disconnecting, Disconnect, Stop, Crash, Next, Failing
<1>6. CASE Faults
  BY <1>6, DrivenByFailure DEF Faults, Lose, Delay, Duplicate
<1>. QED  BY <1>1, <1>2, <1>3, <1>4, <1>5, <1>6 DEF ReplicatorNext

-----------------------------------------------------------------------------
\* What the network and the tasks hold after a step.

\* The history only grew in this step.
Growing == \A r \in Device : applied[r] \subseteq applied'[r]

\* No replica reaches itself: a link is between two.
LEMMA NoSelfReach ==
  ASSUME Links, NEW s \in Device
  PROVE  s \notin Reachable(s) /\ Reachable(s) \subseteq Device
<1>1. {s, s} \notin links
  <2>1. Cardinality({s, s}) = 1
    BY FS_Singleton
  <2>. QED  BY <2>1 DEF Links
<1>. QED  BY <1>1 DEF Reachable

\* Queues that change only at s get what s may say.
LEMMA QueuesKept ==
  ASSUME Channels, Growing, NEW s \in Device, NEW f,
         chan' = [chan EXCEPT ![s] = f],
         DOMAIN f = Device, f[s] = <<>>,
         \A d \in Device : f[d] \in Seq(Says(s)) \/ f[d] \in Seq(Says(s)')
  PROVE  Channels'
<1>1. \A q \in Device : Says(q) \subseteq Says(q)'
  BY SayingsGrow DEF Growing
<1>2. chan'[s] = f /\ \A q \in Device \ {s} : chan'[q] = chan[q]
  BY DEF Channels
<1>3. ASSUME NEW q \in Device, NEW d \in Device  PROVE chan'[q][d] \in Seq(Says(q)')
  <2>1. CASE q = s
    BY <1>1, <1>2, <2>1, SeqMonotone
  <2>2. CASE q # s
    BY <1>1, <1>2, <2>2, SeqMonotone DEF Channels
  <2>. QED  BY <2>1, <2>2
<1>4. DOMAIN chan' = Device
  BY DEF Channels
<1>5. \A q \in Device : DOMAIN chan'[q] = Device /\ chan'[q][q] = <<>>
  BY <1>2 DEF Channels
<1>. QED  BY <1>3, <1>4, <1>5 DEF Channels

\* send() adds only what the sender may say.
LEMMA PostKeeps ==
  ASSUME Channels, Links, Growing, NEW s \in Device, NEW dests,
         NEW msgs, msgs \in Seq(Says(s)) \/ msgs \in Seq(Says(s)'),
         Post(s, dests, msgs)
  PROVE  Channels'
<1>. DEFINE f == [d \in Device |->
                    IF d \in dests \cap Reachable(s) THEN chan[s][d] \o msgs ELSE chan[s][d]]
<1>1. chan' = [chan EXCEPT ![s] = f]
  BY DEF Post, Channels
<1>2. Says(s) \subseteq Says(s)'
  BY SayingsGrow DEF Growing
<1>3. ASSUME NEW d \in Device  PROVE f[d] \in Seq(Says(s)')
  <2>1. chan[s][d] \in Seq(Says(s)') /\ msgs \in Seq(Says(s)')
    BY <1>2, SeqMonotone DEF Channels
  <2>. QED  BY <2>1, SeqChanges
<1>4. f[s] = <<>>
  BY NoSelfReach DEF Channels
<1>. HIDE DEF f
<1>5. DOMAIN f = Device
  BY DEF f
<1>. QED  BY <1>1, <1>3, <1>4, <1>5, QueuesKept

\* What is in flight stays sayable while more is applied.
LEMMA ChannelsKept ==
  ASSUME Channels, Growing, UNCHANGED chan
  PROVE  Channels'
<1>1. \A q \in Device : Says(q) \subseteq Says(q)'
  BY SayingsGrow DEF Growing
<1>2. \A q, d \in Device : chan[q][d] \in Seq(Says(q)')
  BY <1>1, SeqMonotone DEF Channels
<1>. QED  BY <1>2 DEF Channels

\* One queue between two replicas that changes.
LEMMA QueueKept ==
  ASSUME Channels, Growing, NEW s \in Device, NEW d \in Device, s # d,
         NEW q \in Seq(Says(s)), chan' = [chan EXCEPT ![s][d] = q]
  PROVE  Channels'
<1>. DEFINE f == [chan[s] EXCEPT ![d] = q]
<1>1. chan' = [chan EXCEPT ![s] = f]
  BY DEF Channels
<1>2. DOMAIN f = Device /\ f[s] = <<>> /\ \A e \in Device : f[e] \in Seq(Says(s))
  BY DEF Channels
<1>. HIDE DEF f
<1>. QED  BY <1>1, <1>2, QueuesKept

\* The tasks of one replica that change.
LEMMA TasksChange ==
  ASSUME Tasks, Growing, NEW r \in Device, NEW q,
         q \in Seq(Holds(r)) \/ q \in Seq(Holds(r)'),
         tasks' = [tasks EXCEPT ![r] = q]
  PROVE  Tasks'
<1>1. \A d \in Device : Holds(d) \subseteq Holds(d)'
  BY SayingsGrow DEF Growing
<1>2. ASSUME NEW d \in Device  PROVE tasks'[d] \in Seq(Holds(d)')
  <2>1. CASE d = r
    <3>1. tasks'[d] = q
      BY <2>1 DEF Tasks
    <3>. QED  BY <1>1, <2>1, <3>1, SeqMonotone
  <2>2. CASE d # r
    <3>1. tasks'[d] = tasks[d]
      BY <2>2 DEF Tasks
    <3>. QED  BY <1>1, <3>1, SeqMonotone DEF Tasks
  <2>. QED  BY <2>1, <2>2
<1>. QED  BY <1>2 DEF Tasks

\* What the handlers hold stays so while more is applied.
LEMMA TasksKept ==
  ASSUME Tasks, Growing, UNCHANGED tasks
  PROVE  Tasks'
<1>1. \A d \in Device : Holds(d) \subseteq Holds(d)'
  BY SayingsGrow DEF Growing
<1>2. \A d \in Device : tasks[d] \in Seq(Holds(d)')
  BY <1>1, SeqMonotone DEF Tasks
<1>. QED  BY <1>2 DEF Tasks

\* A task is added, ends, or goes on to a point that holds its peer alone.
LEMMA AddTaskKeeps ==
  ASSUME Tasks, Growing, NEW r \in Device, NEW k \in Holds(r), AddTask(r, k)
  PROVE  Tasks'
<1>1. tasks[r] \in Seq(Holds(r))
  BY DEF Tasks
<1>2. Append(tasks[r], k) \in Seq(Holds(r))
  BY <1>1, SeqChanges
<1>. QED  BY <1>2, TasksChange DEF AddTask, Tasks

\* A handler that is done leaves the others as they were.
LEMMA EndTaskKeeps ==
  ASSUME Tasks, Growing, NEW r \in Device, NEW i \in DOMAIN tasks[r], EndTask(r, i)
  PROVE  Tasks'
<1>1. RemoveAt(tasks[r], i) \in Seq(Holds(r))
  BY SeqChanges DEF Tasks
<1>. QED  BY <1>1, TasksChange DEF EndTask, Tasks

\* A handler that goes on holds what it held.
LEMMA BecomeKeeps ==
  ASSUME Tasks, Growing, NEW r \in Device, NEW i \in DOMAIN tasks[r],
         tasks[r][i].at # "announce", NEW step \in {"greet", "ask", "ack"},
         Become(r, i, step)
  PROVE  Tasks'
<1>1. tasks[r] \in Seq(Holds(r)) /\ tasks[r][i] \in Holds(r)
  BY SeqChanges DEF Tasks
<1>2. tasks[r][i].from \in Device \ {r}
  BY <1>1, HeldOf
<1>. DEFINE k == [at |-> step, from |-> tasks[r][i].from]
<1>3. k \in Holds(r)
  BY <1>2 DEF Holds
<1>. HIDE DEF k
<1>4. [tasks[r] EXCEPT ![i] = k] \in Seq(Holds(r))
  BY <1>1, <1>3, SeqChanges
<1>5. tasks' = [tasks EXCEPT ![r] = [tasks[r] EXCEPT ![i] = k]]
  BY DEF Become, Tasks, k
<1>. QED  BY <1>4, <1>5, TasksChange

-----------------------------------------------------------------------------
\* Every step keeps the network and the tasks as they should be.

\* The steps of the handlers keep the network and the tasks.
LEMMA RunTaskKeeps ==
  ASSUME EngineInv, NetworkInv, Growing, NEW r \in Device, RunTask(r)
  PROVE  NetworkInv'
<1>. USE DEF NetworkInv
<1>1. PICK i \in DOMAIN tasks[r] :
        \/ Announce(r, i) \/ Observe(r, i) \/ Greet(r, i) \/ Ask(r, i)
        \/ Reply(r, i) \/ Send(r, i) \/ Apply(r, i) \/ Acknowledge(r, i)
  BY DEF RunTask
<1>. DEFINE k == tasks[r][i]
<1>2. k \in Holds(r)
  BY InHand
<1>3. IInv /\ TypeOK /\ FrontierExact
  BY DEF EngineInv, IInv
<1>4. /\ HelloFrom(r) \in Says(r) /\ KeysFrom(r) \in Says(r)
      /\ <<HelloFrom(r)>> \in Seq(Says(r)) /\ <<KeysFrom(r)>> \in Seq(Says(r))
  <2>1. HelloFrom(r) \in Says(r) /\ KeysFrom(r) \in Says(r)
    BY <1>3, HelloIsSaid, KeysAreSaid
  <2>. QED  BY <2>1
<1>5. CASE Announce(r, i)
  BY <1>4, <1>5, PostKeeps, EndTaskKeeps DEF Announce, Lists, Links, Counts, counts
<1>6. CASE Observe(r, i)
  <2>1. k.at # "announce" /\ k.from \in Device \ {r}
    BY <1>2, <1>6, HeldOf DEF Observe
  <2>2. Lists' /\ Links' /\ Counts'
    BY <1>6, <2>1 DEF Observe, Lists, Links, Counts, counts
  <2>3. Channels'
    BY <1>4, <1>6, PostKeeps, ChannelsKept DEF Observe
  <2>4. Tasks'
    BY <1>6, <2>1, BecomeKeeps DEF Observe
  <2>. QED  BY <2>2, <2>3, <2>4
<1>7. CASE Greet(r, i)
  <2>. DEFINE f == [d \in Device |->
                      IF d \notin Reachable(r) THEN chan[r][d]
                      ELSE IF d = k.from THEN chan[r][d] \o <<HelloFrom(r), KeysFrom(r)>>
                      ELSE Append(chan[r][d], HelloFrom(r))]
  <2>1. chan' = [chan EXCEPT ![r] = f]
    BY <1>7 DEF Greet, Channels
  <2>2. <<HelloFrom(r), KeysFrom(r)>> \in Seq(Says(r))
    BY <1>4
  <2>3. ASSUME NEW d \in Device  PROVE f[d] \in Seq(Says(r))
    <3>1. chan[r][d] \in Seq(Says(r))
      BY DEF Channels
    <3>. QED  BY <1>4, <2>2, <3>1, SeqChanges
  <2>4. f[r] = <<>>
    BY NoSelfReach DEF Channels
  <2>5. DOMAIN f = Device
    OBVIOUS
  <2>. HIDE DEF f
  <2>6. Channels'
    BY <2>1, <2>3, <2>4, <2>5, QueuesKept
  <2>7. Tasks'
    BY <1>7, BecomeKeeps DEF Greet
  <2>. QED  BY <1>7, <2>6, <2>7 DEF Greet, Lists, Links, Counts, counts
<1>8. CASE Ask(r, i)
  <2>1. <<[t |-> "since", have |-> frontier[r]]>> \in Seq(Says(r))
    BY <1>3, FrontierIsReported, SeqOfOne
  <2>. QED  BY <1>8, <2>1, PostKeeps, EndTaskKeeps DEF Ask, Lists, Links, Counts, counts
<1>9. CASE Acknowledge(r, i)
  <2>1. <<[t |-> "ack", have |-> frontier[r]]>> \in Seq(Says(r))
    BY <1>3, FrontierIsReported, SeqOfOne
  <2>. QED  BY <1>9, <2>1, PostKeeps, EndTaskKeeps
            DEF Acknowledge, Lists, Links, Counts, counts
<1>10. CASE Reply(r, i)
  <2>. DEFINE missing == OpsSince(log[r], k.have)
              next == [at |-> "send", from |-> k.from, ops |-> missing]
  <2>1. missing \in SomeIssued
    <3>1. missing \subseteq applied[r] /\ IsFiniteSet(applied[r])
      BY <1>3 DEF OpsSince, IInv, Origin, Finite
    <3>2. IsFiniteSet(missing)
      BY <3>1, FS_Subset
    <3>. QED  BY <3>1, <3>2 DEF SomeIssued, Issued
  <2>2. k.from \in Device \ {r}
    BY <1>2, <1>10, HeldOf DEF Reply
  <2>3. next \in Holds(r)
    BY <2>1, <2>2 DEF Holds
  <2>4. \/ EndTask(r, i)
        \/ tasks' = [tasks EXCEPT ![r] = [tasks[r] EXCEPT ![i] = next]]
    BY <1>10 DEF Reply, Tasks
  <2>. HIDE DEF next
  <2>5. [tasks[r] EXCEPT ![i] = next] \in Seq(Holds(r))
    BY <2>3, SeqChanges DEF Tasks
  <2>6. Tasks'
    BY <2>4, <2>5, EndTaskKeeps, TasksChange
  <2>7. UNCHANGED <<network, started, peers, counts>>
    BY <1>10 DEF Reply
  <2>. QED  BY <2>6, <2>7, ChannelsKept DEF network, Lists, Links, Counts, counts
<1>11. CASE Send(r, i)
  <2>1. k.ops \in SomeIssued
    BY <1>2, <1>11, HeldOf DEF Send
  <2>2. IsFiniteSet(k.ops) /\ k.ops \subseteq Issued
    BY <2>1 DEF SomeIssued
  <2>. DEFINE batches == [t : {"ops"}, ops : SUBSET Issued]
  <2>3. batches \subseteq Says(r)
    BY DEF Says
  <2>. HIDE DEF batches
  <2>4. OpsMessages(k.ops) \in Seq(Says(r))
    <3>1. OpsMessages(k.ops) \in Seq(batches)
      BY <2>2, OpsAreSaid DEF batches
    <3>. QED  BY <2>3, <3>1, SeqMonotone
  <2>5. <<KeysFrom(r)>> \o OpsMessages(k.ops) \in Seq(Says(r))
    BY <1>4, <2>4, SeqChanges
  <2>. QED  BY <1>11, <2>5, PostKeeps, EndTaskKeeps DEF Send, Lists, Links, Counts, counts
<1>12. CASE Apply(r, i)
  <2>1. Tasks'
    BY <1>12, EndTaskKeeps, BecomeKeeps DEF Apply
  <2>. QED  BY <1>12, <2>1, ChannelsKept DEF Apply, network, Lists, Links, Counts, counts
<1>. QED  BY <1>1, <1>5, <1>6, <1>7, <1>8, <1>9, <1>10, <1>11, <1>12

\* So does the arrival of a message: it starts a handler that holds what the
\* sender said.
LEMMA ArriveKeeps ==
  ASSUME EngineInv, NetworkInv, Growing, NEW s \in Device, NEW d \in Device, Arrive(s, d)
  PROVE  NetworkInv'
<1>. USE DEF NetworkInv
<1>. DEFINE m == Head(chan[s][d])
<1>1. s # d /\ m \in Says(s)
  BY InHand DEF Arrive
<1>2. Channels'
  <2>1. chan' = [chan EXCEPT ![s][d] = Tail(chan[s][d])]
    BY DEF Arrive, Channels
  <2>2. Tail(chan[s][d]) \in Seq(Says(s))
    BY SeqChanges DEF Arrive, Channels
  <2>. QED  BY <1>1, <2>1, <2>2, QueueKept
<1>3. Lists'
  BY <1>1 DEF Arrive, Lists
<1>4. Tasks'
  <2>1. ASSUME m.t = "hello"
        PROVE  [at |-> "observe", from |-> s, clock |-> m.clock] \in Holds(d)
    BY <1>1, <2>1, SaidOf DEF Holds
  <2>2. ASSUME m.t = "since"
        PROVE  [at |-> "reply", from |-> s, have |-> m.have] \in Holds(d)
    BY <1>1, <2>2, SaidOf, ReportedType DEF Holds, EngineInv, IInv
  <2>3. ASSUME m.t = "ops", Acceptable(d, m.ops)
        PROVE  [at |-> "apply", from |-> s, ops |-> m.ops] \in Holds(d)
    BY <1>1, <2>3, SaidOf DEF Holds, SomeIssued, Acceptable
  <2>. HIDE DEF m
  <2>4. \/ UNCHANGED tasks
        \/ m.t = "hello" /\ AddTask(d, [at |-> "observe", from |-> s, clock |-> m.clock])
        \/ m.t = "since" /\ AddTask(d, [at |-> "reply", from |-> s, have |-> m.have])
        \/ /\ m.t = "ops" /\ Acceptable(d, m.ops)
           /\ AddTask(d, [at |-> "apply", from |-> s, ops |-> m.ops])
    BY DEF Arrive, m
  <2>5. CASE UNCHANGED tasks
    BY <2>5, TasksKept
  <2>. QED  BY <2>1, <2>2, <2>3, <2>4, <2>5, AddTaskKeeps
<1>. QED  BY <1>2, <1>3, <1>4 DEF Arrive, Links, Counts, counts

\* What an update commits, its live tail may tell.
LEMMA CommitKeeps ==
  ASSUME EngineInv, NetworkInv, Growing, NEW r \in Device, Commit(r)
  PROVE  NetworkInv'
<1>. USE DEF NetworkInv
<1>. DEFINE batches == [t : {"ops"}, ops : SUBSET Issued']
            msgs == IF started[r] THEN OpsMessages(draft[r]) ELSE <<>>
<1>1. IsFiniteSet(draft[r])
  BY DEF EngineInv, IInv, Finite
<1>2. draft[r] \subseteq Issued'
  <2>1. applied' = [applied EXCEPT ![r] = @ \cup draft[r]]
    BY Zenon DEF Commit, CommitLocal, ApplyBatch
  <2>2. applied'[r] = applied[r] \cup draft[r]
    BY <2>1 DEF EngineInv, IInv, TypeOK
  <2>. QED  BY <2>2 DEF Issued
<1>3. batches \subseteq Says(r)'
  BY DEF Says
<1>4. OpsMessages(draft[r]) \in Seq(batches)
  BY <1>1, <1>2, OpsAreSaid
<1>. HIDE DEF batches
<1>5. msgs \in Seq(Says(r)')
  <2>1. OpsMessages(draft[r]) \in Seq(Says(r)')
    BY <1>3, <1>4, SeqMonotone
  <2>2. <<>> \in Seq(Says(r)')
    OBVIOUS
  <2>. QED  BY <2>1, <2>2
<1>6. Post(r, Device, msgs)
  BY DEF Commit
<1>. HIDE DEF msgs
<1>7. Channels'
  BY <1>5, <1>6, PostKeeps
<1>8. UNCHANGED <<links, replicators, counts>>
  BY DEF Commit
<1>. QED  BY <1>7, <1>8, TasksKept DEF replicators, Lists, Links, Counts, counts

\* Two ends make a link.
LEMMA PairIsLink ==
  ASSUME NEW p \in Device, NEW q \in Device, p # q
  PROVE  {p, q} \subseteq Device /\ Cardinality({p, q}) = 2
<1>1. IsFiniteSet({p}) /\ Cardinality({p}) = 1 /\ q \notin {p}
  BY FS_Singleton
<1>2. Cardinality({p} \cup {q}) = 2
  BY <1>1, FS_AddElement
<1>3. {p, q} = {p} \cup {q}
  OBVIOUS
<1>. QED  BY <1>2, <1>3

\* So do a start and a link that comes up.
LEMMA ConnectingKeeps ==
  ASSUME NetworkInv, Growing, Connecting
  PROVE  NetworkInv'
<1>. USE DEF NetworkInv
<1>1. ASSUME NEW r \in Device  PROVE [at |-> "announce"] \in Holds(r)
  BY DEF Holds
<1>2. ASSUME NEW r \in Device, Start(r)  PROVE NetworkInv'
  <2>1. Tasks'
    BY <1>1, <1>2, AddTaskKeeps DEF Start
  <2>2. Lists' /\ Counts' /\ UNCHANGED <<chan, links>>
    BY <1>2, ReplicatorAssumption DEF Start, network, Lists, Counts
  <2>. QED  BY <2>1, <2>2, ChannelsKept DEF Links
<1>3. ASSUME NEW p \in Device, NEW q \in Device, Connect(p, q)  PROVE NetworkInv'
  <2>1. p # q
    BY <1>3 DEF Connect
  <2>. DEFINE k == [at |-> "announce"]
              one == [tasks EXCEPT ![p] = Append(tasks[p], k)]
  <2>2. /\ Append(tasks[p], k) \in Seq(Holds(p))
        /\ Append(tasks[q], k) \in Seq(Holds(q))
    BY <1>1, SeqChanges DEF Tasks
  <2>3. /\ DOMAIN tasks' = Device
        /\ tasks'[p] = Append(tasks[p], k)
        /\ tasks'[q] = Append(tasks[q], k)
        /\ \A r \in Device \ {p, q} : tasks'[r] = tasks[r]
    BY <1>3, <2>1 DEF Connect, Tasks
  <2>4. \A d \in Device : Holds(d) \subseteq Holds(d)'
    BY SayingsGrow DEF Growing
  <2>. HIDE DEF k
  <2>5. ASSUME NEW r \in Device  PROVE tasks'[r] \in Seq(Holds(r)')
    <3>1. tasks'[r] \in Seq(Holds(r))
      BY <2>2, <2>3 DEF Tasks
    <3>. QED  BY <2>4, <3>1, SeqMonotone
  <2>6. Tasks'
    BY <2>3, <2>5 DEF Tasks
  <2>7. Links'
    BY <1>3, <2>1, PairIsLink DEF Connect, Links
  <2>8. Lists' /\ Counts' /\ UNCHANGED chan
    BY <1>3, ReplicatorAssumption DEF Connect, Lists, Counts
  <2>. QED  BY <2>6, <2>7, <2>8, ChannelsKept
<1>. QED  BY <1>2, <1>3 DEF Connecting

\* So do a stop, a crash and a link that goes down.
LEMMA DisconnectingKeeps ==
  ASSUME NetworkInv, Growing, Disconnecting
  PROVE  NetworkInv'
<1>. USE DEF NetworkInv
<1>1. \A q \in Device : Says(q) \subseteq Says(q)'
  BY SayingsGrow DEF Growing
<1>2. \A q \in Device : <<>> \in Seq(Says(q)') /\ <<>> \in Seq(Holds(q)')
  OBVIOUS
<1>3. \A s, d \in Device : chan[s][d] \in Seq(Says(s)')
  BY <1>1, SeqMonotone DEF Channels
<1>4. ASSUME NEW p \in Device, NEW q \in Device, Disconnect(p, q)  PROVE NetworkInv'
  <2>1. /\ DOMAIN chan' = Device
        /\ \A s \in Device : DOMAIN chan'[s] = Device
        /\ \A s, d \in Device : chan'[s][d] = chan[s][d] \/ chan'[s][d] = <<>>
    BY <1>4 DEF Disconnect, Channels
  <2>2. \A s, d \in Device : chan'[s][d] \in Seq(Says(s)')
    BY <1>2, <1>3, <2>1
  <2>3. Channels'
    BY <2>1, <2>2 DEF Channels
  <2>4. links' \subseteq links /\ UNCHANGED <<replicators, counts>>
    BY <1>4 DEF Disconnect
  <2>. QED  BY <2>3, <2>4, TasksKept DEF replicators, Lists, Links, Counts, counts
<1>5. ASSUME NEW r \in Device, Stop(r)  PROVE NetworkInv'
  <2>1. Lists' /\ UNCHANGED <<links, chan, tasks, counts>>
    BY <1>5 DEF Stop, network, Lists
  <2>. QED  BY <2>1, TasksKept, ChannelsKept DEF Links, Counts, counts
<1>6. ASSUME NEW r \in Device, Crash(r)  PROVE NetworkInv'
  <2>1. /\ DOMAIN chan' = Device
        /\ \A s \in Device : DOMAIN chan'[s] = Device
        /\ \A s, d \in Device : chan'[s][d] = chan[s][d] \/ chan'[s][d] = <<>>
    BY <1>6 DEF Crash
  <2>2. \A s, d \in Device : chan'[s][d] \in Seq(Says(s)')
    BY <1>2, <1>3, <2>1
  <2>3. Channels'
    BY <2>1, <2>2 DEF Channels
  <2>4. Tasks'
    BY <1>2, <1>6, TasksChange DEF Crash
  <2>5. Lists' /\ links' \subseteq links /\ UNCHANGED counts
    BY <1>6 DEF Crash, Lists
  <2>. QED  BY <2>3, <2>4, <2>5 DEF Links, Counts, counts
<1>. QED  BY <1>4, <1>5, <1>6 DEF Disconnecting

\* So do lost, delayed and repeated messages: they are the sender's all the same.
LEMMA FaultsKeep ==
  ASSUME NetworkInv, Growing, Faults
  PROVE  NetworkInv'
<1>. USE DEF NetworkInv
<1>1. ASSUME Fault  PROVE Counts'
  BY <1>1, ReplicatorAssumption DEF Fault, Counts
<1>2. ASSUME NEW s \in Device, NEW d \in Device, Lose(s, d) \/ Delay(s, d) \/ Duplicate(s, d)
      PROVE  NetworkInv'
  <2>. DEFINE c == chan[s][d]
  <2>1. c # <<>>
    BY <1>2 DEF Lose, Delay, Duplicate, Channels
  <2>2. c \in Seq(Says(s)) /\ s # d
    BY <2>1 DEF Channels
  <2>3. Head(c) \in Says(s) /\ Tail(c) \in Seq(Says(s))
    BY <2>1, <2>2, SeqChanges
  <2>4. Append(Tail(c), Head(c)) \in Seq(Says(s)) /\ Append(c, Head(c)) \in Seq(Says(s))
    BY <2>2, <2>3, SeqChanges
  <2>5. \E q \in {Tail(c), Append(Tail(c), Head(c)), Append(c, Head(c))} :
          chan' = [chan EXCEPT ![s][d] = q]
    BY <1>2 DEF Lose, Delay, Duplicate
  <2>. HIDE DEF c
  <2>6. Channels'
    BY <2>2, <2>3, <2>4, <2>5, QueueKept
  <2>7. Fault /\ UNCHANGED <<links, replicators>>
    BY <1>2 DEF Lose, Delay, Duplicate
  <2>. QED  BY <1>1, <2>6, <2>7, TasksKept DEF replicators, Lists, Links
<1>3. ASSUME NEW r \in Device, NEW i \in DOMAIN tasks[r], HandlerFails(r, i)
      PROVE  NetworkInv'
  <2>1. Tasks' /\ Counts'
    BY <1>1, <1>3, EndTaskKeeps DEF HandlerFails
  <2>2. UNCHANGED <<network, started, peers>>
    BY <1>3 DEF HandlerFails
  <2>. QED  BY <2>1, <2>2, ChannelsKept DEF network, Lists, Links
<1>. QED  BY <1>2, <1>3 DEF Faults

\* Whatever a replicator, an application or the transport does, messages and
\* tasks hold only what they may.
LEMMA NetworkStep ==
  ASSUME EngineInv, NetworkInv, [ReplicatorNext]_allVars
  PROVE  NetworkInv'
<1>0. Growing
  BY Driven, AppliedGrows DEF EngineInv, Growing
<1>. USE DEF NetworkInv
<1>1. CASE UNCHANGED allVars
  BY <1>0, <1>1, TasksKept, ChannelsKept
     DEF allVars, network, replicators, counts, Lists, Links, Counts
<1>2. CASE Handling
  BY <1>0, <1>2, RunTaskKeeps, ArriveKeeps DEF Handling
<1>3. CASE Editing
  <2>1. ASSUME NEW r \in Device, NEW w \in Writes, Edit(r, w)  PROVE NetworkInv'
    BY <1>0, <2>1, TasksKept, ChannelsKept
       DEF Edit, network, replicators, counts, Lists, Links, Counts
  <2>. QED  BY <1>0, <1>3, <2>1, CommitKeeps DEF Editing
<1>4. CASE Connecting
  BY <1>0, <1>4, ConnectingKeeps
<1>5. CASE Disconnecting
  BY <1>0, <1>5, DisconnectingKeeps
<1>6. CASE Faults
  BY <1>0, <1>6, FaultsKeep
<1>. QED  BY <1>1, <1>2, <1>3, <1>4, <1>5, <1>6 DEF ReplicatorNext

-----------------------------------------------------------------------------
\* What is recorded of peers.

-----------------------------------------------------------------------------
\* The theorems.

\* The inductive invariant holds of the initial states.
LEMMA ReplicatorInvInit ==
  ASSUME ReplicatorInit
  PROVE  EngineInv /\ NetworkInv
<1>1. Init
  BY DEF ReplicatorInit
<1>2. EngineInv
  BY <1>1, EngineInvInit
<1>3. Lists /\ Tasks /\ Links /\ Channels /\ Counts
  BY ReplicatorAssumption DEF ReplicatorInit, Lists, Tasks, Links, Channels, Counts
<1>. QED  BY <1>2, <1>3 DEF NetworkInv

\* The invariant is inductive.
LEMMA ReplicatorInvStep ==
  ASSUME EngineInv, NetworkInv, [ReplicatorNext]_allVars
  PROVE  EngineInv' /\ NetworkInv'
<1>1. [Next]_vars
  BY Driven
<1>2. EngineInv'
  BY <1>1, EngineInvStep
<1>. QED  BY <1>2, NetworkStep

\* The inductive invariant holds of every reachable state.
LEMMA ReplicatorInvariance == ReplicatorSpec => [](EngineInv /\ NetworkInv)
<1>1. ReplicatorInit => EngineInv /\ NetworkInv
  BY ReplicatorInvInit
<1>2. EngineInv /\ NetworkInv /\ [ReplicatorNext]_allVars => (EngineInv /\ NetworkInv)'
  BY ReplicatorInvStep
<1>. QED  BY <1>1, <1>2, PTL DEF ReplicatorSpec

\* Replicators, whatever they lose, delay, repeat or fail on, drive the engine
\* only as SyncEngine's open network does, so that what is proved of the
\* engine holds of replicas that talk to each other (replicator.ts handle).
THEOREM ReplicatorImplementsEngine == ReplicatorSpec => ImplementsEngine
<1>1. ReplicatorInit => Init
  BY DEF ReplicatorInit
<1>2. EngineInv /\ NetworkInv /\ [ReplicatorNext]_allVars => [Next]_vars
  BY Driven
<1>. QED  BY <1>1, <1>2, ReplicatorInvariance, PTL
          DEF ReplicatorSpec, ImplementsEngine, Spec

\* Peers, tasks, links and messages keep their types; a replica never lists
\* itself (replicator.ts peers, transport send).
THEOREM ReplicatorTypeCorrect == ReplicatorSpec => []ReplicatorTypeOK
<1>1. ASSUME EngineInv, NetworkInv  PROVE ReplicatorTypeOK
  <2>1. TypeOK
    BY <1>1 DEF EngineInv, IInv
  <2>2. /\ RemoteStamps \subseteq Stamp
        /\ Issued \subseteq Op
        /\ \A s \in Device : Reported(s) \subseteq Frontier
    BY <2>1, RemoteStampsType, IssuedType, ReportedType
  <2>3. \A s \in Device : Says(s) \subseteq Message
    BY <2>2 DEF Says, Message, Hello, Keys, Since, Batch, Ack
  <2>4. \A r \in Device : Holds(r) \subseteq Task
    BY <2>2 DEF Holds, Task, SomeIssued
  <2>5. \A r \in Device : \A i \in DOMAIN tasks[r] : tasks[r][i] \in Task
    BY <1>1, <2>4, InHand
  <2>6. ASSUME NEW s \in Device, NEW d \in Device, NEW i \in DOMAIN chan[s][d]
        PROVE  chan[s][d][i] \in Message
    <3>1. chan[s][d] \in Seq(Says(s))
      BY <1>1 DEF NetworkInv, Channels
    <3>2. chan[s][d][i] \in Says(s)
      BY <3>1, SeqChanges
    <3>. QED  BY <2>3, <3>2
  <2>. QED  BY <1>1, <2>1, <2>5, <2>6
            DEF ReplicatorTypeOK, NetworkInv, Lists, Links, Counts
<1>. QED  BY <1>1, ReplicatorInvariance, PTL

\* What a replica has recorded of a peer the peer has seen, however old the
\* report is by the time it is handled (engine.ts recordPeerFrontier).
THEOREM RecordedFrontiersAreSound == ReplicatorSpec => []PeerFrontierSound
<1>1. ASSUME EngineInv  PROVE PeerFrontierSound
  <2>. SUFFICES ASSUME NEW r \in Device, NEW p \in DOMAIN peerFrontiers[r], NEW d \in Device
       PROVE  Leq(peerFrontiers[r][p][d], frontier[p][d])
    BY DEF PeerFrontierSound
  <2>1. p \in Device /\ peerFrontiers[r][p] \in Reported(p)
    BY <1>1 DEF EngineInv, IInv, TypeOK, Recorded
  <2>. QED  BY <1>1, <2>1, ReportsAreBehind DEF EngineInv, IInv
<1>. QED  BY <1>1, ReplicatorInvariance, PTL

\* Replicas that exchange ops keep unique ids, exact frontiers and logged
\* winners, and clocks that cover their history, at every step of an exchange.
THEOREM ReplicasStayCorrect ==
  ReplicatorSpec =>
    /\ [](ClockCovers /\ UniqueIds /\ FrontierExact /\ WinnersLogged)
    /\ WritesFollowReads
BY ReplicatorImplementsEngine, ClockCoversHistory, IdsAreUnique, FrontiersAreExact,
   WinnersStayLogged, WritesComeAfterReads, PTL DEF ImplementsEngine

\* Whatever the transport does, each replica shows the merge of the ops it was
\* delivered, and those were issued by their authors and in their order.
THEOREM ReplicasImplementSpace ==
  ASSUME TRUE \notin Compactions
  PROVE  ReplicatorSpec => ImplementsLwwSpace
BY ReplicatorImplementsEngine, EngineImplementsSpace, PTL DEF ImplementsEngine
=============================================================================
