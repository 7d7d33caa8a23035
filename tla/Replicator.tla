----------------------------- MODULE Replicator -----------------------------
(***************************************************************************)
(* packages/core/src/replicator.ts: one Replicator per replica, over a     *)
(* transport, closing the network SyncEngine leaves open.                  *)
(*                                                                         *)
(* A message is handled in the order it arrives up to the handler's first  *)
(* await; the rest of the handler is a task, which runs on, step by step,  *)
(* interleaved with everything else the replica does. A task that waits    *)
(* for the engine's mutex waits in line.                                   *)
(*                                                                         *)
(* The transport is either a bus that reaches every replica and reports no *)
(* connections (transport-broadcast), or links between pairs that report   *)
(* when they open (transport-webrtc): both deliver in order.               *)
(***************************************************************************)
EXTENDS SyncEngine, SequencesExt

CONSTANTS Bus,            \* the transport is a bus
          OpsPerMessage,  \* OPS_PER_MESSAGE
          MaxSessions,    \* bound: starts and connections in a behaviour
          MaxFaults       \* bound: messages lost, delayed, repeated, or failed on

ASSUME ReplicatorAssumption ==
  /\ Bus \in BOOLEAN
  /\ OpsPerMessage \in Nat \ {0}
  /\ MaxSessions \in Nat
  /\ MaxFaults \in Nat

VARIABLES
  started,   \* the replicator is started
  peers,     \* the peers it lists
  tasks,     \* handlers past their first await, in order of arrival
  links,     \* open connections, as pairs of replicas
  chan,      \* chan[s][d]: messages under way from s to d
  sessions,  \* starts and connections so far
  faults     \* faults so far

network == <<links, chan>>
replicators == <<started, peers, tasks>>
counts == <<sessions, faults>>
allVars == <<vars, network, replicators, counts>>

Hello == [t : {"hello"}, clock : Stamp]
Keys  == [t : {"keys"}, ids : SUBSET Device]
Since == [t : {"since"}, have : Frontier]
Batch == [t : {"ops"}, ops : SUBSET Op]
Ack   == [t : {"ack"}, have : Frontier]
Message == Hello \cup Keys \cup Since \cup Batch \cup Ack

Task == [at : {"announce"}]
   \cup [at : {"observe"}, from : Device, clock : Stamp]
   \cup [at : {"greet", "ask", "ack"}, from : Device]
   \cup [at : {"reply"}, from : Device, have : Frontier]
   \cup [at : {"send", "apply"}, from : Device, ops : SUBSET Op]

ReplicatorTypeOK ==
  /\ TypeOK
  /\ started \in [Device -> BOOLEAN]
  /\ peers \in [Device -> SUBSET Device]
  /\ \A r \in Device : r \notin peers[r]
  /\ \A r \in Device : \A i \in DOMAIN tasks[r] : tasks[r][i] \in Task
  /\ \A l \in links : l \subseteq Device /\ Cardinality(l) = 2
  /\ \A s, d \in Device : \A i \in DOMAIN chan[s][d] : chan[s][d][i] \in Message
  /\ sessions \in 0 .. MaxSessions
  /\ faults \in 0 .. MaxFaults

ReplicatorInit ==
  /\ Init
  /\ started = [r \in Device |-> FALSE]
  /\ peers = [r \in Device |-> {}]
  /\ tasks = [r \in Device |-> <<>>]
  /\ links = {}
  /\ chan = [s \in Device |-> [d \in Device |-> <<>>]]
  /\ sessions = 0
  /\ faults = 0

-----------------------------------------------------------------------------
\* Sending. A message with an addressee reaches the others of a bus too, and
\* they discard it unread; here it goes to the addressee only.

\* Faulty variant: a bus echoes a replica's messages to itself.
ReachableWithSelf(s) ==
  IF Bus THEN Device ELSE {d \in Device : {s, d} \in links}

\* A bus also hands a replica nothing of its own.
Reachable(s) ==
  IF Bus THEN Device \ {s} ELSE {d \in Device : {s, d} \in links}

Post(s, dests, msgs) ==
  chan' = [chan EXCEPT ![s] =
             [d \in Device |-> IF d \in dests \cap Reachable(s) THEN @[d] \o msgs ELSE @[d]]]

\* The newest stamp of the log, or the zero clock.
HelloFrom(r) ==
  [t |-> "hello",
   clock |-> IF log[r] = {} THEN StampOf(FreshClock, r)
                            ELSE Latest({o.stamp : o \in log[r]})]
KeysFrom(r) == [t |-> "keys", ids |-> keys[r]]

\* Faulty variant: the newest ops go first.
ChunksNewestFirst(S) ==
  [k \in 1 .. (Cardinality(S) + OpsPerMessage - 1) \div OpsPerMessage |->
     {o \in S : Cardinality({p \in S : Lt(o.stamp, p.stamp)}) \div OpsPerMessage = k - 1}]

\* The ops in stamp order, OPS_PER_MESSAGE at a time.
Chunks(S) ==
  [k \in 1 .. (Cardinality(S) + OpsPerMessage - 1) \div OpsPerMessage |->
     {o \in S : Cardinality({p \in S : Lt(p.stamp, o.stamp)}) \div OpsPerMessage = k - 1}]

OpsMessages(S) ==
  [k \in DOMAIN Chunks(S) |-> [t |-> "ops", ops |-> Chunks(S)[k]]]

-----------------------------------------------------------------------------
\* Tasks.

AddTask(r, task) == tasks' = [tasks EXCEPT ![r] = Append(@, task)]
EndTask(r, i) == tasks' = [tasks EXCEPT ![r] = RemoveAt(@, i)]
Become(r, i, step) ==
  tasks' = [tasks EXCEPT ![r][i] = [at |-> step, from |-> tasks[r][i].from]]

\* Faulty variant: tasks that wait for the mutex wait for each other.
OnlyOneInLine(r, i) ==
  \A j \in DOMAIN tasks[r] \ {i} : tasks[r][j].at \notin {"observe", "apply"}

\* The mutex serves the tasks that wait for it in order of arrival.
FirstInLine(r, i) ==
  \A j \in 1 .. i - 1 : tasks[r][j].at \notin {"observe", "apply"}

\* sendHello: at start() and whenever the transport reports a connection.
Announce(r, i) ==
  /\ tasks[r][i].at = "announce"
  /\ Post(r, Device, <<HelloFrom(r)>>)
  /\ EndTask(r, i)
  /\ UNCHANGED <<vars, links, started, peers, counts>>

\* Faulty variant: a hello from a listed peer is not followed by a since.
ObserveAsksOnce(r, i) ==
  /\ tasks[r][i].at = "observe"
  /\ FirstInLine(r, i)
  /\ \E pt \in Times : ObserveRemoteClock(r, tasks[r][i].clock, pt)
  /\ LET from == tasks[r][i].from
     IN  \/ /\ from \notin peers[r]
            /\ peers' = [peers EXCEPT ![r] = @ \cup {from}]
            /\ Become(r, i, "greet")
            /\ UNCHANGED chan
         \/ /\ from \in peers[r]
            /\ Post(r, {from}, <<KeysFrom(r)>>)
            /\ EndTask(r, i)
            /\ UNCHANGED peers
  /\ UNCHANGED <<links, started, counts>>

\* A hello, once it has the mutex: the clock is observed, and a new peer is
\* listed and greeted back. One already listed is sent the keys at once.
Observe(r, i) ==
  /\ tasks[r][i].at = "observe"
  /\ FirstInLine(r, i)
  /\ \E pt \in Times : ObserveRemoteClock(r, tasks[r][i].clock, pt)
  /\ LET from == tasks[r][i].from
     IN  \/ /\ from \notin peers[r]
            /\ peers' = [peers EXCEPT ![r] = @ \cup {from}]
            /\ Become(r, i, "greet")
            /\ UNCHANGED chan
         \/ /\ from \in peers[r]
            /\ Post(r, {from}, <<KeysFrom(r)>>)
            /\ Become(r, i, "ask")
            /\ UNCHANGED peers
  /\ UNCHANGED <<links, started, counts>>

\* The hello back goes to everyone, the keys to the new peer.
Greet(r, i) ==
  /\ tasks[r][i].at = "greet"
  /\ chan' = [chan EXCEPT ![r] =
       [d \in Device |->
          IF d \notin Reachable(r) THEN @[d]
          ELSE IF d = tasks[r][i].from THEN @[d] \o <<HelloFrom(r), KeysFrom(r)>>
          ELSE Append(@[d], HelloFrom(r))]]
  /\ Become(r, i, "ask")
  /\ UNCHANGED <<vars, links, started, peers, counts>>

\* since: the frontier read here is all the peer will go by.
Ask(r, i) ==
  /\ tasks[r][i].at = "ask"
  /\ Post(r, {tasks[r][i].from}, <<[t |-> "since", have |-> frontier[r]]>>)
  /\ EndTask(r, i)
  /\ UNCHANGED <<vars, links, started, peers, counts>>

\* The answer to a since reads what the peer is missing, and sends it later:
\* an update may commit, and its live tail overtake the answer, in between.
Reply(r, i) ==
  /\ tasks[r][i].at = "reply"
  /\ LET missing == OpsSince(log[r], tasks[r][i].have)
         from == tasks[r][i].from
     IN  IF missing = {} THEN EndTask(r, i)
         ELSE tasks' = [tasks EXCEPT
                ![r][i] = [at |-> "send", from |-> from, ops |-> missing]]
  /\ UNCHANGED <<vars, network, started, peers, counts>>

\* Faulty variant: what is sent is recorded as received.
SendRecordsAsSeen(r, i) ==
  /\ tasks[r][i].at = "send"
  /\ Post(r, {tasks[r][i].from}, <<KeysFrom(r)>> \o OpsMessages(tasks[r][i].ops))
  /\ RecordPeerFrontier(r, tasks[r][i].from, frontier[r])
  /\ EndTask(r, i)
  /\ UNCHANGED <<links, started, peers, counts>>

\* The keys, then the ops.
Send(r, i) ==
  /\ tasks[r][i].at = "send"
  /\ Post(r, {tasks[r][i].from}, <<KeysFrom(r)>> \o OpsMessages(tasks[r][i].ops))
  /\ EndTask(r, i)
  /\ UNCHANGED <<vars, links, started, peers, counts>>

\* A batch, once it has the mutex: applied, and to be acknowledged if any op
\* was new.
Apply(r, i) ==
  /\ tasks[r][i].at = "apply"
  /\ FirstInLine(r, i)
  /\ \E pt \in Times : ApplyRemoteOps(r, tasks[r][i].ops, pt)
  /\ IF tasks[r][i].ops \subseteq log[r] THEN EndTask(r, i) ELSE Become(r, i, "ack")
  /\ UNCHANGED <<network, started, peers, counts>>

\* The acknowledgement carries the frontier of the moment it is sent.
Acknowledge(r, i) ==
  /\ tasks[r][i].at = "ack"
  /\ Post(r, {tasks[r][i].from}, <<[t |-> "ack", have |-> frontier[r]]>>)
  /\ EndTask(r, i)
  /\ UNCHANGED <<vars, links, started, peers, counts>>

Fault == faults < MaxFaults /\ faults' = faults + 1 /\ UNCHANGED sessions

\* The engine rejects, for clock drift or in storage: the error is reported
\* and the handler ends.
HandlerFails(r, i) ==
  /\ tasks[r][i].at \in {"observe", "apply"}
  /\ FirstInLine(r, i)
  /\ Unlocked(r)
  /\ LET stamp == IF tasks[r][i].at = "observe" THEN tasks[r][i].clock
                  ELSE Latest({o.stamp : o \in tasks[r][i].ops})
     IN  \E pt \in Times :
           \/ ~DriftOk(stamp, pt) /\ UNCHANGED vars
           \/ ReceiveFails(r, stamp, pt)
  /\ EndTask(r, i)
  /\ Fault
  /\ UNCHANGED <<network, started, peers>>

RunTask(r) ==
  \E i \in DOMAIN tasks[r] :
    \/ Announce(r, i) \/ Observe(r, i) \/ Greet(r, i) \/ Ask(r, i)
    \/ Reply(r, i) \/ Send(r, i) \/ Apply(r, i) \/ Acknowledge(r, i)

-----------------------------------------------------------------------------
\* Arrival of a message, up to the handler's first await.

Arrive(s, d) ==
  /\ chan[s][d] # <<>>
  /\ chan' = [chan EXCEPT ![s][d] = Tail(@)]
  /\ LET msg == Head(chan[s][d])
     IN  \/ /\ ~started[d]
            /\ UNCHANGED <<vars, peers, tasks>>
         \/ /\ started[d]
            /\ msg.t = "hello"
            /\ LearnKeys(d, {s})
            /\ AddTask(d, [at |-> "observe", from |-> s, clock |-> msg.clock])
            /\ UNCHANGED peers
         \/ /\ started[d]
            /\ msg.t = "keys"
            /\ LearnKeys(d, msg.ids)
            /\ UNCHANGED <<peers, tasks>>
         \/ /\ started[d]
            /\ msg.t = "since"
            /\ peers' = [peers EXCEPT ![d] = @ \cup {s}]
            /\ RecordPeerFrontier(d, s, msg.have)
            /\ AddTask(d, [at |-> "reply", from |-> s, have |-> msg.have])
         \/ /\ started[d]
            /\ msg.t = "ops"
            /\ IF Acceptable(d, msg.ops)
                 THEN AddTask(d, [at |-> "apply", from |-> s, ops |-> msg.ops])
                 ELSE UNCHANGED tasks
            /\ UNCHANGED <<vars, peers>>
         \/ /\ started[d]
            /\ msg.t = "ack"
            /\ peers' = [peers EXCEPT ![d] = @ \cup {s}]
            /\ RecordPeerFrontier(d, s, msg.have)
            /\ UNCHANGED tasks
  /\ UNCHANGED <<links, started, counts>>

-----------------------------------------------------------------------------
\* The application and the transport.

\* An update takes the mutex; other tasks wait until it commits.
Edit(r, w) ==
  /\ \E pt \in Times : MakeLocalOp(r, w, pt)
  /\ UNCHANGED <<network, replicators, counts>>

\* Faulty variant: an update is not announced until it is asked for.
CommitSilently(r) ==
  /\ draft[r] # {}
  /\ CommitLocal(r)
  /\ UNCHANGED <<network, replicators, counts>>

\* The commit, and the live tail its listener sends.
Commit(r) ==
  /\ draft[r] # {}
  /\ CommitLocal(r)
  /\ Post(r, Device, IF started[r] THEN OpsMessages(draft[r]) ELSE <<>>)
  /\ UNCHANGED <<links, replicators, counts>>

Start(r) ==
  /\ ~started[r]
  /\ sessions < MaxSessions
  /\ sessions' = sessions + 1
  /\ started' = [started EXCEPT ![r] = TRUE]
  /\ AddTask(r, [at |-> "announce"])
  /\ UNCHANGED <<vars, network, peers, faults>>

\* stop(): the listeners go and the peers are forgotten. Handlers already
\* past their first await run on, and what is under way is discarded on
\* arrival.
Stop(r) ==
  /\ started[r]
  /\ started' = [started EXCEPT ![r] = FALSE]
  /\ peers' = [peers EXCEPT ![r] = {}]
  /\ UNCHANGED <<vars, network, tasks, counts>>

\* A link opens, and both ends are told. openSpace starts a replicator as
\* soon as it has made the transport, before a link can have opened.
Connect(p, q) ==
  /\ ~Bus
  /\ p # q
  /\ {p, q} \notin links
  /\ started[p] /\ started[q]
  /\ sessions < MaxSessions
  /\ sessions' = sessions + 1
  /\ links' = links \cup {{p, q}}
  /\ tasks' = [tasks EXCEPT ![p] = Append(@, [at |-> "announce"]),
                            ![q] = Append(@, [at |-> "announce"])]
  /\ UNCHANGED <<vars, chan, started, peers, faults>>

\* A link closes and takes what is under way with it. The replicators are
\* not told.
Disconnect(p, q) ==
  /\ {p, q} \in links
  /\ links' = links \ {{p, q}}
  /\ chan' = [chan EXCEPT ![p][q] = <<>>, ![q][p] = <<>>]
  /\ UNCHANGED <<vars, replicators, counts>>

\* The process dies and is opened again over the same storage; its
\* replicator has yet to start. What a bus was carrying from it still arrives.
Crash(r) ==
  /\ Restart(r)
  /\ started' = [started EXCEPT ![r] = FALSE]
  /\ peers' = [peers EXCEPT ![r] = {}]
  /\ tasks' = [tasks EXCEPT ![r] = <<>>]
  /\ links' = {l \in links : r \notin l}
  /\ chan' = [s \in Device |-> [d \in Device |->
                IF d = r \/ (s = r /\ ~Bus) THEN <<>> ELSE chan[s][d]]]
  /\ UNCHANGED counts

\* "Fire-and-forget; loss is acceptable": what a Transport may do to the
\* messages under way. Moving the head to the back stands for reordering,
\* keeping a copy of it there for duplication.
Lose(s, d) ==
  /\ chan[s][d] # <<>>
  /\ chan' = [chan EXCEPT ![s][d] = Tail(@)]
  /\ Fault
  /\ UNCHANGED <<vars, links, replicators>>

Delay(s, d) ==
  /\ Len(chan[s][d]) > 1
  /\ chan' = [chan EXCEPT ![s][d] = Append(Tail(@), Head(@))]
  /\ Fault
  /\ UNCHANGED <<vars, links, replicators>>

Duplicate(s, d) ==
  /\ chan[s][d] # <<>>
  /\ chan' = [chan EXCEPT ![s][d] = Append(@, Head(@))]
  /\ Fault
  /\ UNCHANGED <<vars, links, replicators>>

-----------------------------------------------------------------------------
Handling ==
  \/ \E s, d \in Device : Arrive(s, d)
  \/ \E r \in Device : RunTask(r)

Editing == \E r \in Device : (\E w \in Writes : Edit(r, w)) \/ Commit(r)

Connecting ==
  \/ \E r \in Device : Start(r)
  \/ \E p, q \in Device : Connect(p, q)

Disconnecting ==
  \/ \E p, q \in Device : Disconnect(p, q)
  \/ \E r \in Device : Stop(r) \/ Crash(r)

Faults ==
  \/ \E s, d \in Device : Lose(s, d) \/ Delay(s, d) \/ Duplicate(s, d)
  \/ \E r \in Device : \E i \in DOMAIN tasks[r] : HandlerFails(r, i)

ReplicatorNext == Handling \/ Editing \/ Connecting \/ Disconnecting \/ Faults

ReplicatorSpec == ReplicatorInit /\ [][ReplicatorNext]_allVars

\* The event loop runs what is ready: a message under way arrives, a
\* continuation resumes, an update under way commits.
EventLoop ==
  /\ \A s, d \in Device : WF_allVars(Arrive(s, d))
  /\ \A r \in Device : WF_allVars(RunTask(r)) /\ WF_allVars(Commit(r))

-----------------------------------------------------------------------------
\* Properties.

\* No update, handler or message is under way anywhere.
Idle ==
  /\ \A r \in Device : draft[r] = {} /\ tasks[r] = <<>>
  /\ \A s, d \in Device : chan[s][d] = <<>>

Together(p, q) == started[p] /\ started[q] /\ (Bus \/ {p, q} \in links)

\* What a peer is recorded to have seen, it has: a recorded frontier, on
\* which compaction rests, never runs ahead of the peer's own, however
\* messages are lost, delayed or repeated and whoever crashes.
PeerFrontierSound ==
  \A r \in Device : \A p \in DOMAIN peerFrontiers[r] : \A d \in Device :
    Leq(peerFrontiers[r][p][d], frontier[p][d])

\* The reading of a frontier that since and compaction rest on: the holder
\* has every op at or below it.
NoGaps ==
  \A r \in Device : \A o \in Issued : Above(o, frontier[r]) \/ o \in applied[r]

\* "Any gap heals on the next hello/since exchange" (replicator.ts): once
\* connected replicas have nothing left to say, they have the same ops. (What
\* an open link lost stays lost until then.)
Converged ==
  Idle /\ faults = 0 => \A p, q \in Device : Together(p, q) => applied[p] = applied[q]

\* The engine below a replicator is driven only as SyncEngine lets it be:
\* every batch holds ops already issued, every hello a stamp of some log, and
\* every recorded frontier one the peer has had, however late it is handled.
ImplementsEngine == Spec

\* The exchange ends: no handshake, however many peers greet each other,
\* keeps answering itself.
Quiesces == <>[]Idle
=============================================================================
