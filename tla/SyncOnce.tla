------------------------------ MODULE SyncOnce ------------------------------
(***************************************************************************)
(* syncOnce of packages/core/src/engine.ts: the sync protocol between two  *)
(* engines without a wire, which is how the engines of SyncEngine exchange *)
(* ops here. Any number of calls may be under way, between any devices.    *)
(*                                                                         *)
(* A call takes no lock of its own: between two of its awaits an update, a *)
(* compaction, another call or a restart may come. Where SyncEngine lets   *)
(* any batch of ops arrive, here each batch is what the sender's log held  *)
(* above a frontier the receiver had.                                      *)
(***************************************************************************)
EXTENDS SyncEngine

CONSTANT Call  \* names for the calls that may be under way at once

VARIABLES syncs,     \* the state of each call
          collected  \* history: some compaction has collected tombstones

syncVars == <<vars, syncs, collected>>

\* A call before it is made, and after it is answered.
Idle == [at |-> "idle"]

\* What a call is about to do next, and its local variables. `have` is the
\* frontier that is about to be recorded.
Sync ==
  [at : {"keys", "frontierA", "frontierB", "opsForB", "opsForA", "applyB", "applyA",
         "readB", "recordB", "readA", "recordA"},
   a : Device, b : Device, fa : Frontier, fb : Frontier,
   aToB : SUBSET Op, bToA : SUBSET Op, have : Frontier]

SyncTypeOK ==
  /\ syncs \in [Call -> {Idle} \cup Sync]
  /\ \A i \in Call : syncs[i] # Idle => syncs[i].a # syncs[i].b
  /\ collected \in BOOLEAN

SyncInit == Init /\ syncs = [i \in Call |-> Idle] /\ collected = FALSE

Goes(i, s) == syncs' = [syncs EXCEPT ![i] = s]

-----------------------------------------------------------------------------
\* A call, await by await.

\* The keys a knows go to b ...
Begin(i, a, b) ==
  /\ syncs[i] = Idle
  /\ a # b
  /\ LearnKeys(b, keys[a])
  /\ Goes(i, [at |-> "keys", a |-> a, b |-> b,
              fa |-> EmptyFrontier, fb |-> EmptyFrontier,
              aToB |-> {}, bToA |-> {}, have |-> EmptyFrontier])

\* ... and those b knows to a. (No await comes between the two. They are a
\* step each because each is a step of one engine.)
KeysBack(i) ==
  /\ syncs[i].at = "keys"
  /\ LearnKeys(syncs[i].a, keys[syncs[i].b])
  /\ Goes(i, [syncs[i] EXCEPT !.at = "frontierA"])

ReadFrontiers(i) ==
  LET s == syncs[i]
  IN  /\ \/ s.at = "frontierA" /\ Goes(i, [s EXCEPT !.at = "frontierB", !.fa = frontier[s.a]])
         \/ s.at = "frontierB" /\ Goes(i, [s EXCEPT !.at = "opsForB", !.fb = frontier[s.b]])
      /\ UNCHANGED vars

\* Faulty variant: each is asked for what it lacks itself.
ReadOpsOwnFrontier(i) ==
  LET s == syncs[i]
  IN  /\ \/ /\ s.at = "opsForB"
            /\ Goes(i, [s EXCEPT !.at = "opsForA", !.aToB = OpsSince(log[s.a], s.fa)])
         \/ /\ s.at = "opsForA"
            /\ Goes(i, [s EXCEPT !.at = "applyB", !.bToA = OpsSince(log[s.b], s.fb)])
      /\ UNCHANGED vars

ReadOps(i) ==
  LET s == syncs[i]
  IN  /\ \/ /\ s.at = "opsForB"
            /\ Goes(i, [s EXCEPT !.at = "opsForA", !.aToB = OpsSince(log[s.a], s.fb)])
         \/ /\ s.at = "opsForA"
            /\ Goes(i, [s EXCEPT !.at = "applyB", !.bToA = OpsSince(log[s.b], s.fa)])
      /\ UNCHANGED vars

\* An empty batch is not applied.
Deliver(r, ops, pt) ==
  IF ops = {} THEN UNCHANGED vars ELSE ApplyRemoteOps(r, ops, pt)

DeliverOps(i, pt) ==
  LET s == syncs[i]
  IN  \/ /\ s.at = "applyB"
         /\ Deliver(s.b, s.aToB, pt)
         /\ Goes(i, [s EXCEPT !.at = "applyA", !.aToB = {}])
      \/ /\ s.at = "applyA"
         /\ Deliver(s.a, s.bToA, pt)
         /\ Goes(i, [s EXCEPT !.at = "readB", !.bToA = {}])

\* The acks: the frontier of the one is read, and recorded at the other.
ReadAck(i) ==
  LET s == syncs[i]
  IN  /\ \/ s.at = "readB" /\ Goes(i, [s EXCEPT !.at = "recordB", !.have = frontier[s.b]])
         \/ s.at = "readA" /\ Goes(i, [s EXCEPT !.at = "recordA", !.have = frontier[s.a]])
      /\ UNCHANGED vars

RecordAck(i) ==
  LET s == syncs[i]
  IN  \/ s.at = "recordB" /\ RecordPeerFrontier(s.a, s.b, s.have) /\ Goes(i, [s EXCEPT !.at = "readA"])
      \/ s.at = "recordA" /\ RecordPeerFrontier(s.b, s.a, s.have) /\ Goes(i, Idle)

\* What it awaits rejects, and so does the call. applyRemoteOps may have moved
\* the running clock by then, to or past the newest stamp of the batch.
Rejects(i) ==
  LET s == syncs[i]
      moved(r, ops) ==
        \E newest \in ops, pt \in Times :
          /\ \A o \in ops : Leq(o.stamp, newest.stamp)
          /\ ReceiveFails(r, newest.stamp, pt)
  IN  /\ s.at \notin {"idle", "keys"}
      /\ s.at = "applyB" => s.aToB # {}
      /\ s.at = "applyA" => s.bToA # {}
      /\ \/ UNCHANGED vars
         \/ s.at = "applyB" /\ moved(s.b, s.aToB)
         \/ s.at = "applyA" /\ moved(s.a, s.bToA)
      /\ Goes(i, Idle)

Syncing(i) ==
  \/ \E a, b \in Device : Begin(i, a, b)
  \/ KeysBack(i) \/ ReadFrontiers(i) \/ ReadOps(i)
  \/ \E pt \in Times : DeliverOps(i, pt)
  \/ ReadAck(i) \/ RecordAck(i)
  \/ Rejects(i)

-----------------------------------------------------------------------------
\* What an engine does besides.

\* Calls that use an engine end with it.
Crash(r) ==
  /\ Restart(r)
  /\ syncs' = [i \in Call |->
       IF syncs[i] # Idle /\ r \in {syncs[i].a, syncs[i].b} THEN Idle ELSE syncs[i]]

Collect(r, includeTombstones) ==
  /\ CompactEnd(r, includeTombstones)
  /\ collected' = (collected \/ includeTombstones)

Local(r) ==
  \/ Writing(r)
  \/ \E pt \in Times : RejectLocalOp(r, pt)
  \/ CommitFails(r)
  \/ CompactBegin(r)
  \/ CompactAbandon(r)

OwnStep(r) ==
  \/ Local(r) /\ UNCHANGED <<syncs, collected>>
  \/ Crash(r) /\ UNCHANGED collected
  \/ \E includeTombstones \in Compactions :
       Collect(r, includeTombstones) /\ UNCHANGED syncs

CallStep(i) == Syncing(i) /\ UNCHANGED collected

SyncNext == (\E i \in Call : CallStep(i)) \/ (\E r \in Device : OwnStep(r))

SyncSpec == SyncInit /\ [][SyncNext]_syncVars

-----------------------------------------------------------------------------
\* Invariants. All but the first speak of spaces in which no tombstone has
\* been collected yet: a row that was collected whole is beyond what frontiers
\* can tell.

\* The op, or a later write of its cell, has reached r.
Reached(r, o) == \E p \in applied[r] : SameCell(o, p) /\ Leq(o.stamp, p.stamp)

\* A frontier counts per author and says "I have seen everything up to here"
\* (PROTOCOL.md section 6). No exchange leaves a gap below it, also when logs
\* were compacted, or batches were worked out from frontiers and logs that
\* have moved on since.
NothingMissed ==
  ~collected => \A r \in Device : \A o \in Issued : Above(o, frontier[r]) \/ Reached(r, o)

\* "Repeat until both frontiers are equal for multi-peer quiescence"
\* (engine.ts): replicas that compare frontiers and find them equal show the
\* same data.
EqualFrontiersEqualData ==
  ~collected => \A p, q \in Device : frontier[p] = frontier[q] => cells[p] = cells[q]

\* "Any op at or below the horizon has demonstrably reached everyone we know
\* about" (compaction.ts), or else it has been superseded there.
HorizonReached ==
  ~collected =>
    \A r \in Device : \A o \in Issued :
      BelowHorizon(r, o) => \A p \in DOMAIN peerFrontiers[r] : Reached(p, o)

\* "One full bidirectional sync" (engine.ts): a call that has come to the acks
\* has brought each side all that the other had when its frontier was read.
SyncDelivers ==
  ~collected =>
    \A i \in Call : LET s == syncs[i] IN
      s.at \in {"readB", "recordB", "readA", "recordA"} =>
        \A o \in Issued :
          /\ ~Above(o, s.fa) => Reached(s.b, o)
          /\ ~Above(o, s.fb) => Reached(s.a, o)
=============================================================================
