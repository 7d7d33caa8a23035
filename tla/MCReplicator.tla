---------------------------- MODULE MCReplicator ----------------------------
(***************************************************************************)
(* Constants and environments of Replicator for TLC: one cell.             *)
(***************************************************************************)
EXTENDS Replicator

CONSTANTS Editors,   \* replicas with an application that writes
          Crashers   \* replicas that may crash or stop

SetCell == [row |-> "row", column |-> "c", value |-> FALSE]
OneCell == {SetCell}

\* Every replicator has started, and found nobody to announce itself to.
AllStarted ==
  /\ Init
  /\ started = [r \in Device |-> TRUE]
  /\ peers = [r \in Device |-> {}]
  /\ tasks = [r \in Device |-> <<>>]
  /\ links = {}
  /\ chan = [s \in Device |-> [d \in Device |-> <<>>]]
  /\ sessions = 0
  /\ faults = 0

NoUpdate == \A r \in Device : draft[r] = {}

\* An application whose updates fall outside every handshake: it edits while
\* alone or once the handshake is over, one update at a time.
BetweenHandshakes(r) ==
  \A p \in Device : Together(r, p) =>
    /\ chan[r][p] = <<>> /\ chan[p][r] = <<>>
    /\ tasks[r] = <<>> /\ tasks[p] = <<>>

CarefulEditing ==
  \E r \in Editors :
    \/ NoUpdate /\ BetweenHandshakes(r) /\ \E w \in Writes : Edit(r, w)
    \/ Commit(r)

\* Scheduling, to keep the runs small. Keys are taken as soon as they come up,
\* which with two devices tell nothing that the hello before them did not, and
\* a replica announces itself as soon as it is told of a link. PromptFirst
\* makes and takes acknowledgements at once, too, which bear on compaction and
\* on the list of peers; HelloFirst leaves them to chance.
HeadIs(s, d, kinds) == chan[s][d] # <<>> /\ Head(chan[s][d]).t \in kinds
At(r, i, steps) == tasks[r][i].at \in steps
First(kinds, steps, A) ==
  IF \/ \E s, d \in Device : HeadIs(s, d, kinds)
     \/ \E r \in Device : \E i \in DOMAIN tasks[r] : At(r, i, steps)
    THEN \/ \E s, d \in Device : HeadIs(s, d, kinds) /\ Arrive(s, d)
         \/ \E r \in Device : \E i \in DOMAIN tasks[r] :
              At(r, i, steps) /\ (Acknowledge(r, i) \/ Announce(r, i))
    ELSE A

PromptFirst(A) == First({"keys", "ack"}, {"ack", "announce"}, A)
HelloFirst(A) == First({"keys"}, {"announce"}, A)

\* One connection, and edits at any time.
EditingAnyTime ==
  AllStarted
  /\ [][PromptFirst(\/ Handling \/ Connecting
                    \/ \E r \in Editors : (\E w \in Writes : Edit(r, w)) \/ Commit(r))]_allVars

\* A replicator starts with nothing under way to it, as when openSpace has
\* just made its transport.
QuietStart == \E r \in Device : Start(r) /\ \A s \in Device : chan[s][r] = <<>>

\* A bus whose replicators start one after the other; one that stops stays
\* away.
Joining ==
  /\ ReplicatorInit
  /\ [][PromptFirst(\/ CarefulEditing
                    \/ NoUpdate /\ (Handling \/ QuietStart)
                    \/ sessions = MaxSessions /\ \E r \in Crashers : Stop(r))]_allVars
  /\ EventLoop

\* A bus whose replicators come and go.
Rejoining ==
  ReplicatorInit
  /\ [][PromptFirst(\/ CarefulEditing
                    \/ NoUpdate /\ (Handling \/ QuietStart)
                    \/ \E r \in Device : Stop(r))]_allVars
=============================================================================
