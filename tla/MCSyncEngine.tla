---------------------------- MODULE MCSyncEngine ----------------------------
(***************************************************************************)
(* Constants of SyncEngine for TLC: one row with one data column, written, *)
(* deleted and (as update() permits) undeleted.                            *)
(***************************************************************************)
EXTENDS SyncEngine

SetCell  == [row |-> "row", column |-> "c", value |-> FALSE]
DeleteRow == [row |-> "row", column |-> Tombstone, value |-> TRUE]
UndeleteRow == [row |-> "row", column |-> Tombstone, value |-> FALSE]

SetOrDelete == {SetCell, DeleteRow}
AllWrites == {SetCell, DeleteRow, UndeleteRow}

\* A batch by an author whose key is unknown is rejected and changes nothing,
\* so nothing is lost by exchanging keys first, and again after a restart.
KeysFirst(A) ==
  IF \E r \in Device : keys[r] # Device
    THEN \E r, d \in Device : d \notin keys[r] /\ LearnKeys(r, {d})
    ELSE A

\* No application compacts: writes, batches, hellos, failures and restarts.
WithoutCompaction ==
  Init /\ [][KeysFirst(\E r \in Device : Writing(r) \/ Receiving(r) \/ Failing(r))]_vars

\* The gentlest network: a replica is only ever sent what it lacks, complete
\* and in order, and nobody compacts before every other device is a recorded
\* peer, so that no replica takes itself to be alone.
Catchup(r) ==
  \E p \in Device, pt \in Times :
    ApplyRemoteOps(r, OpsSince(log[p], frontier[r]), pt)

\* An application leaves a row alone once it has seen it deleted.
WritingLive(r) ==
  /\ Writing(r)
  /\ draft'[r] # {} => \A o \in applied[r] : o.column # Tombstone

RecordingNow(r) == \E p \in Device : RecordPeerFrontier(r, p, frontier[p])
AllPeersRecorded(r) == DOMAIN peerFrontiers[r] = Device \ {r}
CompactionAmongKnownPeers ==
  Init /\ [][KeysFirst(\E r \in Device :
                \/ WritingLive(r) \/ Catchup(r) \/ RecordingNow(r)
                \/ Compacting(r) /\ AllPeersRecorded(r))]_vars
=============================================================================
