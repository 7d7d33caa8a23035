----------------------------- MODULE MCSyncOnce -----------------------------
(***************************************************************************)
(* Constants of SyncOnce for TLC: one row with one data column, written    *)
(* and deleted.                                                            *)
(***************************************************************************)
EXTENDS SyncOnce

SetOrDelete ==
  {[row |-> "row", column |-> "c", value |-> FALSE],
   [row |-> "row", column |-> Tombstone, value |-> TRUE]}

\* Nothing comes between the two halves of a key exchange, in the code neither.
\* And a replica that takes its lock goes on until it is free: what others did
\* meanwhile they could as well do before or after, for they neither see nor
\* change what the lock protects. (Updates that fail are in the run "engine".)
\* A compaction that finds nothing to reclaim changes nothing.
Reclaimable(r) == \E o \in settled'[r] : o \notin cells[r] \/ o.column = Tombstone

SmallNext ==
  IF \E i \in Call : syncs[i].at = "keys"
    THEN \E i \in Call : KeysBack(i) /\ UNCHANGED collected
  ELSE IF \E r \in Device : ~Unlocked(r)
    THEN \E r \in Device :
           /\ ~Unlocked(r)
           /\ \/ Writing(r) /\ UNCHANGED <<syncs, collected>>
              \/ \E includeTombstones \in Compactions :
                   Collect(r, includeTombstones) /\ UNCHANGED syncs
  ELSE \/ \E i \in Call : CallStep(i)
       \/ \E r \in Device :
            \/ Writing(r) /\ UNCHANGED <<syncs, collected>>
            \/ CompactBegin(r) /\ Reclaimable(r) /\ UNCHANGED <<syncs, collected>>
            \/ Crash(r) /\ UNCHANGED collected

\* Calls are made in one direction.
Upwards == \A i \in Call : syncs'[i] # Idle => syncs'[i].a < syncs'[i].b

SmallSpec == SyncInit /\ [][SmallNext /\ Upwards]_syncVars
=============================================================================
