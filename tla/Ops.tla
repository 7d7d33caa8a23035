-------------------------------- MODULE Ops --------------------------------
(***************************************************************************)
(* Operations, the last-writer-wins merge of a set of them, and frontiers: *)
(* packages/core/src/op.ts and the merge rule of engine.ts.                *)
(*                                                                         *)
(* An op's id is its stamp and its device is the stamp's device, which     *)
(* validateOp enforces. One table stands for all: (table, row) is Row. Of  *)
(* the value only `value === true` matters, and only on the tombstone.     *)
(***************************************************************************)
EXTENDS Hlc, FiniteSets

CONSTANTS Row,         \* row ids, table included
          DataColumn   \* the ordinary columns

Tombstone == "-"
Column == DataColumn \cup {Tombstone}

Write == [row : Row, column : Column, value : BOOLEAN]
Op == [stamp : Stamp, row : Row, column : Column, value : BOOLEAN]

OpOf(stamp, w) ==
  [stamp |-> stamp, row |-> w.row, column |-> w.column, value |-> w.value]

Author(o) == o.stamp.device
SameCell(o, p) == o.row = p.row /\ o.column = p.column

-----------------------------------------------------------------------------
\* The materialized cells of a set of ops: the newest op of each cell.
Winners(S) ==
  {o \in S : \A p \in S : SameCell(o, p) => Leq(p.stamp, o.stamp)}

\* isTombstoned: the cell "-" of the row is won by a write of `true`.
Hidden(cells, row) ==
  \E o \in cells : o.row = row /\ o.column = Tombstone /\ o.value

\* What get, list and dump return: the cells of the rows not tombstoned.
View(cells) == {o \in cells : ~Hidden(cells, o.row)}

-----------------------------------------------------------------------------
\* Frontiers: the highest stamp seen from each device.

Frontier == [Device -> StampOrZero]
EmptyFrontier == [d \in Device |-> Zero]

\* The largest of a finite set of stamps.
Latest(H) == CHOOSE h \in H : \A g \in H : Leq(g, h)

StampsBy(S, d) == {o.stamp : o \in {p \in S : Author(p) = d}}

\* Faulty variant: the batch's own maximum replaces what was seen before.
AdvanceToBatch(f, S) ==
  [d \in Device |-> IF StampsBy(S, d) = {} THEN f[d] ELSE Latest(StampsBy(S, d))]

\* advanceFrontier over the ops of a batch.
Advance(f, S) == [d \in Device |-> Latest({f[d]} \cup StampsBy(S, d))]

\* aboveFrontier: the holder of f has not seen o.
Above(o, f) == Lt(f[Author(o)], o.stamp)

\* opsSince: the logged ops the holder of f is missing.
OpsSince(log, f) == {o \in log : Above(o, f)}
============================================================================
