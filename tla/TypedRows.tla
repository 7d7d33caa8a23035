----------------------------- MODULE TypedRows -----------------------------
(***************************************************************************)
(* One row of a space opened with a schema: written through the facade of  *)
(* packages/tangentfeed by this device and by peers of the same schema,    *)
(* cell by cell under last-writer-wins, and perhaps by peers of another    *)
(* schema, whom nothing validates.                                         *)
(*                                                                         *)
(* A peer's write is a set of cells of which any part may win.             *)
(***************************************************************************)
EXTENDS Schema

CONSTANTS Tables,      \* the table shapes a schema may declare
          Values,      \* values an application or a peer may write
          MaxForeign   \* bound: cells written by peers of another schema

VARIABLES table,     \* the table's shape
          cells,     \* the winning value of each cell of the row
          inserted,  \* the row's insert has been applied
          foreign,   \* cells written by peers of another schema
          last       \* the last validated write: what it gave, and its fate

rowVars == <<table, cells, inserted, foreign, last>>

Unknown == "unknown"

\* The objects an application may pass: declared columns, or an unknown one.
Given == UNION {[C -> Values] : C \in SUBSET DOMAIN table \cup {{Unknown}}}

TypedInit ==
  /\ table \in Tables
  /\ cells = [c \in {} |-> Null]
  /\ inserted = FALSE
  /\ foreign = 0
  /\ last = [call |-> "none", columns |-> {}, typed |-> TRUE, lax |-> TRUE, accepted |-> TRUE]

\* The facade's insert: the row's first write, by this device or another.
Insert(data) ==
  /\ ~inserted
  /\ DOMAIN cells = {}
  /\ last' = [call |-> "insert", columns |-> DOMAIN data,
              typed |-> IsInsertInput(table, data, FALSE),
              lax |-> IsInsertInput(table, data, TRUE),
              accepted |-> InsertAccepted(table, data)]
  /\ inserted' = InsertAccepted(table, data)
  /\ cells' = IF InsertAccepted(table, data) THEN Inserted(table, data) ELSE cells
  /\ UNCHANGED <<table, foreign>>

\* The facade's update. The engine does not ask whether the row exists.
Update(data) ==
  /\ last' = [call |-> "update", columns |-> DOMAIN data,
              typed |-> IsUpdateInput(table, data, FALSE),
              lax |-> IsUpdateInput(table, data, TRUE),
              accepted |-> UpdateAccepted(table, data)]
  /\ cells' = IF UpdateAccepted(table, data) THEN Updated(table, data) @@ cells ELSE cells
  /\ UNCHANGED <<table, inserted, foreign>>

\* An update made by a peer of the same schema arrives; won are the columns
\* in which it is the newest. A cell the row does not have yet it always wins.
PeerUpdate(data) ==
  /\ UpdateAccepted(table, data)
  /\ \E won \in SUBSET DOMAIN data :
       /\ DOMAIN data \ DOMAIN cells \subseteq won
       /\ cells' = [c \in won |-> Updated(table, data)[c]] @@ cells
  /\ last' = [last EXCEPT !.call = "none", !.columns = {}]
  /\ UNCHANGED <<table, inserted, foreign>>

\* "It never inspects data arriving from peers": any cell, any value.
ForeignWrite(c, v) ==
  /\ foreign < MaxForeign
  /\ foreign' = foreign + 1
  /\ cells' = (c :> v) @@ cells
  /\ last' = [last EXCEPT !.call = "none", !.columns = {}]
  /\ UNCHANGED <<table, inserted>>

TypedNext ==
  \/ \E data \in Given : Insert(data) \/ Update(data) \/ PeerUpdate(data)
  \/ \E c \in DOMAIN table \cup {Unknown}, v \in Values \ {Undefined} : ForeignWrite(c, v)

TypedSpec == TypedInit /\ [][TypedNext]_rowVars

\* materialize: a cell whose value is null is not in the row read.
Read == [c \in {d \in DOMAIN cells : cells[d] # Null} |-> cells[c]]

-----------------------------------------------------------------------------
\* "One schema object drives both" the inferred types and validation
\* (schema/README.md), at every depth of arrays and objects, defaults and
\* options included: no write of the inferred type is refused, and none is
\* accepted that is not of it, with one difference. Validation lets an object
\* lack a key whose field is optional; the inferred type has every key.
AcceptsWhatIsTyped ==
  /\ last.typed => last.accepted
  /\ last.accepted <=> last.lax

\* "The default is written as a real cell": a row written through one schema,
\* whichever peers' updates won which cells, has a cell for every column that
\* is not optional, none for any other, and in each a value the schema admits.
\* This is said of the cells stored. It is not true that a column with a
\* default is "always present on read", as schema/README.md goes on: materialize
\* leaves a cell out whose value is null, and .nullable() lets it be null.
RowsStoredTyped ==
  inserted /\ foreign = 0 => IsRow(table, cells, TRUE)

\* parseRow accepts the rows of the inferred type and no others, whoever wrote
\* them, with the same difference: an object may lack an optional key.
ParseIsExact ==
  /\ IsRow(table, Read, FALSE) => ParseIssues(table, Read) = {}
  /\ ParseIssues(table, Read) = {} <=> IsRow(table, Read, TRUE)

\* validateUpdate applies no defaults, which "would clobber a peer's value with
\* a locally invented one": an update leaves the cells it was not given alone.
UpdatesTouchOnlyGiven ==
  [][last'.call = "update" =>
       \A c \in DOMAIN cells' \ last'.columns : c \in DOMAIN cells /\ cells'[c] = cells[c]]_rowVars
=============================================================================
