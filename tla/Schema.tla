------------------------------- MODULE Schema -------------------------------
(***************************************************************************)
(* packages/schema: field descriptors, the validation of local writes, the *)
(* opt-in check of rows read back, and the types inferred from a schema.   *)
(*                                                                         *)
(* A value says what it is and holds what validation looks at: the items   *)
(* of an array, the values at an object's keys, the text of a string, and  *)
(* of a number whether it is finite. A table is a function from column     *)
(* names to fields. Names on JavaScript's Object.prototype are left out.   *)
(***************************************************************************)
EXTENDS Naturals, Sequences, TLC
LOCAL INSTANCE SequencesExt

CONSTANTS Texts,     \* the strings
          MaxItems   \* bound: length of the arrays a type is enumerated with

Null == [is |-> "null"]
Undefined == [is |-> "undefined"]
Text(t) == [is |-> "string", text |-> t]
Number == [is |-> "number", finite |-> TRUE]
NaN == [is |-> "number", finite |-> FALSE]
Flag == [is |-> "boolean"]
ArrayValue(items) == [is |-> "array", items |-> items]
ObjectValue(at) == [is |-> "object", at |-> at]

-----------------------------------------------------------------------------
\* Builders. A field has at most one default.

Field(kind) ==
  [kind |-> kind, optional |-> FALSE, nullable |-> FALSE, default |-> {}]
ArrayOf(element) == Field("array") @@ [element |-> element]
ObjectOf(shape) == Field("object") @@ [shape |-> shape]
EnumOf(values) == Field("enum") @@ [values |-> values]

Optional(f) == [f EXCEPT !.optional = TRUE]
Nullable(f) == [f EXCEPT !.nullable = TRUE]
Default(f, v) == [f EXCEPT !.default = {v}]

-----------------------------------------------------------------------------
\* Validation.

\* Faulty variant: the keys of an object are not held against the shape.
RECURSIVE ValidWithExtraKeys(_, _)
ValidWithExtraKeys(f, v) ==
  CASE v = Null -> f.nullable
    [] v # Null /\ f.kind = "array" ->
         /\ v.is = "array"
         /\ \A i \in DOMAIN v.items : ValidWithExtraKeys(f.element, v.items[i])
    [] v # Null /\ f.kind = "object" ->
         /\ v.is = "object"
         /\ \A k \in DOMAIN f.shape :
              IF k \in DOMAIN v.at THEN ValidWithExtraKeys(f.shape[k], v.at[k])
                                   ELSE f.shape[k].optional
    [] v # Null /\ f.kind = "enum" -> v \in f.values
    [] OTHER -> v.is = f.kind /\ (f.kind = "number" => v.finite)

\* checkValue finds no problem.
RECURSIVE Valid(_, _)
Valid(f, v) ==
  CASE v = Null -> f.nullable
    [] v # Null /\ f.kind = "array" ->
         v.is = "array" /\ \A i \in DOMAIN v.items : Valid(f.element, v.items[i])
    [] v # Null /\ f.kind = "object" ->
         /\ v.is = "object"
         /\ DOMAIN v.at \subseteq DOMAIN f.shape
         /\ \A k \in DOMAIN f.shape :
              IF k \in DOMAIN v.at THEN Valid(f.shape[k], v.at[k])
                                   ELSE f.shape[k].optional
    [] v # Null /\ f.kind = "enum" -> v \in f.values
    [] OTHER -> v.is = f.kind /\ (f.kind = "number" => v.finite)

\* checkColumns does not throw.
ColumnsValid(table, data) ==
  \A c \in DOMAIN data : c \in DOMAIN table /\ Valid(table[c], data[c])

\* The columns whose default is written for want of a value.
Defaulted(table, data) ==
  {c \in DOMAIN table \ DOMAIN data : table[c].default # {}}

\* validateInsert does not throw.
InsertAccepted(table, data) ==
  /\ ColumnsValid(table, data)
  /\ \A c \in DOMAIN table \ DOMAIN data :
       table[c].default # {} \/ table[c].optional

\* Faulty variant: a default is a matter of reading, and is not written.
InsertedWithoutDefaults(table, data) == data

\* What validateInsert hands to the engine.
Inserted(table, data) ==
  data @@ [c \in Defaulted(table, data) |-> CHOOSE v \in table[c].default : TRUE]

UpdateAccepted(table, data) == DOMAIN data # {} /\ ColumnsValid(table, data)

\* Faulty variant: an update fills defaults as an insert does.
UpdatedWithDefaults(table, data) == Inserted(table, data)

\* What validateUpdate hands to the engine.
Updated(table, data) == data

\* Faulty variant: every column is required of a row.
ParseIssuesAllRequired(table, read) ==
  (DOMAIN read \ DOMAIN table)
    \cup {c \in DOMAIN table :
            IF c \in DOMAIN read THEN ~Valid(table[c], read[c]) ELSE TRUE}

\* The columns parseRow reports.
ParseIssues(table, read) ==
  (DOMAIN read \ DOMAIN table)
    \cup {c \in DOMAIN table :
            IF c \in DOMAIN read THEN ~Valid(table[c], read[c]) ELSE ~table[c].optional}

-----------------------------------------------------------------------------
\* The inferred types, as the sets of values and rows they stand for. Unlike
\* the validator these are built up, from the atoms.

\* The values of field f. At runtime a number is a finite one. An object has
\* every key of its shape, as s.object infers it; or, if lax, it may lack those
\* whose fields are optional.
RECURSIVE ValuesOf(_, _)
ValuesOf(f, lax) ==
  (IF f.nullable THEN {Null} ELSE {}) \cup
  CASE f.kind = "string" -> {Text(t) : t \in Texts}
    [] f.kind = "number" -> {Number}
    [] f.kind = "boolean" -> {Flag}
    [] f.kind = "enum" -> f.values
    [] f.kind = "array" ->
         {ArrayValue(items) : items \in BoundedSeq(ValuesOf(f.element, lax), MaxItems)}
    [] f.kind = "object" ->
         LET some == IF lax THEN {k \in DOMAIN f.shape : f.shape[k].optional} ELSE {}
             any == UNION {ValuesOf(f.shape[k], lax) : k \in DOMAIN f.shape}
         IN  {ObjectValue(at) :
                at \in {g \in UNION {[DOMAIN f.shape \ K -> any] : K \in SUBSET some} :
                          \A k \in DOMAIN g : g[k] \in ValuesOf(f.shape[k], lax)}}

\* OutOf, the inferred type.
OutOf(f) == ValuesOf(f, FALSE)

HasType(table, required, r, lax) ==
  /\ required \subseteq DOMAIN r
  /\ DOMAIN r \subseteq DOMAIN table
  /\ \A c \in DOMAIN r : r[c] \in IF lax THEN ValuesOf(table[c], TRUE) ELSE OutOf(table[c])

\* RowOf: what a read is said to return.
IsRow(table, r, lax) ==
  HasType(table, {c \in DOMAIN table : ~table[c].optional}, r, lax)

\* InsertInput: defaulted and optional columns may be omitted.
IsInsertInput(table, r, lax) ==
  HasType(table, {c \in DOMAIN table : ~table[c].optional /\ table[c].default = {}}, r, lax)

\* UpdateInput: any subset of the columns; the empty one is refused.
IsUpdateInput(table, r, lax) == DOMAIN r # {} /\ HasType(table, {}, r, lax)
=============================================================================
