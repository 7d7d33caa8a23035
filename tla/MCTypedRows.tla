---------------------------- MODULE MCTypedRows ----------------------------
(***************************************************************************)
(* Constants of TypedRows for TLC: tables of two columns that between them *)
(* have every kind of field and every flag, and values of every kind, the  *)
(* arrays and objects among them nested once, right and wrong.             *)
(***************************************************************************)
EXTENDS TypedRows

TwoTexts == {"a", "b"}

Plain == [name |-> Field("string"),
          done |-> Default(Field("boolean"), Flag)]
Loose == [name |-> Nullable(Optional(Field("string"))),
          size |-> Nullable(Default(EnumOf({Text("a"), Number}), Number))]
Nested == [tags |-> ArrayOf(Nullable(Field("string"))),
           place |-> ObjectOf([lat |-> Field("number"), lon |-> Optional(Field("number"))])]
Deep == [list |-> Optional(ArrayOf(ObjectOf([lat |-> Field("number")]))),
         place |-> Nullable(ObjectOf([lat |-> ArrayOf(Field("number"))]))]
AllTables == {Plain, Loose, Nested, Deep}

Atoms == {Null, Undefined, Text("a"), Text("b"), Number, NaN, Flag}
At(k, v) == ObjectValue([x \in {k} |-> v])
AllValues ==
  Atoms \cup {ArrayValue(<<>>), ArrayValue(<<Text("b"), Null>>), ArrayValue(<<Number>>),
              At("lat", Number), At("lat", NaN), At("lat", ArrayValue(<<Number>>)),
              At("lon", Number), ObjectValue([lat |-> Number, lon |-> Number]),
              ObjectValue([lat |-> Number, alt |-> Number]),
              ArrayValue(<<At("lat", Number)>>)}
=============================================================================
