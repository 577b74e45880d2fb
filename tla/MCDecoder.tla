----------------------------- MODULE MCDecoder -----------------------------
(***************************************************************************)
(* An instance of Decoder for TLC: relations that rename a column, keeping *)
(* their number, and then change the types of two and gain one, with the   *)
(* values of each type that are hard to print.                             *)
(***************************************************************************)
EXTENDS Decoder, SequencesExt

Key(name, type) == [name |-> name, type |-> type, key |-> TRUE]
Col(name, type) == [name |-> name, type |-> type, key |-> FALSE]

RenameThenAlter ==
    << << Key("id", "int4"), Col("tags", "_text") >>,
       << Key("id", "int4"), Col("labels", "_text") >>,
       << Key("id", "float8"), Col("labels", "json"), Col("note", "bool") >>,
       << Key("id", "_float8"), Col("labels", "text") >> >>

a == SqlString(<<"a">>)
SomeValues ==
    [ int4    |-> {Word("7")},
      bool    |-> {Word("t")},
      float8  |-> {Word("1.5"), Word("NaN")},
      json    |-> {Word("null"), Word("[7]")},
      text    |-> {SqlString(<<>>)},
      _float8 |-> {SqlArray(<<>>), SqlArray(<<Word("NaN"), SqlNull>>),
                   SqlArray(<<SqlArray(<<Word("1.5"), Word("7")>>)>>)},
      _text   |-> {SqlNull, SqlArray(<<a, SqlNull>>), SqlArray(<<SqlString(<<"NULL">>)>>),
                   SqlArray(<<SqlString(<<"a", ",", "a">>)>>)} ]

\* Every combination of the values of a layout's columns.
SomeRows ==
    [v \in DOMAIN RenameThenAlter |->
        FoldLeft(LAMBDA rows, c : {Append(row, x) : row \in rows, x \in SomeValues[c.type]},
                 {<<>>}, RenameThenAlter[v])]

SomeNumbers ==
    [ int2 |-> {<<"7">>}, int4 |-> {<<"7">>}, int8 |-> {<<"7">>}, oid |-> {<<"7">>},
      float4 |-> {<<"7">>, <<"1.5">>, <<"NaN">>}, float8 |-> {<<"7">>, <<"1.5">>, <<"NaN">>} ]
NotANumber == {<<"NaN">>}
SomeJson == <<"null">> :> JsonNull @@ <<"[7]">> :> JsonArray(<<JsonNumber(<<"7">>)>>)

RelationSymmetry == Permutations(Relations)
=============================================================================
