----------------------------- MODULE ValueParser -----------------------------
(***************************************************************************)
(* parse_postgres_value (src/src/postgres/decoder.rs): what becomes of the *)
(* text form of a column value, by the type of its column.  A text is a    *)
(* sequence of tokens, the punctuation of arrays and the words between it. *)
(*                                                                         *)
(* The text form is external: it is what the output functions of           *)
(* PostgreSQL print for a value of the database.                           *)
(***************************************************************************)
EXTENDS Integers, Sequences
LOCAL INSTANCE SequencesExt

CONSTANTS
    Numbers,    \* of each numeric type: the words that parse as a number of it
    NonFinite,  \* those that parse as an infinity or as no number at all
    JsonOf      \* the JSON value of each word that is a JSON text

-----------------------------------------------------------------------------
(* Values of the database and their texts                                  *)

\* An SQL value is NULL, a word (whatever is printed as it is), the text of a
\* character string, or a one-dimensional or nested array.
SqlNull == [sql |-> "null"]
Word(word) == [sql |-> "word", word |-> word]
SqlString(text) == [sql |-> "string", text |-> text]
SqlArray(elements) == [sql |-> "array", elements |-> elements]

Punctuation == {"{", "}", ",", "QUOTE", " "}

\* The text of an array's element: strings are quoted when they are empty, look
\* like NULL or contain punctuation.
ElementText(value) ==
    CASE value.sql = "null"   -> <<"NULL">>
      [] value.sql = "word"   -> <<value.word>>
      [] value.sql = "string" ->
             IF value.text \in {<<>>, <<"NULL">>} \/ ToSet(value.text) \cap Punctuation # {}
             THEN <<"QUOTE">> \o value.text \o <<"QUOTE">> ELSE value.text

Commas(texts) ==
    IF texts = <<>> THEN <<>>
    ELSE Tail(FlattenSeq([k \in DOMAIN texts |-> <<",">> \o texts[k]]))

FlatArrayText(elements) ==
    <<"{">> \o Commas([k \in DOMAIN elements |-> ElementText(elements[k])]) \o <<"}">>

PgText(value) ==
    CASE value.sql = "word"   -> <<value.word>>
      [] value.sql = "string" -> value.text
      [] value.sql = "array"  ->
             IF \E k \in DOMAIN value.elements : value.elements[k].sql = "array"
             THEN <<"{">> \o Commas([k \in DOMAIN value.elements |->
                                        FlatArrayText(value.elements[k].elements)]) \o <<"}">>
             ELSE FlatArrayText(value.elements)

-----------------------------------------------------------------------------
(* JSON values and the parser                                              *)

JsonNull == [json |-> "null"]
JsonBool(b) == [json |-> "bool", bool |-> b]
JsonNumber(word) == [json |-> "number", number |-> word]   \* as its type rounds it
JsonString(text) == [json |-> "string", string |-> text]
JsonArray(elements) == [json |-> "array", array |-> elements]

IntegerTypes == {"int2", "int4", "int8", "oid"}
FloatTypes == {"float4", "float8"}
ElementType == [_bool |-> "bool", _int2 |-> "int2", _int4 |-> "int4", _int8 |-> "int8",
                _text |-> "text", _varchar |-> "varchar",
                _float4 |-> "float4", _float8 |-> "float8"]

\* The types without elements. What cannot be parsed, and every type that is not
\* listed (numeric, character, date and time, uuid, network), stays a string.
ParseScalar(text, type) ==
    CASE type = "bool" /\ text \in {<<"t">>, <<"f">>} -> JsonBool(text = <<"t">>)
      [] type \in IntegerTypes /\ text \in Numbers[type] -> JsonNumber(text)
      [] type \in FloatTypes /\ text \in Numbers[type] ->
             IF text \in NonFinite THEN JsonNull ELSE JsonNumber(text)
      [] type \in {"json", "jsonb"} /\ text \in DOMAIN JsonOf -> JsonOf[text]
      [] type = "void" -> JsonNull
      [] OTHER -> JsonString(text)

\* str::split(','): the parts between the commas, at least one.
Split(text) ==
    FoldLeft(LAMBDA parts, token :
                 IF token = "," THEN Append(parts, <<>>)
                 ELSE [parts EXCEPT ![Len(parts)] = Append(@, token)],
             << <<>> >>, text)

\* Mutant: quoted elements are split like the others.
KeepTextNever(text) ==
    text = <<>> \/ Head(text) # "{" \/ Last(text) # "}"

\* The texts parse_array_value gives back as they are: those in no braces, an
\* array with explicit bounds say, and those with a quoted element.
KeepText(text) ==
    text = <<>> \/ Head(text) # "{" \/ Last(text) # "}" \/ Contains(text, "QUOTE")

ParseArray(text, type) ==
    LET inner == SubSeq(text, 2, Len(text) - 1)
        parts == Split(inner) IN
    CASE KeepText(text) -> JsonString(text)
      [] ~KeepText(text) /\ inner = <<>> -> JsonArray(<<>>)
      [] ~KeepText(text) /\ inner # <<>> ->
             JsonArray([k \in DOMAIN parts |->
                 IF parts[k] = <<"NULL">> THEN JsonNull ELSE ParseScalar(parts[k], type)])

ParsePostgresValue(text, type) ==
    IF type \in DOMAIN ElementType THEN ParseArray(text, ElementType[type])
                                   ELSE ParseScalar(text, type)

\* An array of a type the parser splits at its commas.
SplitArray(value, type) ==
    value.sql = "array" /\ type \in DOMAIN ElementType /\ ~KeepText(PgText(value))

\* The types whose texts are read as something else than a string.
ParsedTypes == {"bool", "json", "jsonb"} \union IntegerTypes \union FloatTypes

\* What a column of the type can hold: NULL, what is printed as one word, a
\* character string, or an array, of a type that is listed or of another.
Fits(value, type) ==
    /\ type # "void"
    /\ \/ value = SqlNull
       \/ value.sql = "word" /\ value = Word(value.word) /\ type \notin DOMAIN ElementType
       \/ /\ value.sql = "string" /\ value = SqlString(value.text)
          /\ type \notin ParsedTypes \union DOMAIN ElementType
       \/ value.sql = "array" /\ value = SqlArray(value.elements) /\ type \notin ParsedTypes

-----------------------------------------------------------------------------
(* What a consumer may conclude                                            *)

\* Values no consumer can tell from NULL, or from others: numbers that are not
\* finite, JSON's own null, and what is nested in an array or not finite there.
Blurred(value, type) ==
    CASE value.sql = "word" -> \/ type \in FloatTypes /\ <<value.word>> \in NonFinite
                               \/ type \in {"json", "jsonb"} /\ JsonOf[<<value.word>>] = JsonNull
      [] value.sql = "array" -> \E k \in DOMAIN value.elements :
             \/ value.elements[k].sql = "array"
             \/ /\ value.elements[k].sql = "word"
                /\ <<value.elements[k].word>> \in NonFinite
      [] OTHER -> FALSE

\* The JSON value shows a scalar: as itself, or as its text.
ShowsScalar(json, value) ==
    CASE value.sql = "null" -> json = JsonNull
      [] value.sql = "word" ->
             \/ json \in {JsonNumber(<<value.word>>), JsonString(<<value.word>>)}
             \/ value.word \in {"t", "f"} /\ json = JsonBool(value.word = "t")
             \/ <<value.word>> \in DOMAIN JsonOf /\ json = JsonOf[<<value.word>>]
      [] value.sql = "string" -> json = JsonString(value.text)

\* The JSON value shows a value of the database: a scalar, an array element by
\* element, or an array as its text.
Shows(json, value) ==
    IF value.sql = "array"
    THEN \/ json = JsonString(PgText(value))
         \/ /\ json.json = "array"
            /\ DOMAIN json.array = DOMAIN value.elements
            /\ \A k \in DOMAIN json.array : ShowsScalar(json.array[k], value.elements[k])
    ELSE ShowsScalar(json, value)
=============================================================================
