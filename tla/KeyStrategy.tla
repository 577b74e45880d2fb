----------------------------- MODULE KeyStrategy -----------------------------
(***************************************************************************)
(* KeyStrategy::extract_key (src/src/kafka/key_strategy.rs): the message   *)
(* key of a change event, an optional text.  A text is a sequence of       *)
(* pieces; an option is a sequence of at most one element; the names a     *)
(* strategy lists are paths, sequences of the parts between their dots.    *)
(*                                                                         *)
(* A JSON value is null, an object with its fields, or something else; the *)
(* last two have a text, that of `Value::to_string` or the string's own.   *)
(***************************************************************************)
LOCAL INSTANCE SequencesExt

None == <<>>
Some(x) == <<x>>

Null == [kind |-> "null"]
Scalar(text) == [kind |-> "scalar", text |-> text]
Object(fields, text) == [kind |-> "object", fields |-> fields, text |-> text]

\* One step along a path; only objects have fields.
Get(value, part) ==
    IF value # None /\ value[1].kind = "object" /\ part \in DOMAIN value[1].fields
    THEN Some(value[1].fields[part])
    ELSE None

Follow(value, parts) == FoldLeft(Get, value, parts)

\* extract_field_value: the text at the end of the path, if there is any.  The
\* first part of a path names a column of the image.
FieldValue(image, path) ==
    LET value == Follow(Get(image, Head(path)), Tail(path)) IN
    IF value = None \/ value[1] = Null THEN None ELSE Some(value[1].text)

\* extract_composite_key: all the fields, joined with ":", or nothing.
Joined(values) ==
    IF values = <<>> \/ None \in ToSet(values)
    THEN None
    ELSE Some(Tail(FlattenSeq([k \in DOMAIN values |-> <<":">> \o values[k][1]])))

CompositeKey(image, fields) ==
    Joined([k \in DOMAIN fields |-> FieldValue(image, fields[k])])

\* Mutant: the new image is used for every operation.
ImageAfter(event) == event.after

\* The image of the row that the key is taken from.
Image(event) == IF event.op = "Delete" THEN event.before ELSE event.after

\* The strategies, with the fields or the path they were given.
TableName == [kind |-> "TableName"]
PrimaryKey(columns) == [kind |-> "PrimaryKey", fields |-> columns]
FieldPath(path) == [kind |-> "FieldPath", path |-> path]
Composite(fields) == [kind |-> "Composite", fields |-> fields]
NoStrategy == [kind |-> "None"]

\* The key a strategy takes from an image of the row.
KeyFrom(strategy, image) ==
    CASE strategy.kind = "FieldPath" -> FieldValue(image, strategy.path)
      [] strategy.kind \in {"PrimaryKey", "Composite"} -> CompositeKey(image, strategy.fields)

ExtractKey(strategy, event) ==
    CASE strategy = NoStrategy -> None
      [] strategy = TableName  -> Some(<<event.table>>)
      [] strategy \notin {NoStrategy, TableName} /\ Image(event) = None -> None
      [] OTHER -> KeyFrom(strategy, Image(event))

\* The columns that a strategy reads.
Columns(strategy) ==
    CASE strategy.kind = "FieldPath" -> {Head(strategy.path)}
      [] strategy.kind \in {"PrimaryKey", "Composite"} ->
             {Head(strategy.fields[k]) : k \in DOMAIN strategy.fields}
      [] OTHER -> {}
=============================================================================
