------------------------------ MODULE Decoder ------------------------------
(***************************************************************************)
(* PgOutputDecoder (src/src/postgres/decoder.rs): it turns the messages of *)
(* a pgoutput stream into change events.  A row change names its relation  *)
(* by id and its columns by position only; their names come from the       *)
(* latest RELATION message for that id, and the transaction from the       *)
(* latest BEGIN, both remembered across messages.                          *)
(*                                                                         *)
(* The server is external: it sends a RELATION message before the first    *)
(* change of a relation in a session and again after the relation changed, *)
(* and knows nothing of what earlier sessions were told.  How it spells    *)
(* the names in that message decides whether the decoder can read it: the  *)
(* decoder expects their length in front, PostgreSQL ends them with a zero *)
(* byte.                                                                   *)
(***************************************************************************)
EXTENDS Integers, Sequences, ValueParser

CONSTANTS
    Relations,          \* relation ids
    Layouts,            \* the columns a relation may have, one layout after another
    Rows,               \* of each layout: the rows a relation may hold, tuples of values
    Spellings,          \* how the server may spell names: "prefixed", "terminated"
    Misread,            \* stands for a cache entry made of a message read wrongly
    Garbled,            \* stands for a row decoded with such an entry
    Missing,            \* stands for a tuple a message does not hold
    Unchanged,          \* stands for a TOAST value a message leaves out
    MaxTransactions     \* bound: transactions

ASSUME DecoderAssumption ==
    /\ Relations # {}
    /\ Layouts \in Seq(Seq([name : STRING, type : STRING, key : BOOLEAN])) /\ Layouts # <<>>
    /\ \A v \in DOMAIN Layouts :
          /\ \A k, m \in DOMAIN Layouts[v] : Layouts[v][k].name = Layouts[v][m].name => k = m
          /\ \A row \in Rows[v] :
                /\ row = [k \in DOMAIN Layouts[v] |-> row[k]]
                /\ \A k \in DOMAIN row : /\ row[k] # Unchanged
                                          /\ Fits(row[k], Layouts[v][k].type)
    /\ SqlNull # Unchanged
    /\ Spellings \subseteq {"prefixed", "terminated"}
    /\ Misread \notin DOMAIN Layouts \union {0}
    /\ MaxTransactions \in Nat

Versions == DOMAIN Layouts

VARIABLES
    spelling,       \* how the server spells names
    relations,      \* the decoder's cache: the layout of each relation, 0 for none
    currentXid,     \* current_xid, 0 for None
    layout,         \* the layout each relation has in the database
    announced,      \* the layout this session last told of, 0 for none
    xid,            \* the transaction being streamed, 0 before the first
    streaming,      \* is the stream inside a transaction?
    message,        \* the last message sent, and the row its old tuple is taken from
    result          \* what decode made of it

decoder == <<relations, currentXid>>
database == <<spelling, layout, announced, xid, streaming>>
vars == <<decoder, database, message, result>>

\* The types whose values may be stored outside of their row.
Storable == {"text", "json", "jsonb"} \union DOMAIN ElementType

\* In the new row of an update, stored values that did not change are left out.
NewRows(v) ==
    {[k \in DOMAIN row |-> IF k \in omitted THEN Unchanged ELSE row[k]] :
        row \in Rows[v],
        omitted \in SUBSET {k \in DOMAIN Layouts[v] : Layouts[v][k].type \in Storable}}

\* What an old tuple holds of its row: everything under REPLICA IDENTITY FULL,
\* otherwise its key, with NULL in the place of every other column.
KeyOnly(row, v) ==
    [k \in DOMAIN row |-> IF Layouts[v][k].key THEN row[k] ELSE SqlNull]

OldTuples(row, v) == {row, KeyOnly(row, v)}

NoResult == [kind |-> "none"]
DecodeError(reason) == [kind |-> "error", reason |-> reason]

Init ==
    /\ spelling \in Spellings
    /\ relations = [r \in Relations |-> 0]
    /\ currentXid = 0
    /\ layout = [r \in Relations |-> 1]
    /\ announced = [r \in Relations |-> 0]
    /\ xid = 0
    /\ streaming = FALSE
    /\ message = [type |-> "none"]
    /\ result = NoResult

-----------------------------------------------------------------------------
(* The decoder                                                             *)

\* decode_tuple_data fails when the number of columns is not the relation's or
\* a column is neither NULL nor a text; what a misread entry says of the number
\* of columns may be anything.
Undecodable(tuple, v) ==
    \/ \E k \in DOMAIN tuple : tuple[k] = Unchanged
    \/ v # Misread /\ Len(tuple) # Len(Layouts[v])

Names(v) == {Layouts[v][k].name : k \in DOMAIN Layouts[v]}

\* A column: NULL is sent as such, any other value as text.
Column(value, type) ==
    IF value = SqlNull THEN JsonNull ELSE ParsePostgresValue(PgText(value), type)

\* A JSON object: the JSON value of each column name.
Row(tuple, v) ==
    [c \in Names(v) |->
        LET k == CHOOSE k \in DOMAIN tuple : Layouts[v][k].name = c
        IN  Column(tuple[k], Layouts[v][k].type)]

\* Mutant: a BEGIN is only logged.
DecodeBeginOnlyLogged(x) ==
    result' = [kind |-> "begin", xid |-> x] /\ UNCHANGED decoder

DecodeBegin(x) ==
    /\ currentXid' = x
    /\ result' = [kind |-> "begin", xid |-> x]
    /\ UNCHANGED relations

\* Mutant: a commit clears the cache.
DecodeCommitForgetting ==
    /\ relations' = [r \in Relations |-> 0]
    /\ result' = [kind |-> "commit"]
    /\ UNCHANGED currentXid

\* A commit is passed on; current_xid stays.
DecodeCommit == result' = [kind |-> "commit"] /\ UNCHANGED decoder

\* Mutant: the first layout of a relation is kept.
DecodeRelationOnce(r, v) ==
    /\ relations' = IF relations[r] = 0 THEN [relations EXCEPT ![r] = v] ELSE relations
    /\ result' = NoResult
    /\ UNCHANGED currentXid

\* A message read wrongly names a length it does not hold, ends where a byte is
\* still to come, which is a panic, or happens to make an entry.
DecodeRelation(r, v) ==
    /\ \/ /\ spelling = "prefixed"
          /\ relations' = [relations EXCEPT ![r] = v]
          /\ result' = NoResult
       \/ /\ spelling = "terminated"
          /\ result' \in {DecodeError("relation"), [kind |-> "panic"]}
          /\ UNCHANGED relations
       \/ /\ spelling = "terminated"
          /\ relations' = [relations EXCEPT ![r] = Misread]
          /\ result' = NoResult
    /\ UNCHANGED currentXid

Decoded(tuple, v) ==
    CASE tuple = Missing                -> Missing
      [] tuple # Missing /\ v = Misread -> Garbled
      [] OTHER                          -> Row(tuple, v)

\* decode_insert, decode_update and decode_delete look the relation up, decode
\* the tuples the message holds and build the event.
Change(op, r, old, new) ==
    LET v == relations[r]
        tuples == {old, new} \ {Missing} IN
    /\ \/ v = 0 /\ result' = DecodeError("unknown relation")
       \/ /\ v # 0
          /\ v = Misread \/ \E tuple \in tuples : Undecodable(tuple, v)
          /\ result' = DecodeError("tuple")
       \/ /\ v # 0
          /\ \A tuple \in tuples : ~Undecodable(tuple, v)
          /\ result' = [kind |-> "change", op |-> op, relation |-> r, xid |-> currentXid,
                        before |-> Decoded(old, v), after |-> Decoded(new, v)]
    /\ UNCHANGED decoder

DecodeInsert(r, new) == Change("insert", r, Missing, new)

DecodeUpdate(r, old, new) == Change("update", r, old, new)

DecodeDelete(r, old) == Change("delete", r, old, Missing)

\* decode_truncate is only logged.
DecodeTruncate == result' = NoResult /\ UNCHANGED decoder

-----------------------------------------------------------------------------
(* The stream: one message is sent and decoded                             *)

\* A panic ends the process: nothing is decoded before the next session.
Alive == result.kind # "panic"

Begin ==
    /\ Alive
    /\ ~streaming
    /\ xid < MaxTransactions
    /\ xid' = xid + 1
    /\ streaming' = TRUE
    /\ message' = [type |-> "begin"]
    /\ DecodeBegin(xid')
    /\ UNCHANGED <<spelling, layout, announced>>

Commit ==
    /\ Alive
    /\ streaming
    /\ streaming' = FALSE
    /\ message' = [type |-> "commit"]
    /\ DecodeCommit
    /\ UNCHANGED <<spelling, layout, announced, xid>>

Announce(r) ==
    /\ Alive
    /\ streaming
    /\ announced[r] # layout[r]
    /\ announced' = [announced EXCEPT ![r] = layout[r]]
    /\ message' = [type |-> "relation"]
    /\ DecodeRelation(r, layout[r])
    /\ UNCHANGED <<spelling, layout, xid, streaming>>

\* A row change of relation r, of the layout the relation has.
Send(r, m) ==
    /\ Alive
    /\ streaming
    /\ announced[r] = layout[r]
    /\ message' = m
    /\ UNCHANGED database

Insert(r) == \E new \in Rows[layout[r]] :
    /\ Send(r, [type |-> "insert", was |-> Missing, old |-> Missing, new |-> new])
    /\ DecodeInsert(r, new)

\* An old tuple is there when the replica identity is full or the key changed.
Update(r) == \E new \in NewRows(layout[r]), was \in Rows[layout[r]] :
    \E old \in OldTuples(was, layout[r]) \union {Missing} :
        /\ Send(r, [type |-> "update", was |-> was, old |-> old, new |-> new])
        /\ DecodeUpdate(r, old, new)

Delete(r) == \E was \in Rows[layout[r]] : \E old \in OldTuples(was, layout[r]) :
    /\ Send(r, [type |-> "delete", was |-> was, old |-> old, new |-> Missing])
    /\ DecodeDelete(r, old)

Truncate(r) == Send(r, [type |-> "truncate"]) /\ DecodeTruncate

\* ALTER TABLE gives the relation its next layout.
AlterTable(r) ==
    /\ layout[r] + 1 \in Versions
    /\ layout' = [layout EXCEPT ![r] = @ + 1]
    /\ UNCHANGED <<spelling, decoder, announced, xid, streaming, message, result>>

\* A new session, at a transaction's beginning, with a new decoder.
NewSession ==
    /\ relations' = [r \in Relations |-> 0]
    /\ currentXid' = 0
    /\ announced' = [r \in Relations |-> 0]
    /\ streaming' = FALSE
    /\ message' = [type |-> "none"]
    /\ result' = NoResult
    /\ UNCHANGED <<spelling, layout, xid>>

Next ==
    \/ Begin \/ Commit \/ NewSession
    \/ \E r \in Relations :
          \/ Announce(r) \/ AlterTable(r) \/ Truncate(r)
          \/ Insert(r) \/ Update(r) \/ Delete(r)

Spec == Init /\ [][Next]_vars

-----------------------------------------------------------------------------
(* Correctness                                                             *)

\* Every variable has its type; an event names a transaction that was begun.
TypeOK ==
    /\ spelling \in Spellings
    /\ relations \in [Relations -> Versions \union {0, Misread}]
    /\ currentXid \in 0 .. MaxTransactions
    /\ layout \in [Relations -> Versions]
    /\ announced \in [Relations -> Versions \union {0}]
    /\ xid \in 0 .. MaxTransactions
    /\ streaming \in BOOLEAN
    /\ result.kind = "change" =>
          /\ result.relation \in Relations
          /\ result.xid \in 1 .. MaxTransactions

\* Where it can read RELATION messages it always knows the relation of a change,
\* and its columns: it forgets a relation only when the server does, at the start
\* of a session, and the one change it gives up is an update that leaves a stored
\* value out. Where it cannot, no change becomes an event with its rows: each
\* fails, or has rows that come of a misread message.
FailuresExplained ==
    /\ spelling = "prefixed" /\ result.kind \in {"error", "panic"} =>
          /\ result.kind = "error" /\ result.reason = "tuple"
          /\ message.type = "update"
          /\ \E k \in DOMAIN message.new : message.new[k] = Unchanged
    /\ spelling = "terminated" /\ result.kind = "change" =>
          {result.before, result.after} \subseteq {Missing, Garbled}

\* The decoded row has under each column's name what the parser makes of that
\* column's value and type, as they were when the row was sent, unless all the
\* decoder has of the relation is a misread message.
NamesRow(row, tuple, r) ==
    LET columns == Layouts[announced[r]] IN
    \/ tuple = Missing /\ row = Missing
    \/ tuple # Missing /\ row = Garbled /\ relations[r] = Misread
    \/ /\ tuple # Missing
       /\ DOMAIN row = Names(announced[r])
       /\ \A k \in DOMAIN tuple :
             row[columns[k].name] = Column(tuple[k], columns[k].type)

\* An event has the rows of its own message under the names their columns had
\* when they were sent, in the transaction they were written in, whatever
\* schema changes and sessions came before.
EventIsTrue ==
    result.kind = "change" =>
        /\ result.xid = xid
        /\ result.op = message.type
        /\ NamesRow(result.before, message.old, result.relation)
        /\ NamesRow(result.after, message.new, result.relation)

\* A value of the database is shown in a decoded row, or it is one no consumer
\* can make out.
ShowsValue(row, value, column) ==
    Shows(row[column.name], value) \/ Blurred(value, column.type)

\* The decoded row shows a row of the database, but for what the tuple withheld
\* of it: there it shows NULL, outside of the key.
ShowsRow(row, tuple, whole, r) ==
    tuple # Missing /\ row # Garbled =>
        \A k \in DOMAIN tuple : LET column == Layouts[announced[r]][k] IN
            \/ ShowsValue(row, whole[k], column)
            \/ tuple[k] # whole[k] /\ ~column.key /\ row[column.name] = JsonNull

\* An event shows the values the database had: a consumer takes nothing for NULL
\* that is not, no string for two elements of an array, and no value for that
\* of another type, except where parse_postgres_value blurs (Blurred) and in the
\* old row, of which the server may have sent the key alone.
ValuesShown ==
    result.kind = "change" =>
        /\ ShowsRow(result.before, message.old, message.was, result.relation)
        /\ ShowsRow(result.after, message.new, message.new, result.relation)
=============================================================================
