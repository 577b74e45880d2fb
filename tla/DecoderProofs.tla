--------------------------- MODULE DecoderProofs ---------------------------
(***************************************************************************)
(* Proofs about Decoder, whatever the relations, their layouts and rows:   *)
(* if the decoder can read RELATION messages its cache is what the server  *)
(* announced, so that every change is decoded under the right names and in *)
(* the right transaction, and only an update that leaves a stored value    *)
(* out fails; if it cannot, no change becomes an event with its rows.      *)
(***************************************************************************)
EXTENDS Decoder, SequenceTheorems, TLAPS

\* The decoder knows what the server announced, no more and no less, or nothing
\* that is right.
CacheIsCurrent ==
    /\ spelling = "prefixed" => relations = announced
    /\ spelling = "terminated" => \A r \in Relations : relations[r] \in {0, Misread}

\* Inside a transaction it knows which one.
XidIsCurrent == streaming => currentXid = xid /\ xid # 0

\* The inductive invariant.
IInv == TypeOK /\ CacheIsCurrent /\ XidIsCurrent /\ FailuresExplained /\ EventIsTrue

-----------------------------------------------------------------------------
(* Layouts and rows                                                        *)

\* There is a first layout, and every layout is a sequence of columns.
LEMMA LayoutsType ==
    /\ Versions \subseteq Nat /\ 1 \in Versions /\ 0 \notin Versions
    /\ \A v \in Versions : /\ Layouts[v] \in Seq([name : STRING, type : STRING, key : BOOLEAN])
                           /\ Len(Layouts[v]) \in Nat
                           /\ DOMAIN Layouts[v] = 1 .. Len(Layouts[v])
<1> DEFINE Columns == Seq([name : STRING, type : STRING, key : BOOLEAN])
<1>1. Layouts \in Seq(Columns) /\ Layouts # <<>>
  BY DecoderAssumption DEF DecoderAssumption
<1> HIDE DEF Columns
<1>2. /\ Len(Layouts) \in Nat \ {0}
      /\ Versions = 1 .. Len(Layouts)
      /\ \A v \in Versions : Layouts[v] \in Columns
  BY <1>1, LenProperties, ElementOfSeq, EmptySeq DEF Versions
<1>3. \A v \in Versions : /\ Len(Layouts[v]) \in Nat
                          /\ DOMAIN Layouts[v] = 1 .. Len(Layouts[v])
  BY <1>2, LenProperties DEF Columns
<1> QED
  BY <1>2, <1>3 DEF Columns

\* The rows of a table and what old tuples hold of them.
Tuples(v) == UNION {OldTuples(row, v) : row \in Rows[v]}

\* A row of the table has a value in each column, that fits it.
LEMMA RowsType ==
    ASSUME NEW v \in Versions, NEW row \in Rows[v]
    PROVE  /\ row = [k \in DOMAIN Layouts[v] |-> row[k]]
           /\ DOMAIN row = DOMAIN Layouts[v]
           /\ \A k \in DOMAIN row : row[k] # Unchanged /\ Fits(row[k], Layouts[v][k].type)
BY DecoderAssumption DEF DecoderAssumption, Versions

\* The tuples of a table are decoded: they have as many values as columns.
LEMMA TuplesDecode ==
    ASSUME NEW v \in Versions, NEW row \in Tuples(v)
    PROVE  DOMAIN row = DOMAIN Layouts[v] /\ ~Undecodable(row, v)
<1>1. row = [k \in DOMAIN Layouts[v] |-> row[k]] /\ \A k \in DOMAIN row : row[k] # Unchanged
  <2>1. PICK whole \in Rows[v] : row \in {whole, KeyOnly(whole, v)}
    BY DEF Tuples, OldTuples
  <2>2. SqlNull # Unchanged
    BY DecoderAssumption DEF DecoderAssumption
  <2> QED
    BY <2>1, <2>2, RowsType DEF KeyOnly
<1> DEFINE Fields == {row[k] : k \in DOMAIN row}
<1>2. DOMAIN row = 1 .. Len(Layouts[v]) /\ Len(Layouts[v]) \in Nat
  BY <1>1, LayoutsType
<1>3. row \in Seq(Fields)
  <2>1. row \in [1 .. Len(Layouts[v]) -> Fields]
    BY <1>1, <1>2
  <2> QED
    BY <1>2, <2>1, SeqDef
<1> HIDE DEF Fields
<1>4. Len(row) \in Nat /\ DOMAIN row = 1 .. Len(row)
  BY <1>3, LenProperties
<1>5. Len(row) = Len(Layouts[v])
  BY <1>2, <1>4
<1> QED
  BY <1>1, <1>2, <1>5, LayoutsType DEF Undecodable

\* The new row of an update is a row of the table, unless it leaves a value out.
LEMMA NewRowsComplete ==
    ASSUME NEW v \in Versions, NEW row \in NewRows(v)
    PROVE  row \in Rows[v] \/ \E k \in DOMAIN row : row[k] = Unchanged
<1>1. PICK whole \in Rows[v], omitted \in SUBSET (DOMAIN Layouts[v]) :
        row = [k \in DOMAIN whole |-> IF k \in omitted THEN Unchanged ELSE whole[k]]
  BY DEF NewRows
<1>2. DOMAIN whole = 1 .. Len(Layouts[v])
  BY RowsType, LayoutsType
<1>3. CASE omitted = {}
  <2>1. row = [k \in DOMAIN whole |-> whole[k]]
    BY <1>1, <1>3
  <2>2. whole = [k \in DOMAIN whole |-> whole[k]]
    BY RowsType
  <2> QED
    BY <2>1, <2>2
<1>4. CASE omitted # {}
  BY <1>1, <1>2, <1>4, RowsType
<1> QED
  BY <1>3, <1>4

\* A decoded row names the columns of its layout.
LEMMA RowNames == \A tuple, v : DOMAIN Row(tuple, v) = Names(v)
BY DEF Row

\* Under the name of a column is the value of that column: names are not used
\* twice.
LEMMA RowByColumn ==
    ASSUME NEW v \in Versions, NEW tuple, DOMAIN tuple = DOMAIN Layouts[v],
           NEW k \in DOMAIN tuple
    PROVE  Row(tuple, v)[Layouts[v][k].name] = Column(tuple[k], Layouts[v][k].type)
<1> DEFINE c == Layouts[v][k].name
           j == CHOOSE m \in DOMAIN tuple : Layouts[v][m].name = c
<1>1. c \in Names(v)
  BY DEF Names
<1>2. j \in DOMAIN tuple /\ Layouts[v][j].name = c
  OBVIOUS
<1>3. j = k
  BY <1>2, DecoderAssumption DEF DecoderAssumption, Versions
<1>4. Row(tuple, v)[c] = Column(tuple[j], Layouts[v][j].type)
  BY <1>1 DEF Row
<1> QED
  BY <1>3, <1>4

-----------------------------------------------------------------------------
(* The inductive invariant                                                 *)

\* A decoder begins with an empty cache, as the server does.
LEMMA InitInv == Init => IInv
<1> SUFFICES ASSUME Init PROVE IInv
  OBVIOUS
<1> USE DEF Init
<1>1. TypeOK
  <2>1. 0 \in 0 .. MaxTransactions
    BY DecoderAssumption DEF DecoderAssumption
  <2>2. layout \in [Relations -> Versions]
    BY LayoutsType
  <2>3. result.kind # "change"
    BY DEF NoResult
  <2> QED
    BY <2>1, <2>2, <2>3 DEF TypeOK
<1> QED
  BY <1>1 DEF Init, IInv, CacheIsCurrent, XidIsCurrent, FailuresExplained, EventIsTrue,
              NoResult

\* What is neither a change nor a failure tells nothing untrue.
LEMMA OtherResults ==
    ASSUME result'.kind \notin {"change", "error", "panic"}
    PROVE  FailuresExplained' /\ EventIsTrue'
BY DEF FailuresExplained, EventIsTrue

LEMMA BeginInv == IInv /\ Begin => IInv'
BY DecoderAssumption
   DEF DecoderAssumption, IInv, TypeOK, CacheIsCurrent, XidIsCurrent,
       FailuresExplained, EventIsTrue, Begin, DecodeBegin

LEMMA CommitInv == IInv /\ Commit => IInv'
<1> SUFFICES ASSUME IInv, Commit PROVE IInv'
  OBVIOUS
<1>1. TypeOK' /\ CacheIsCurrent' /\ XidIsCurrent'
  BY DEF IInv, TypeOK, CacheIsCurrent, XidIsCurrent, Commit, DecodeCommit, decoder
<1>2. result'.kind = "commit"
  BY DEF Commit, DecodeCommit
<1> QED
  BY <1>1, <1>2, OtherResults DEF IInv

\* The cache follows each announcement, or holds nothing of it.
LEMMA AnnounceInv == ASSUME NEW r \in Relations PROVE IInv /\ Announce(r) => IInv'
<1> SUFFICES ASSUME IInv, Announce(r) PROVE IInv'
  OBVIOUS
<1>1. /\ UNCHANGED <<spelling, layout, xid, streaming, currentXid>>
      /\ announced' = [announced EXCEPT ![r] = layout[r]]
      /\ result'.kind # "change"
  BY DEF Announce, DecodeRelation, NoResult, DecodeError
<1>2. CASE /\ spelling = "prefixed"
           /\ relations' = [relations EXCEPT ![r] = layout[r]]
           /\ result' = NoResult
  <2>1. TypeOK' /\ CacheIsCurrent' /\ XidIsCurrent'
    BY <1>1, <1>2 DEF IInv, TypeOK, CacheIsCurrent, XidIsCurrent
  <2> QED
    BY <1>2, <2>1, OtherResults DEF NoResult, IInv
<1>3. CASE /\ spelling = "terminated"
           /\ relations' \in {relations, [relations EXCEPT ![r] = Misread]}
  <2>1. TypeOK' /\ CacheIsCurrent' /\ XidIsCurrent'
    BY <1>1, <1>3 DEF IInv, TypeOK, CacheIsCurrent, XidIsCurrent
  <2>2. FailuresExplained' /\ EventIsTrue'
    BY <1>1, <1>3 DEF FailuresExplained, EventIsTrue
  <2> QED
    BY <2>1, <2>2 DEF IInv
<1> QED
  BY <1>2, <1>3 DEF Announce, DecodeRelation

\* A row change is sent and decoded: the tuples it holds are of rows of the table,
\* but for the new row of an update that leaves a value out.
RowChange(op, r, was, old, new) ==
    /\ Send(r, [type |-> op, was |-> was, old |-> old, new |-> new])
    /\ Change(op, r, old, new)
    /\ old = Missing \/ (was \in Rows[layout[r]] /\ old \in OldTuples(was, layout[r]))
    /\ \/ new = Missing
       \/ new \in Rows[layout[r]]
       \/ op = "update" /\ \E k \in DOMAIN new : new[k] = Unchanged

LEMMA RowChanges ==
    ASSUME TypeOK, NEW r \in Relations, Insert(r) \/ Update(r) \/ Delete(r)
    PROVE  \E op, was, old, new : RowChange(op, r, was, old, new)
<1>1. layout[r] \in Versions
  BY DEF TypeOK
<1>2. CASE Insert(r)
  <2>1. PICK new \in Rows[layout[r]] :
          /\ Send(r, [type |-> "insert", was |-> Missing, old |-> Missing, new |-> new])
          /\ Change("insert", r, Missing, new)
    BY <1>2 DEF Insert, DecodeInsert
  <2>2. RowChange("insert", r, Missing, Missing, new)
    BY <2>1 DEF RowChange
  <2> QED
    BY <2>2
<1>3. CASE Update(r)
  <2>1. PICK new \in NewRows(layout[r]), was \in Rows[layout[r]] :
          \E old \in OldTuples(was, layout[r]) \union {Missing} :
            /\ Send(r, [type |-> "update", was |-> was, old |-> old, new |-> new])
            /\ Change("update", r, old, new)
    BY <1>3 DEF Update, DecodeUpdate
  <2>2. PICK old \in OldTuples(was, layout[r]) \union {Missing} :
          /\ Send(r, [type |-> "update", was |-> was, old |-> old, new |-> new])
          /\ Change("update", r, old, new)
    BY <2>1
  <2>3. new \in Rows[layout[r]] \/ \E k \in DOMAIN new : new[k] = Unchanged
    BY <1>1, NewRowsComplete
  <2>4. RowChange("update", r, was, old, new)
    BY <2>2, <2>3 DEF RowChange
  <2> QED
    BY <2>4
<1>4. CASE Delete(r)
  <2>1. PICK was \in Rows[layout[r]] : \E old \in OldTuples(was, layout[r]) :
          /\ Send(r, [type |-> "delete", was |-> was, old |-> old, new |-> Missing])
          /\ Change("delete", r, old, Missing)
    BY <1>4 DEF Delete, DecodeDelete
  <2>2. PICK old \in OldTuples(was, layout[r]) :
          /\ Send(r, [type |-> "delete", was |-> was, old |-> old, new |-> Missing])
          /\ Change("delete", r, old, Missing)
    BY <2>1
  <2>3. RowChange("delete", r, was, old, Missing)
    BY <2>2 DEF RowChange
  <2> QED
    BY <2>3
<1> QED
  BY <1>2, <1>3, <1>4

\* What a change is decoded from: the layout its rows were sent in, or nothing
\* that is right.
LEMMA ChangeSent ==
    ASSUME IInv, NEW r \in Relations, NEW was, NEW old, NEW new, NEW op,
           RowChange(op, r, was, old, new)
    PROVE  /\ UNCHANGED <<spelling, relations, currentXid, layout, announced, xid, streaming>>
           /\ message' = [type |-> op, was |-> was, old |-> old, new |-> new]
           /\ announced[r] = layout[r] /\ layout[r] \in Versions
           /\ currentXid = xid /\ xid # 0
           /\ spelling = "prefixed" => relations[r] = layout[r]
           /\ spelling = "terminated" => relations[r] \in {0, Misread}
           /\ spelling \in {"prefixed", "terminated"}
           /\ layout[r] \notin {0, Misread}
<1>1. spelling \in {"prefixed", "terminated"} /\ Misread \notin Versions
  BY DecoderAssumption DEF DecoderAssumption, IInv, TypeOK, Versions
<1>2. UNCHANGED decoder
  BY DEF RowChange, Change
<1>3. /\ UNCHANGED database /\ streaming /\ announced[r] = layout[r]
      /\ message' = [type |-> op, was |-> was, old |-> old, new |-> new]
  BY DEF RowChange, Send
<1>4. layout[r] \in Versions /\ currentXid = xid /\ xid # 0
  BY <1>3 DEF IInv, TypeOK, XidIsCurrent
<1> QED
  BY <1>1, <1>2, <1>3, <1>4, LayoutsType DEF decoder, database, IInv, CacheIsCurrent

\* With a layout to go by, either the rows are decoded with it or the new row
\* leaves a value out.
LEMMA ChangeDecoded ==
    ASSUME IInv, NEW r \in Relations, NEW was, NEW old, NEW new, NEW op,
           RowChange(op, r, was, old, new), spelling = "prefixed"
    PROVE  \/ /\ op = "update" /\ \E k \in DOMAIN new : new[k] = Unchanged
              /\ result' = [kind |-> "error", reason |-> "tuple"]
           \/ /\ old = Missing \/ (was \in Rows[layout[r]] /\ old \in OldTuples(was, layout[r]))
              /\ new = Missing \/ new \in Rows[layout[r]]
              /\ result' =
                   [kind |-> "change", op |-> op, relation |-> r, xid |-> xid,
                    before |-> IF old = Missing THEN Missing ELSE Row(old, layout[r]),
                    after |-> IF new = Missing THEN Missing ELSE Row(new, layout[r])]
<1>1. /\ relations[r] = layout[r] /\ layout[r] \in Versions /\ layout[r] \notin {0, Misread}
      /\ currentXid = xid
  BY ChangeSent
<1>2. ASSUME NEW tuple, tuple \in Tuples(layout[r])
      PROVE  ~Undecodable(tuple, layout[r])
  BY <1>1, <1>2, TuplesDecode
<1>3. old = Missing \/ old \in Tuples(layout[r])
  BY DEF RowChange, Tuples
<1>4. new \in Rows[layout[r]] => new \in Tuples(layout[r])
  BY DEF Tuples, OldTuples
<1>5. CASE \E tuple \in {old, new} \ {Missing} : Undecodable(tuple, layout[r])
  <2>1. result' = [kind |-> "error", reason |-> "tuple"]
    BY <1>1, <1>5 DEF RowChange, Change, DecodeError
  <2>2. op = "update" /\ \E k \in DOMAIN new : new[k] = Unchanged
    BY <1>2, <1>3, <1>4, <1>5 DEF RowChange
  <2> QED
    BY <2>1, <2>2
<1>6. CASE \A tuple \in {old, new} \ {Missing} : ~Undecodable(tuple, layout[r])
  <2>1. result' =
          [kind |-> "change", op |-> op, relation |-> r, xid |-> xid,
           before |-> Decoded(old, layout[r]), after |-> Decoded(new, layout[r])]
    BY <1>1, <1>6 DEF RowChange, Change
  <2>2. \A tuple : Decoded(tuple, layout[r]) =
                      IF tuple = Missing THEN Missing ELSE Row(tuple, layout[r])
    BY <1>1 DEF Decoded
  <2>3. new = Missing \/ new \in Rows[layout[r]]
    BY <1>6 DEF RowChange, Undecodable
  <2> QED
    BY <2>1, <2>2, <2>3 DEF RowChange
<1> QED
  BY <1>5, <1>6

\* Without one, a change fails or has rows that were not sent.
LEMMA ChangeGarbled ==
    ASSUME IInv, NEW r \in Relations, NEW was, NEW old, NEW new, NEW op,
           RowChange(op, r, was, old, new), spelling = "terminated"
    PROVE  \/ result'.kind = "error"
           \/ /\ relations[r] = Misread
              /\ result' =
                   [kind |-> "change", op |-> op, relation |-> r, xid |-> xid,
                    before |-> IF old = Missing THEN Missing ELSE Garbled,
                    after |-> IF new = Missing THEN Missing ELSE Garbled]
<1>1. relations[r] \in {0, Misread} /\ currentXid = xid
  BY ChangeSent
<1>2. \A tuple : Decoded(tuple, Misread) = IF tuple = Missing THEN Missing ELSE Garbled
  BY DEF Decoded
<1>3. CASE \E reason : result' = DecodeError(reason)
  BY <1>3 DEF DecodeError
<1>4. CASE /\ relations[r] # 0
           /\ result' = [kind |-> "change", op |-> op, relation |-> r, xid |-> currentXid,
                         before |-> Decoded(old, relations[r]),
                         after |-> Decoded(new, relations[r])]
  BY <1>1, <1>2, <1>4
<1>5. \/ \E reason : result' = DecodeError(reason)
      \/ /\ relations[r] # 0
         /\ result' = [kind |-> "change", op |-> op, relation |-> r, xid |-> currentXid,
                       before |-> Decoded(old, relations[r]),
                       after |-> Decoded(new, relations[r])]
  <2>1. Change(op, r, old, new)
    BY DEF RowChange
  <2> QED
    BY <2>1, Zenon DEF Change
<1> QED
  BY <1>3, <1>4, <1>5

\* A decoded tuple is a row under the names of its columns.
LEMMA TupleNamed ==
    ASSUME NEW v \in Versions, NEW tuple, tuple = Missing \/ tuple \in Tuples(v),
           NEW row, row = IF tuple = Missing THEN Missing ELSE Row(tuple, v)
    PROVE  \/ tuple = Missing /\ row = Missing
           \/ /\ tuple # Missing
              /\ DOMAIN row = Names(v)
              /\ \A k \in DOMAIN tuple :
                    row[Layouts[v][k].name] = Column(tuple[k], Layouts[v][k].type)
<1>1. CASE tuple = Missing
  BY <1>1
<1>2. CASE tuple # Missing
  <2>1. tuple \in Tuples(v) /\ row = Row(tuple, v)
    BY <1>2
  <2>2. DOMAIN tuple = DOMAIN Layouts[v]
    BY <2>1, TuplesDecode
  <2> QED
    BY <1>2, <2>1, <2>2, RowNames, RowByColumn
<1> QED
  BY <1>1, <1>2

LEMMA ChangeInv ==
    ASSUME IInv, NEW r \in Relations, Insert(r) \/ Update(r) \/ Delete(r)
    PROVE  IInv'
<1>1. PICK op, was, old, new : RowChange(op, r, was, old, new)
  BY RowChanges DEF IInv
<1>2. /\ UNCHANGED <<spelling, relations, currentXid, layout, announced, xid, streaming>>
      /\ message' = [type |-> op, was |-> was, old |-> old, new |-> new]
      /\ announced[r] = layout[r] /\ layout[r] \in Versions
      /\ currentXid = xid /\ xid # 0
      /\ spelling \in {"prefixed", "terminated"}
  BY <1>1, ChangeSent
<1>3. CacheIsCurrent' /\ XidIsCurrent'
  BY <1>2 DEF IInv, CacheIsCurrent, XidIsCurrent
<1>4. ASSUME result'.kind = "change" => result'.relation = r /\ result'.xid = xid
      PROVE  TypeOK'
  BY <1>2, <1>4, DecoderAssumption DEF DecoderAssumption, IInv, TypeOK
<1>5. CASE result'.kind = "error" /\ spelling = "terminated"
  BY <1>2, <1>3, <1>4, <1>5 DEF IInv, FailuresExplained, EventIsTrue
<1>6. CASE /\ op = "update" /\ \E k \in DOMAIN new : new[k] = Unchanged
           /\ result' = [kind |-> "error", reason |-> "tuple"]
           /\ spelling = "prefixed"
  BY <1>2, <1>3, <1>4, <1>6 DEF IInv, FailuresExplained, EventIsTrue
<1>7. CASE /\ spelling = "terminated"
           /\ relations[r] = Misread
           /\ result' =
                [kind |-> "change", op |-> op, relation |-> r, xid |-> xid,
                 before |-> IF old = Missing THEN Missing ELSE Garbled,
                 after |-> IF new = Missing THEN Missing ELSE Garbled]
  <2>1. TypeOK' /\ FailuresExplained'
    BY <1>2, <1>4, <1>7 DEF FailuresExplained
  <2>2. EventIsTrue'
    BY <1>2, <1>7 DEF EventIsTrue, NamesRow
  <2> QED
    BY <1>3, <2>1, <2>2 DEF IInv
<1>8. CASE /\ spelling = "prefixed"
           /\ old = Missing \/ (was \in Rows[layout[r]] /\ old \in OldTuples(was, layout[r]))
           /\ new = Missing \/ new \in Rows[layout[r]]
           /\ result' =
                [kind |-> "change", op |-> op, relation |-> r, xid |-> xid,
                 before |-> IF old = Missing THEN Missing ELSE Row(old, layout[r]),
                 after |-> IF new = Missing THEN Missing ELSE Row(new, layout[r])]
  <2>1. TypeOK' /\ FailuresExplained'
    BY <1>2, <1>4, <1>8 DEF FailuresExplained
  <2>2. {old, new} \subseteq Tuples(layout[r]) \union {Missing}
    BY <1>8 DEF Tuples, OldTuples
  <2>3. /\ result'.kind = "change" /\ result'.relation = r
        /\ result'.xid = xid' /\ result'.op = message'.type
        /\ message'.old = old /\ message'.new = new
        /\ announced'[r] = layout[r] /\ layout[r] \in Versions
        /\ result'.before = IF old = Missing THEN Missing ELSE Row(old, layout[r])
        /\ result'.after = IF new = Missing THEN Missing ELSE Row(new, layout[r])
    BY <1>2, <1>8
  <2> DEFINE named(row, tuple) ==
               \/ tuple = Missing /\ row = Missing
               \/ /\ tuple # Missing
                  /\ DOMAIN row = Names(layout[r])
                  /\ \A k \in DOMAIN tuple :
                        row[Layouts[layout[r]][k].name] =
                            Column(tuple[k], Layouts[layout[r]][k].type)
  <2>4. named(result'.before, old) /\ named(result'.after, new)
    BY <2>2, <2>3, TupleNamed
  <2>5. /\ NamesRow(result.before, message.old, result.relation)'
        /\ NamesRow(result.after, message.new, result.relation)'
    <3>1. announced'[result'.relation] = layout[r]
      BY <2>3
    <3>2. named(result'.before, message'.old) /\ named(result'.after, message'.new)
      BY <2>3, <2>4
    <3> QED
      BY <3>1, <3>2, Zenon DEF NamesRow, Names
  <2> QED
    BY <1>3, <2>1, <2>3, <2>5 DEF IInv, EventIsTrue
<1> QED
  BY <1>1, <1>2, <1>5, <1>6, <1>7, <1>8, ChangeDecoded, ChangeGarbled

LEMMA TruncateInv == ASSUME NEW r \in Relations PROVE IInv /\ Truncate(r) => IInv'
BY DEF IInv, TypeOK, CacheIsCurrent, XidIsCurrent, FailuresExplained, EventIsTrue,
       Truncate, Send, DecodeTruncate, NoResult, decoder, database

\* What the database changes without telling concerns no event of the past.
LEMMA AlterTableInv == ASSUME NEW r \in Relations PROVE IInv /\ AlterTable(r) => IInv'
BY DEF IInv, TypeOK, CacheIsCurrent, XidIsCurrent, FailuresExplained, EventIsTrue,
       NamesRow, Names, AlterTable, decoder

\* A new session forgets on both sides.
LEMMA NewSessionInv == IInv /\ NewSession => IInv'
<1> SUFFICES ASSUME IInv, NewSession PROVE IInv'
  OBVIOUS
<1>1. result'.kind = "none"
  BY DEF NewSession, NoResult
<1>2. TypeOK' /\ CacheIsCurrent' /\ XidIsCurrent'
  <2>1. 0 \in 0 .. MaxTransactions
    BY DecoderAssumption DEF DecoderAssumption
  <2> QED
    BY <1>1, <2>1 DEF IInv, TypeOK, CacheIsCurrent, XidIsCurrent, NewSession
<1> QED
  BY <1>1, <1>2, OtherResults DEF IInv

\* Every step preserves the inductive invariant.
LEMMA NextInv == IInv /\ [Next]_vars => IInv'
<1> SUFFICES ASSUME IInv, [Next]_vars PROVE IInv'
  OBVIOUS
<1>1. CASE UNCHANGED vars
  BY <1>1 DEF vars, decoder, database, IInv, TypeOK, CacheIsCurrent, XidIsCurrent,
              FailuresExplained, EventIsTrue, NamesRow, Names
<1> QED
  BY <1>1, BeginInv, CommitInv, NewSessionInv, AnnounceInv, AlterTableInv, TruncateInv,
     ChangeInv DEF Next

LEMMA Invariance == Spec => []IInv
BY InitInv, NextInv, PTL DEF Spec

-----------------------------------------------------------------------------
(* The properties                                                          *)

\* Every variable has its type, and an event names a transaction that was begun.
THEOREM DecoderTypes == Spec => []TypeOK
<1>1. IInv => TypeOK
  BY DEF IInv
<1> QED
  BY <1>1, Invariance, PTL

\* Whatever sessions and schema changes came before: if the decoder can read the
\* RELATION messages of the server no change of a relation is unknown to it and
\* only an update that leaves a value out fails; if it cannot, as with
\* PostgreSQL's own, no change becomes an event with its rows.
THEOREM FailuresExplainedHolds == Spec => []FailuresExplained
<1>1. IInv => FailuresExplained
  BY DEF IInv
<1> QED
  BY <1>1, Invariance, PTL

\* An event has its own transaction, operation and rows, under the names the
\* columns had when the rows were sent.
THEOREM EventIsTrueHolds == Spec => []EventIsTrue
<1>1. IInv => EventIsTrue
  BY DEF IInv
<1> QED
  BY <1>1, Invariance, PTL

-----------------------------------------------------------------------------
(* The values                                                              *)

\* A word is shown as itself, as a number, a truth value or JSON, or it is one of
\* those that become null.
LEMMA WordShown ==
    ASSUME NEW w, NEW type, type # "void"
    PROVE  LET value == Word(w) IN
           Shows(ParseScalar(PgText(value), type), value) \/ Blurred(value, type)
<1> DEFINE value == Word(w)
<1>1. value.sql = "word" /\ value.word = w
  BY DEF Word
<1>2. PgText(value) = <<w>>
  BY <1>1 DEF PgText
<1> DEFINE json == ParseScalar(<<w>>, type)
<1>3. CASE type = "bool" /\ w \in {"t", "f"}
  <2>1. json = JsonBool(w = "t")
    <3> DEFINE text == <<w>>
               true == text = <<"t">>
    <3>1. text \in {<<"t">>, <<"f">>} /\ true = (w = "t")
      BY <1>3
    <3> HIDE DEF text
    <3>2. ParseScalar(text, type) = JsonBool(true)
      BY <1>3, <3>1 DEF ParseScalar, IntegerTypes, FloatTypes
    <3> HIDE DEF true
    <3> QED
      BY <3>1, <3>2 DEF text
  <2> QED
    BY <1>1, <1>2, <1>3, <2>1 DEF Shows, ShowsScalar
<1>4. CASE type \in FloatTypes /\ <<w>> \in NonFinite
  BY <1>1, <1>4 DEF Blurred
<1>5. CASE type \in {"json", "jsonb"} /\ <<w>> \in DOMAIN JsonOf
  <2>1. json = JsonOf[<<w>>]
    BY <1>5 DEF ParseScalar, IntegerTypes, FloatTypes
  <2> QED
    BY <1>1, <1>2, <1>5, <2>1 DEF Shows, ShowsScalar
<1>6. CASE /\ ~(type = "bool" /\ w \in {"t", "f"})
           /\ ~(type \in FloatTypes /\ <<w>> \in NonFinite)
           /\ ~(type \in {"json", "jsonb"} /\ <<w>> \in DOMAIN JsonOf)
  <2>1. json \in {JsonNumber(<<w>>), JsonString(<<w>>)}
    BY <1>6 DEF ParseScalar, IntegerTypes, FloatTypes
  <2> QED
    BY <1>1, <1>2, <2>1 DEF Shows, ShowsScalar
<1> QED
  BY <1>3, <1>4, <1>5, <1>6

\* A text the parser does not read as something else stays what it is.
LEMMA TextKept ==
    ASSUME NEW text, NEW type, type \notin ParsedTypes, type # "void"
    PROVE  ParseScalar(text, type) = JsonString(text)
BY DEF ParseScalar, ParsedTypes, IntegerTypes, FloatTypes

\* Every value is shown, but the arrays split at their commas.
LEMMA ParserShows ==
    ASSUME NEW v \in Versions, NEW row \in Rows[v], NEW k \in DOMAIN Layouts[v]
    PROVE  LET type == Layouts[v][k].type IN
           \/ Shows(Column(row[k], type), row[k])
           \/ Blurred(row[k], type)
           \/ SplitArray(row[k], type)
<1> DEFINE type == Layouts[v][k].type
           value == row[k]
           text == PgText(value)
<1>1. Fits(value, type)
  BY RowsType
<1> HIDE DEF type, value
<1>2. CASE value = SqlNull
  <2>1. Column(value, type) = JsonNull /\ value.sql = "null"
    BY <1>2 DEF Column, SqlNull
  <2> QED
    BY <2>1 DEF Shows, ShowsScalar, type, value
<1>3. CASE value.sql = "word" /\ value = Word(value.word) /\ type \notin DOMAIN ElementType
  <2>1. value # SqlNull /\ type # "void"
    BY <1>1, <1>3 DEF SqlNull, Fits
  <2>2. Column(value, type) = ParseScalar(text, type)
    BY <1>3, <2>1 DEF Column, ParsePostgresValue
  <2>3. Shows(ParseScalar(text, type), value) \/ Blurred(value, type)
    BY <1>3, <2>1, WordShown
  <2> QED
    BY <2>2, <2>3 DEF type, value
<1>4. CASE value.sql = "string" /\ type \notin ParsedTypes \union DOMAIN ElementType
  <2>1. value # SqlNull /\ type # "void"
    BY <1>1, <1>4 DEF SqlNull, Fits
  <2>2. Column(value, type) = JsonString(text)
    BY <1>4, <2>1, TextKept DEF Column, ParsePostgresValue
  <2>3. text = value.text
    BY <1>4 DEF PgText
  <2> QED
    BY <1>4, <2>2, <2>3 DEF Shows, ShowsScalar, type, value
<1>5. CASE value.sql = "array" /\ type \notin ParsedTypes
  <2>1. value # SqlNull /\ type # "void"
    BY <1>1, <1>5 DEF SqlNull, Fits
  <2>2. CASE type \notin DOMAIN ElementType
    <3>1. Column(value, type) = JsonString(text)
      BY <1>5, <2>1, <2>2, TextKept DEF Column, ParsePostgresValue
    <3> QED
      BY <1>5, <3>1 DEF Shows, type, value
  <2>3. CASE type \in DOMAIN ElementType
    <3>1. Column(value, type) = ParseArray(text, ElementType[type])
      BY <2>1, <2>3 DEF Column, ParsePostgresValue
    <3>2. CASE KeepText(text)
      <4>1. ParseArray(text, ElementType[type]) = JsonString(text)
        BY <3>2 DEF ParseArray
      <4> QED
        BY <1>5, <3>1, <4>1 DEF Shows, type, value
    <3>3. CASE ~KeepText(text)
      BY <1>5, <2>3, <3>3 DEF SplitArray, type, value
    <3> QED
      BY <3>2, <3>3
  <2> QED
    BY <2>2, <2>3
<1> QED
  BY <1>1, <1>2, <1>3, <1>4, <1>5 DEF Fits

\* An event shows the values the database had, split arrays apart: ValuesShown
\* for every other value.
ShowsUnsplit(row, tuple, whole, r) ==
    tuple # Missing /\ row # Garbled =>
        \A k \in DOMAIN tuple : LET column == Layouts[announced[r]][k] IN
            \/ ShowsValue(row, whole[k], column)
            \/ tuple[k] # whole[k] /\ ~column.key /\ row[column.name] = JsonNull
            \/ SplitArray(whole[k], column.type)

UnsplitValuesShown ==
    result.kind = "change" =>
        /\ ShowsUnsplit(result.before, message.old, message.was, result.relation)
        /\ ShowsUnsplit(result.after, message.new, message.new, result.relation)

\* A decoded tuple shows its row, each value under its own column's name.
LEMMA RowShown ==
    ASSUME NEW v \in Versions, NEW whole, NEW tuple,
           tuple = Missing \/ (whole \in Rows[v] /\ tuple \in OldTuples(whole, v)),
           NEW row, row = IF tuple = Missing THEN Missing ELSE Row(tuple, v),
           tuple # Missing, NEW k \in DOMAIN tuple
    PROVE  LET column == Layouts[v][k] IN
           \/ ShowsValue(row, whole[k], column)
           \/ tuple[k] # whole[k] /\ ~column.key /\ row[column.name] = JsonNull
           \/ SplitArray(whole[k], column.type)
<1> DEFINE column == Layouts[v][k]
<1>1. whole \in Rows[v] /\ tuple \in Tuples(v) /\ row = Row(tuple, v)
  BY DEF Tuples
<1>2. DOMAIN tuple = DOMAIN Layouts[v] /\ DOMAIN whole = DOMAIN Layouts[v]
  BY <1>1, TuplesDecode, RowsType
<1>3. row[column.name] = Column(tuple[k], column.type)
  BY <1>1, <1>2, RowByColumn
<1>4. CASE tuple[k] = whole[k]
  BY <1>1, <1>2, <1>3, <1>4, ParserShows DEF ShowsValue
<1>5. CASE tuple[k] # whole[k]
  <2>1. tuple = KeyOnly(whole, v)
    BY <1>5 DEF OldTuples
  <2>2. ~column.key /\ tuple[k] = SqlNull
    BY <1>2, <1>5, <2>1 DEF KeyOnly
  <2> QED
    BY <1>3, <1>5, <2>2 DEF Column
<1> QED
  BY <1>4, <1>5

LEMMA ShownInv == IInv /\ UnsplitValuesShown /\ [Next]_vars => UnsplitValuesShown'
<1> SUFFICES ASSUME IInv, UnsplitValuesShown, [Next]_vars PROVE UnsplitValuesShown'
  OBVIOUS
<1>1. CASE result'.kind # "change"
  BY <1>1 DEF UnsplitValuesShown
<1>2. CASE UNCHANGED <<result, message, announced>>
  BY <1>2 DEF UnsplitValuesShown, ShowsUnsplit, ShowsValue
<1>3. CASE \E r \in Relations : Insert(r) \/ Update(r) \/ Delete(r)
  <2>1. PICK r \in Relations : Insert(r) \/ Update(r) \/ Delete(r)
    BY <1>3
  <2>2. PICK op, was, old, new : RowChange(op, r, was, old, new)
    BY <2>1, RowChanges DEF IInv
  <2> DEFINE v == layout[r]
  <2>3. /\ v \in Versions /\ announced'[r] = v
        /\ message'.was = was /\ message'.old = old /\ message'.new = new
        /\ spelling \in {"prefixed", "terminated"}
    BY <2>2, ChangeSent
  <2>4. SUFFICES ASSUME result'.kind = "change" PROVE UnsplitValuesShown'
    BY DEF UnsplitValuesShown
  <2>5. CASE spelling = "prefixed"
    <3>1. /\ old = Missing \/ (was \in Rows[v] /\ old \in OldTuples(was, v))
          /\ new = Missing \/ (new \in Rows[v] /\ new \in OldTuples(new, v))
          /\ result' =
               [kind |-> "change", op |-> op, relation |-> r, xid |-> xid,
                before |-> IF old = Missing THEN Missing ELSE Row(old, v),
                after |-> IF new = Missing THEN Missing ELSE Row(new, v)]
      BY <2>2, <2>4, <2>5, ChangeDecoded DEF OldTuples
    <3>2. /\ result'.relation = r
          /\ result'.before = IF old = Missing THEN Missing ELSE Row(old, v)
          /\ result'.after = IF new = Missing THEN Missing ELSE Row(new, v)
      BY <3>1
    <3> HIDE DEF v
    <3>3. ShowsUnsplit(result.before, message.old, message.was, result.relation)'
      BY <2>3, <3>1, <3>2, RowShown DEF ShowsUnsplit, ShowsValue
    <3>4. ShowsUnsplit(result.after, message.new, message.new, result.relation)'
      BY <2>3, <3>1, <3>2, RowShown DEF ShowsUnsplit, ShowsValue
    <3> QED
      BY <3>3, <3>4 DEF UnsplitValuesShown
  <2>6. CASE spelling = "terminated"
    <3>1. /\ result'.before = IF old = Missing THEN Missing ELSE Garbled
          /\ result'.after = IF new = Missing THEN Missing ELSE Garbled
      BY <2>2, <2>4, <2>6, ChangeGarbled
    <3> QED
      BY <2>3, <3>1 DEF UnsplitValuesShown, ShowsUnsplit
  <2> QED
    BY <2>3, <2>5, <2>6
<1>4. CASE UNCHANGED vars
  BY <1>2, <1>4 DEF vars, database
<1>5. CASE Begin \/ Commit \/ NewSession
  BY <1>1, <1>5 DEF Begin, DecodeBegin, Commit, DecodeCommit, NewSession, NoResult
<1>6. CASE \E r \in Relations : Announce(r) \/ Truncate(r)
  BY <1>1, <1>6 DEF Announce, DecodeRelation, DecodeError, Truncate, DecodeTruncate, NoResult
<1>7. CASE \E r \in Relations : AlterTable(r)
  BY <1>2, <1>7 DEF AlterTable
<1> QED
  BY <1>3, <1>4, <1>5, <1>6, <1>7 DEF Next

\* Whatever schema changes and sessions came before, the decoder puts no value
\* under the name of another column and reads none as another type, and what the
\* parser makes of it shows the value, arrays split at their commas apart.
THEOREM UnsplitValuesShownHolds == Spec => []UnsplitValuesShown
<1>1. Init => UnsplitValuesShown
  BY DEF Init, NoResult, UnsplitValuesShown
<1> QED
  BY <1>1, ShownInv, Invariance, PTL DEF Spec
=============================================================================
