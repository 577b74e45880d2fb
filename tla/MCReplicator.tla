---------------------------- MODULE MCReplicator ----------------------------
(***************************************************************************)
(* Instances of Replicator for TLC.  The stream holds two transactions     *)
(* whose changes interleave in the WAL: the second to commit wrote its     *)
(* first change before the first one committed, so that the positions      *)
(* reported along the stream go back.                                      *)
(***************************************************************************)
EXTENDS Replicator

Rec(kind, lsn, commit) == [kind |-> kind, lsn |-> lsn, commit |-> commit]

\* Two overlapping transactions, a relation message and a malformed change.
Overlapping ==
    << Rec("begin", 2, 4), Rec("relation", 0, 4), Rec("change", 2, 4),
       Rec("commit", 4, 4),
       Rec("begin", 1, 6), Rec("change", 1, 6), Rec("malformed", 3, 6),
       Rec("commit", 6, 6) >>

\* Two transactions, one after the other, of one change each.
TwoTransactions ==
    << Rec("begin", 1, 2), Rec("change", 1, 2), Rec("commit", 2, 2),
       Rec("begin", 3, 4), Rec("change", 3, 4), Rec("commit", 4, 4) >>

\* One transaction.
Single == << Rec("begin", 1, 2), Rec("change", 1, 2), Rec("commit", 2, 2) >>
=============================================================================
