----------------------------- MODULE MCKafkaSink -----------------------------
(***************************************************************************)
(* An instance of KafkaSink for TLC: the life of one order, and one user.  *)
(* The key column of orders is "id"; "state" changes from event to event.  *)
(***************************************************************************)
EXTENDS KafkaSink

Order(state) == Object([id |-> Scalar(<<"1">>), state |-> state], <<"{}">>)
User == Object([id |-> Scalar(<<"1">>), name |-> Object([first |-> Null], <<"{}">>)], <<"{}">>)

Event(table, op, before, after) ==
    [topic |-> table, table |-> table, row |-> table, op |-> op,
     before |-> before, after |-> after]

ThreeEvents ==
    << Event("orders", "Insert", None, Some(Order(Scalar(<<"new">>)))),
       Event("users", "Update", None, Some(User)),
       Event("orders", "Delete", Some(Order(Null)), None) >>

TwoTopics == {"orders", "users"}

ById == PrimaryKey(<< <<"id">> >>)
ByIdPath == FieldPath(<<"id">>)
ByState == Composite(<< <<"id">>, <<"state">> >>)
ByFirstName == FieldPath(<<"name", "first">>)
AllStrategies == {NoStrategy, TableName, ById, ByIdPath, ByState, ByFirstName}
ByTableOrId == {TableName, ById, ByIdPath}

\* Two partitions.
HashOf(key) == IF key \in {<<"orders">>, <<"1">>} THEN 1 ELSE 2
=============================================================================
