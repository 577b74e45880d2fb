----------------------------- MODULE OrderedSink -----------------------------
(***************************************************************************)
(* What the Kafka side of pg-capture promises whoever gives it events: an  *)
(* event is written at most once, the events of a lane (a partition of a   *)
(* topic) in the order in which they were given, and who is told that an   *)
(* event was delivered can rely on it.  Who is told of an error cannot     *)
(* rely on anything: the event may be in the topic, may get there later,   *)
(* or never.                                                               *)
(***************************************************************************)
EXTENDS Integers, Sequences

CONSTANTS Lanes, Events

VARIABLES
    log,        \* of each lane: the events written, in order
    told        \* what became of each event, as far as its caller knows

Written(e) == \E l \in Lanes : \E k \in DOMAIN log[l] : log[l][k] = e

Init ==
    /\ log = [l \in Lanes |-> <<>>]
    /\ told = [e \in Events |-> "nothing"]

Write(e, l) ==
    /\ ~Written(e)
    /\ told[e] # "delivered"
    /\ \A k \in DOMAIN log[l] : log[l][k] < e
    /\ log' = [log EXCEPT ![l] = Append(@, e)]
    /\ UNCHANGED told

Confirm(e) ==
    /\ told[e] = "nothing"
    /\ Written(e)
    /\ told' = [told EXCEPT ![e] = "delivered"]
    /\ UNCHANGED log

\* A batch may be refused as a whole.
Refuse(es) ==
    /\ \A e \in es : told[e] = "nothing"
    /\ told' = [e \in Events |-> IF e \in es THEN "error" ELSE told[e]]
    /\ UNCHANGED log

Next ==
    \/ \E e \in Events : Confirm(e) \/ \E l \in Lanes : Write(e, l)
    \/ \E es \in SUBSET Events : Refuse(es)

Spec == Init /\ [][Next]_<<log, told>>
=============================================================================
