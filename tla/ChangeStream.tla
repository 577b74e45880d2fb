---------------------------- MODULE ChangeStream ----------------------------
(***************************************************************************)
(* What pg-capture promises to the readers of its topic: the changes of    *)
(* the stream arrive one by one, each delivered or given up (or both, when *)
(* the answer to a send is lost) before the next.  Delivery may stop at    *)
(* any point, and resumes at most where the unhandled changes begin; from  *)
(* there on it repeats what it has delivered before.  Where changes are    *)
(* not recognised for what they are, they pass like the rest of the        *)
(* stream.                                                                 *)
(***************************************************************************)
EXTENDS Integers, Sequences

CONSTANTS
    Last,       \* the number of records in the stream
    Changes,    \* those of them that are row changes
    Recognised  \* are all of these recognised as row changes?

VARIABLES
    topic,      \* the changes delivered, in order
    dropped,    \* the changes given up
    skipped,    \* the changes not recognised
    next        \* the record to be handled next, 0 while nothing is delivered

vars == <<topic, dropped, skipped, next>>

Handled == {topic[k] : k \in DOMAIN topic} \union dropped \union skipped

Init == topic = <<>> /\ dropped = {} /\ skipped = {} /\ next = 0

Resume ==
    /\ next = 0
    /\ next' \in 1 .. Last + 1
    /\ \A i \in Changes : i < next' => i \in Handled
    /\ UNCHANGED <<topic, dropped, skipped>>

Halt == next # 0 /\ next' = 0 /\ UNCHANGED <<topic, dropped, skipped>>

\* A record that carries no change.
Pass ==
    /\ next \in (1 .. Last) \ Changes
    /\ next' = next + 1
    /\ UNCHANGED <<topic, dropped, skipped>>

Deliver ==
    /\ next \in Changes
    /\ next' = next + 1
    /\ topic' = Append(topic, next)
    /\ dropped' \in {dropped, dropped \union {next}}
    /\ UNCHANGED skipped

GiveUp ==
    /\ next \in Changes
    /\ next' = next + 1
    /\ dropped' = dropped \union {next}
    /\ UNCHANGED <<topic, skipped>>

\* A change nobody takes for one.
Overlook ==
    /\ ~Recognised
    /\ next \in Changes
    /\ next' = next + 1
    /\ skipped' = skipped \union {next}
    /\ UNCHANGED <<topic, dropped>>

Next == Resume \/ Halt \/ Pass \/ Deliver \/ GiveUp \/ Overlook

Spec == Init /\ [][Next]_vars
=============================================================================
