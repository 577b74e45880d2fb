-------------------------- MODULE AtomicCheckpoint --------------------------
(***************************************************************************)
(* What CheckpointManager promises its callers: a register that holds one  *)
(* checkpoint or none.  A save or a delete takes effect in one step, with  *)
(* what it was called with, or fails and changes nothing.  A loss of power *)
(* brings back what was on disk last.  One flaw is part of the promise: a  *)
(* write that fails unseen turns what is saved into a torn text.           *)
(***************************************************************************)
CONSTANTS Writers, Checkpoints, NoCheckpoint, Torn

VARIABLES
    stored,     \* what load returns
    durable,    \* what load returns after a loss of power
    pending     \* per writer, what it is about to store, if anything

Nobody == [w \in Writers |-> {}]

Init ==
    /\ stored \in Checkpoints \union {NoCheckpoint}
    /\ durable = stored
    /\ pending = Nobody

\* save is called with a checkpoint, delete with none.
Begin(w) ==
    /\ pending[w] = {}
    /\ \E c \in Checkpoints \union {NoCheckpoint} :
          pending' = [pending EXCEPT ![w] = {c}]
    /\ UNCHANGED <<stored, durable>>

\* The write of a save fails and nobody sees it.
Tear(w) ==
    /\ pending[w] \in {{c} : c \in Checkpoints}
    /\ pending' = [pending EXCEPT ![w] = {Torn}]
    /\ UNCHANGED <<stored, durable>>

Commit(w) ==
    /\ stored' \in pending[w]
    /\ pending' = [pending EXCEPT ![w] = {}]
    /\ UNCHANGED durable

Fail(w) ==
    /\ pending' = [pending EXCEPT ![w] = {}]
    /\ UNCHANGED <<stored, durable>>

Persist == durable' = stored /\ UNCHANGED <<stored, pending>>

LosePower == stored' = durable /\ pending' = Nobody /\ UNCHANGED durable

Next ==
    \/ \E w \in Writers : Begin(w) \/ Tear(w) \/ Commit(w) \/ Fail(w)
    \/ Persist
    \/ LosePower

Spec == Init /\ [][Next]_<<stored, durable, pending>>
=============================================================================
