-------------------------- MODULE MCCheckpointFile --------------------------
(***************************************************************************)
(* Instances of CheckpointFile for TLC: two checkpoints, the second with a *)
(* longer text than the first.                                             *)
(***************************************************************************)
EXTENDS CheckpointFile, TLC

CONSTANTS short, long

TwoCheckpoints == {short, long}
TwoSizes == [c \in TwoCheckpoints |-> IF c = short THEN 1 ELSE 2]

InodeSymmetry == Permutations(Inodes)
=============================================================================
