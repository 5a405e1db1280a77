-------------------------- MODULE MCQcow2Snapshot --------------------------
(* Finite instances of Qcow2Snapshot for TLC.                              *)
EXTENDS Qcow2Snapshot, TLC

Symmetry == Permutations(Values) \cup Permutations(Ids)
=============================================================================
