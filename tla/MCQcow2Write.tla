---------------------------- MODULE MCQcow2Write ----------------------------
(* Finite instances of Qcow2Write for TLC.                                 *)
EXTENDS Qcow2Write, TLC

ReqSymmetry == Permutations(Reqs)
=============================================================================
