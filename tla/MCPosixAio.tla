----------------------------- MODULE MCPosixAio -----------------------------
(* Finite instances of PosixAio for TLC.                                   *)
EXTENDS PosixAio, TLC

ThreadSymmetry == Permutations(Threads)
AcbThreadSymmetry == Permutations(Threads) \cup Permutations(Acbs)
=============================================================================
