---------------------------- MODULE MCMultiwrite ----------------------------
(* Finite instances of Multiwrite for TLC.                                 *)
EXTENDS Multiwrite
=============================================================================
