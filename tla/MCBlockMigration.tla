-------------------------- MODULE MCBlockMigration --------------------------
(* Finite instances of BlockMigration for TLC.                             *)
EXTENDS BlockMigration
=============================================================================
