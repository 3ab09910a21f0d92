---------------------------- MODULE MCCycleLease ----------------------------
(* CycleLease for model checking: the constants are set by the .cfg files. *)
EXTENDS CycleLease
=============================================================================
