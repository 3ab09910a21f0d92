---------------------------- MODULE MCPaperCycle ----------------------------
(* PaperCycle for model checking: the constants are set by the .cfg files. *)
EXTENDS PaperCycle
=============================================================================
