------------------------- MODULE MCPaperApplication -------------------------
(* Instances of PaperApplication for TLC.                                     *)
EXTENDS PaperApplication
=============================================================================
