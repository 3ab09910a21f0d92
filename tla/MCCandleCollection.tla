------------------------- MODULE MCCandleCollection -------------------------
(* Instances of CandleCollection for TLC.                                     *)
EXTENDS CandleCollection
=============================================================================
