--------------------------- MODULE MCCandleQuality --------------------------
(* An instance of CandleQuality for TLC.                                      *)
EXTENDS CandleQuality
=============================================================================
