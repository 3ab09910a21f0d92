----------------------------- MODULE MCRiskState ----------------------------
(* Instances of RiskState for TLC.                                            *)
EXTENDS RiskState
=============================================================================
