--------------------------- MODULE MCHealthMonitor ---------------------------
(* HealthMonitor for model checking: the constants are set by the .cfg files. *)
EXTENDS HealthMonitor
=============================================================================
