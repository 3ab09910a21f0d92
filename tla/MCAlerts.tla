------------------------------- MODULE MCAlerts -----------------------------
(* An instance of Alerts for TLC; the processes are interchangeable.          *)
EXTENDS Alerts, TLC

Symmetry == Permutations(Procs) \cup Permutations(Healths) \cup Permutations(Cycles)
=============================================================================
