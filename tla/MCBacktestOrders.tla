-------------------------- MODULE MCBacktestOrders --------------------------
(* An instance of BacktestOrders for TLC.                                     *)
EXTENDS BacktestOrders
=============================================================================
