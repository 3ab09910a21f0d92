---------------------------- MODULE MCLiveOrders ----------------------------
(* LiveOrders for TLC.  Rows: a candle that enters, and announces a trailing  *)
(* stop while a position is held, and a lower one that exits.                 *)
EXTENDS LiveOrders

EnterAndExit ==
    {[close |-> 6, high |-> 6, signal |-> "enter"], [close |-> 4, high |-> 4, signal |-> "exit"]}
=============================================================================
