---------------------------- MODULE MCGridOrders -----------------------------
(* Instances of GridOrders for TLC. *)
EXTENDS GridOrders, TLC
=============================================================================
