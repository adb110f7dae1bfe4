--------------------------- MODULE MCPendingOrders ---------------------------
(* Instances of PendingOrders for TLC. *)
EXTENDS PendingOrders, TLC

\* Orders and processes are interchangeable: no definition names or orders one.
Symmetry == Permutations(Orders) \cup Permutations(Procs)
=============================================================================
