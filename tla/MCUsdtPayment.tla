---------------------------- MODULE MCUsdtPayment ----------------------------
(* Instances of UsdtPayment for TLC. *)
EXTENDS UsdtPayment, TLC

\* Handlers are interchangeable: no definition names or orders one.
Symmetry == Permutations(Handlers)
=============================================================================
