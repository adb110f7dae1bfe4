------------------------- MODULE MCExecutionStreams --------------------------
(* Instances of ExecutionStreams for TLC. *)
EXTENDS ExecutionStreams, TLC
=============================================================================
