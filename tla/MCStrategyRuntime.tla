-------------------------- MODULE MCStrategyRuntime --------------------------
(* Instances of StrategyRuntime for TLC. *)
EXTENDS StrategyRuntime, TLC

\* min(60, 2^(attempts-1)) seconds is at most one tick of ten seconds for the
\* three attempts of the default configuration.
MCRetryDelay(a) == 1

\* Workers and requests are interchangeable: no definition names or orders one.
Symmetry == Permutations(Workers) \cup Permutations(Requests)
=============================================================================
