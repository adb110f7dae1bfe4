---------------------------- MODULE SingleRuntime ----------------------------
(***************************************************************************)
(* What the runtime leases promise: a strategy is run by at most one       *)
(* trading worker, and a hand-over from one worker to another goes through *)
(* a state in which nobody runs it.                                        *)
(***************************************************************************)
CONSTANTS Workers, Strategies

VARIABLE runners   \* runners[s]: the workers that run strategy s

Init == runners = [s \in Strategies |-> {}]

\* A runtime begins only where none is.
Begin(s) == runners[s] = {} /\ \E w \in Workers : runners'[s] = {w}

\* Runtimes end: one at a time, or all those of a process at once.
End(s) == runners'[s] \subseteq runners[s]

Next ==
  /\ runners' \in [Strategies -> SUBSET Workers]
  /\ \A s \in Strategies : Begin(s) \/ End(s)

Spec == Init /\ [][Next]_runners
=============================================================================
