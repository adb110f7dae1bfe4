--------------------------- MODULE MCAgentGateway ----------------------------
(* Instances of AgentGateway for TLC. *)
EXTENDS AgentGateway, TLC

\* A small order, which fits the cap of 3 twice, and one that takes all of it.
MCNotional ==
  LET small == CHOOSE k \in OrderKeys : TRUE
  IN [k \in OrderKeys |-> IF k = small THEN 1 ELSE 3]

\* A trading token or a backtest token: the two routes share nothing but the
\* idempotency table, where their keys never meet.
MCGrants == {{"T"}, {"B"}}
=============================================================================
