---- MODULE MCAgentRuns ----
(* Small instances of AgentRuns. *)
EXTENDS AgentRuns

CONSTANTS r1, r2, d1, d2, gated, plain
====
