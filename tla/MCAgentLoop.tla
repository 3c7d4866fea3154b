---------------------------- MODULE MCAgentLoop ----------------------------
(* Model values for AgentLoop. *)
EXTENDS AgentLoop, TLC

CONSTANTS c1, c2
=============================================================================
