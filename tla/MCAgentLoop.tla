---------------------------- MODULE MCAgentLoop ----------------------------
(* Model-checking instance of AgentLoop. *)
EXTENDS AgentLoop
=============================================================================
