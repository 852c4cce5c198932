-------------------------- MODULE MCAgentLifecycle --------------------------
(* Model-checking instance of AgentLifecycle: a creation and a resume through
   a factory, and an agent configured for its successor, all of one identity. *)
EXTENDS AgentLifecycle

CONSTANTS c, r, g, f1, f2

Through == [a \in {c, r, g} |-> IF a = g THEN f2 ELSE f1]
=============================================================================
