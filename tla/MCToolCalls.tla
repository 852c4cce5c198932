---------------------------- MODULE MCToolCalls -----------------------------
(* Model-checking instance of ToolCalls. *)
EXTENDS ToolCalls
=============================================================================
