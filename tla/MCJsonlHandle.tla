--------------------------- MODULE MCJsonlHandle ----------------------------
(* Model-checking instances of JsonlHandle. *)
EXTENDS JsonlHandle
=============================================================================
