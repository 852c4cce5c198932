---------------------------- MODULE MCOwnerLease ----------------------------
(* Model-checking instance of OwnerLease. *)
EXTENDS OwnerLease
=============================================================================
