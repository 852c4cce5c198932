---------------------------- MODULE MCCrashRepair ---------------------------
(* Model-checking instance of CrashRepair. *)
EXTENDS CrashRepair, TLC

Symmetry == Permutations(Calls)
=============================================================================
