----------------------------- MODULE DurableLog -----------------------------
(***************************************************************************)
(* What session persistence promises: the log of a session only grows,     *)
(* except that a crash may take back events at its end for which nothing   *)
(* was promised.  The promise ends when an append was written behind what  *)
(* a failed one had left in the file.                                      *)
(***************************************************************************)
EXTENDS Integers, Sequences

CONSTANT Event

VARIABLES
  log,      \* the session's events
  promised, \* length of the prefix promised to survive; -1 before any promise
  buried    \* the leftovers of a failed append are in the middle of the file

vars == <<log, promised, buried>>

Init == log = <<>> /\ promised = -1 /\ buried = FALSE

Extend == \E e \in Event : log' = Append(log, e) /\ UNCHANGED <<promised, buried>>

Promise == promised' \in (promised + 1)..Len(log) /\ UNCHANGED <<log, buried>>

Bury == buried' = TRUE /\ UNCHANGED <<log, promised>>

Crash ==
  /\ \/ \E n \in 0..Len(log) : n >= promised /\ log' = SubSeq(log, 1, n)
     \/ buried /\ log' \in Seq(Event)
  /\ UNCHANGED <<promised, buried>>

Next == Extend \/ Promise \/ Bury \/ Crash

Spec == Init /\ [][Next]_vars
=============================================================================
