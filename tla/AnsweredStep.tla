---------------------------- MODULE AnsweredStep ----------------------------
(***************************************************************************)
(* What the transcript of one assistant step promises the model provider:  *)
(* the tool calls the step requested are answered in the order in which    *)
(* they were requested, each of them once, and the step closes only when   *)
(* none is left without an answer.                                         *)
(***************************************************************************)
EXTENDS Naturals, Sequences

CONSTANT NCalls

VARIABLES answers, \* the calls answered so far, in the order of the log
          open     \* the step has not been closed

Init == answers = <<>> /\ open = TRUE

Answer ==
  /\ open /\ Len(answers) < NCalls
  /\ answers' = Append(answers, Len(answers) + 1)
  /\ UNCHANGED open

Close ==
  /\ open /\ Len(answers) = NCalls
  /\ open' = FALSE
  /\ UNCHANGED answers

Spec == Init /\ [][Answer \/ Close]_<<answers, open>>
=============================================================================
