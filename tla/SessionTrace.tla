---------------------------- MODULE SessionTrace ----------------------------
(***************************************************************************)
(* The relational rules of the session event log (core/session             *)
(* invariant.ts): which event may follow which prefix, judged on a small   *)
(* trace of the prefix instead of on the log itself.  The modules that     *)
(* write to the log (the agent driver, the tool scheduler, crash repair)   *)
(* send every event through Accepts and Advance.                           *)
(*                                                                         *)
(* seq is the position of an event in the log, so it strictly increases    *)
(* here by construction; what is left of an event is its type, the turn    *)
(* and step it names, and the tool call it is about.                       *)
(***************************************************************************)
EXTENDS Integers

\* The code's null for "no open turn" and "no open step": numbering is 1-based.
Closed == 0

\* The trace of an empty log.
FreshTrace ==
  [openTurn |-> Closed, openStep |-> Closed,
   nextTurn |-> 1, nextStep |-> 1, pending |-> {}]

\* Events.  A tool result either answers a recorded call or, when
\* `notStarted`, is the synthetic result of a call that was never recorded.
TurnStart(t)    == [type |-> "turn/start", turn |-> t]
TurnEnd(t)      == [type |-> "turn/end",   turn |-> t]
StepStart(t, s) == [type |-> "step/start", turn |-> t, step |-> s]
StepEnd(t, s)   == [type |-> "step/end",   turn |-> t, step |-> s]
\* developer/message, system/message, assistant/attempt: inside the named step.
StepFact(t, s)  == [type |-> "step/fact",  turn |-> t, step |-> s]
\* assistant/message with the calls its tool-call blocks request, in order.
Assistant(t, s, cs) ==
  [type |-> "assistant/message", turn |-> t, step |-> s, calls |-> cs]
ToolCall(t, s, c) ==
  [type |-> "tool/call", turn |-> t, step |-> s, call |-> c]
ToolResult(t, s, c, ns) ==
  [type |-> "tool/result", turn |-> t, step |-> s, call |-> c, notStarted |-> ns]
\* request/header, request/context and a surface replacement of a tool/result.
TurnFact        == [type |-> "turn/fact"]
\* user/message, inbox splices and plugin events: unconstrained.
FreeFact        == [type |-> "free/fact"]

\* requireOpenStep: the event names exactly the open turn and step.
InOpenStep(trace, e) == trace.openTurn = e.turn /\ trace.openStep = e.step

\* validateEvent: no `fail` is reached for event e after this trace.
Accepts(trace, e) ==
  CASE e.type = "turn/start" ->
         trace.openTurn = Closed /\ e.turn = trace.nextTurn
    [] e.type = "turn/end" ->
         trace.openTurn = e.turn /\ trace.openStep = Closed
    [] e.type = "step/start" ->
         /\ trace.openTurn = e.turn
         /\ trace.openStep = Closed
         /\ e.step = trace.nextStep
    [] e.type \in {"step/end", "step/fact", "assistant/message", "tool/call"} ->
         InOpenStep(trace, e)
    [] e.type = "tool/result" ->
         InOpenStep(trace, e) /\ (e.call \in trace.pending \/ e.notStarted)
    [] e.type = "turn/fact" -> trace.openTurn # Closed
    [] OTHER -> TRUE

\* applyTransition: the trace after an accepted event.
Advance(trace, e) ==
  CASE e.type = "turn/start" ->
         [trace EXCEPT !.openTurn = e.turn, !.nextStep = 1]
    [] e.type = "turn/end" ->
         [trace EXCEPT !.openTurn = Closed, !.nextTurn = @ + 1]
    [] e.type = "step/start" ->
         [trace EXCEPT !.openStep = e.step]
    [] e.type = "step/end" ->
         [trace EXCEPT !.openStep = Closed, !.nextStep = @ + 1, !.pending = {}]
    [] e.type = "tool/call" ->
         [trace EXCEPT !.pending = @ \cup {e.call}]
    [] e.type = "tool/result" ->
         [trace EXCEPT !.pending = @ \ {e.call}]
    [] OTHER -> trace
=============================================================================
