----------------------------- MODULE CrashRepair ----------------------------
(***************************************************************************)
(* A session across crashes: the agent's writes to its log, the barriers   *)
(* the checkpoint policy puts before model requests and tool bodies        *)
(* (session-checkpoint-policy), the loss of the log's unpromised end in a  *)
(* crash (DurableLog), and the repair by which a resume or a fork closes   *)
(* the turn that was cut open (core/session repair.ts, fork.ts).           *)
(*                                                                         *)
(* The log outlives the process; so do the effects of tools that ran and   *)
(* of requests that were sent.  Everything else is lost with the process.  *)
(* The driver is reduced to what it writes; AgentLoop and ToolCalls have   *)
(* its control.  An append of closers that fails is a crash that leaves    *)
(* the log as it was.                                                      *)
(***************************************************************************)
EXTENDS SessionTrace, Sequences, SequencesExt, FiniteSets

CONSTANTS Calls,      \* identities of tool calls
          MaxTurns,   \* bound: turns in the log
          MaxSteps,   \* bound: steps of a turn
          MaxCrashes  \* bound: crashes

ASSUME BoundsAssumption ==
  IsFiniteSet(Calls) /\ MaxTurns \in Nat /\ MaxSteps \in Nat \ {0} /\ MaxCrashes \in Nat

VARIABLES
  log,     \* the session's events
  durable, \* how many of them a crash cannot take back
  pc,      \* where the driver or the resume is
  barrier, \* how much of the log the driver's flush waits for
  asked,   \* the current step's calls, in the order of the message
  stage,   \* per call: how far it got
  need,    \* per call: how much of the log its flush waits for
  outcome, \* per call: what its dispatch returned
  effects, \* calls whose body was started, in any life of the process
  sent,    \* steps whose request reached the model
  crashes

stepVars == <<asked, stage, need, outcome>>
vars == <<log, durable, pc, barrier, stepVars, effects, sent, crashes>>

Outcomes == {"none", "value", "error", "undispatched"}
\* Results that tell the model that the tool did not run.
Disowning == {"undispatched", "not started"}
Busy == {"flushing", "running"}

\* A result as the log records it: what is claimed about the call.
Answer(t, s, c, o) ==
  [type |-> "tool/result", turn |-> t, step |-> s, call |-> c,
   notStarted |-> o = "not started", outcome |-> o]

Turns == 1..MaxTurns
Steps == 1..MaxSteps
Event ==
  {TurnStart(t) : t \in Turns} \cup {TurnEnd(t) : t \in Turns}
    \cup [type : {"step/start", "step/end"}, turn : Turns, step : Steps]
    \cup [type : {"assistant/message"}, turn : Turns, step : Steps, calls : Seq(Calls)]
    \cup [type : {"tool/call"}, turn : Turns, step : Steps, call : Calls]
    \cup [type : {"tool/result"}, turn : Turns, step : Steps, call : Calls,
          notStarted : BOOLEAN, outcome : Outcomes \cup {"not started", "unknown"}]

TypeOK ==
  /\ log \in Seq(Event)
  /\ durable \in 0..Len(log)
  /\ pc \in {"idle", "pre-step", "request", "response", "tools", "down", "repair"}
  /\ barrier \in Nat
  /\ asked \in Seq(Calls)
  /\ stage \in [Calls -> {"none", "recorded", "returned", "answered"} \cup Busy]
  /\ need \in [Calls -> Nat]
  /\ outcome \in [Calls -> Outcomes]
  /\ effects \subseteq Calls
  /\ sent \subseteq Turns \X Steps
  /\ crashes \in 0..MaxCrashes

Init ==
  /\ log = <<>> /\ durable = 0 /\ pc = "idle" /\ barrier = 0
  /\ asked = <<>> /\ stage = [c \in Calls |-> "none"]
  /\ need = [c \in Calls |-> 0] /\ outcome = [c \in Calls |-> "none"]
  /\ effects = {} /\ sent = {} /\ crashes = 0

\* The log's validation state, from its events.
TraceOf(l) ==
  LET f[n \in 0..Len(l)] == IF n = 0 THEN FreshTrace ELSE Advance(f[n - 1], l[n])
  IN  f[Len(l)]
Here == TraceOf(log)

-----------------------------------------------------------------------------
(* Repair.                                                                 *)

\* What openTurnClosers and its ToolCallRecovery keep of the log they scan.
FreshScan == [turn |-> Closed, step |-> Closed, pending |-> <<>>]

Requested(e) ==
  [i \in DOMAIN e.calls |->
     [call |-> e.calls[i], turn |-> e.turn, step |-> e.step, started |-> FALSE]]

\* The entry of the call that a tool/call logs as started.
Start(entry, e) == [entry EXCEPT !.started = @ \/ entry.call = e.call]

\* Mutant: an answered call stays pending.
ObserveKeepingAnswered(scan, e) ==
  CASE e.type = "turn/start" -> [turn |-> e.turn, step |-> Closed, pending |-> <<>>]
    [] e.type = "turn/end"   -> FreshScan
    [] e.type = "step/start" -> [scan EXCEPT !.step = e.step]
    [] e.type = "step/end"   -> [scan EXCEPT !.step = Closed, !.pending = <<>>]
    [] e.type = "assistant/message" -> [scan EXCEPT !.pending = @ \o Requested(e)]
    [] e.type = "tool/call" -> [scan EXCEPT !.pending = [i \in DOMAIN @ |-> Start(@[i], e)]]
    [] OTHER -> scan

\* pendingCalls.delete: a result answers the request of its call and step.
Delete(pending, e) ==
  LET hits == {i \in DOMAIN pending : <<pending[i].call, pending[i].turn, pending[i].step>>
                                         = <<e.call, e.turn, e.step>>}
  IN  IF hits = {} THEN pending ELSE RemoveAt(pending, CHOOSE i \in hits : TRUE)

Observe(scan, e) ==
  CASE e.type = "turn/start" -> [turn |-> e.turn, step |-> Closed, pending |-> <<>>]
    [] e.type = "turn/end"   -> FreshScan
    [] e.type = "step/start" -> [scan EXCEPT !.step = e.step]
    [] e.type = "step/end"   -> [scan EXCEPT !.step = Closed, !.pending = <<>>]
    [] e.type = "assistant/message" -> [scan EXCEPT !.pending = @ \o Requested(e)]
    [] e.type = "tool/call" -> [scan EXCEPT !.pending = [i \in DOMAIN @ |-> Start(@[i], e)]]
    [] e.type = "tool/result" -> [scan EXCEPT !.pending = Delete(@, e)]
    [] OTHER -> scan

Scanned(l) ==
  LET f[n \in 0..Len(l)] == IF n = 0 THEN FreshScan ELSE Observe(f[n - 1], l[n])
  IN  f[Len(l)]

\* ToolCallRecovery.results.
Results(pending) ==
  [i \in DOMAIN pending |->
     Answer(pending[i].turn, pending[i].step, pending[i].call,
            IF pending[i].started THEN "unknown" ELSE "not started")]

\* Mutant: the open step is left to its turn's end.
ClosersWithoutStep(l) ==
  LET scan == Scanned(l)
  IN  IF scan.turn = Closed THEN <<>>
      ELSE Results(scan.pending) \o <<TurnEnd(scan.turn)>>

\* Mutant: the end of the turn names the open step.
ClosersNamingStep(l) ==
  LET scan == Scanned(l)
  IN  IF scan.turn = Closed THEN <<>>
      ELSE Results(scan.pending)
             \o (IF scan.step = Closed THEN <<>> ELSE <<StepEnd(scan.turn, scan.step)>>)
             \o <<TurnEnd(scan.step)>>

\* openTurnClosers.
Closers(l) ==
  LET scan == Scanned(l)
  IN  IF scan.turn = Closed THEN <<>>
      ELSE Results(scan.pending)
             \o (IF scan.step = Closed THEN <<>> ELSE <<StepEnd(scan.turn, scan.step)>>)
             \o <<TurnEnd(scan.turn)>>

\* The log a resume works on, and the one a fork at the log's end starts with.
Resumed(l)  == l \o Closers(l)
ForkSeed(l) == LET marked == Append(l, FreeFact) IN marked \o Closers(marked)

-----------------------------------------------------------------------------
(* The driver.                                                             *)

\* turn appends its turn/start; the policy's pre-step listener flushes.
OpenTurn ==
  /\ pc = "idle" /\ Here.openTurn = Closed /\ Here.nextTurn <= MaxTurns
  /\ log' = Append(log, TurnStart(Here.nextTurn))
  /\ pc' = "pre-step" /\ barrier' = Len(log')
  /\ UNCHANGED <<durable, stepVars, effects, sent, crashes>>

NextStep ==
  /\ pc = "idle" /\ Here.openTurn # Closed /\ Here.nextStep <= MaxSteps
  /\ pc' = "pre-step" /\ barrier' = Len(log)
  /\ UNCHANGED <<log, durable, stepVars, effects, sent, crashes>>

\* The turn is over, or its pre-step or the flush in it failed.
CloseTurn ==
  /\ pc \in {"idle", "pre-step"} /\ Here.openTurn # Closed
  /\ log' = Append(log, TurnEnd(Here.openTurn))
  /\ pc' = "idle"
  /\ UNCHANGED <<durable, barrier, stepVars, effects, sent, crashes>>

OpenStep ==
  /\ pc = "pre-step" /\ durable >= barrier
  /\ log' = Append(log, StepStart(Here.openTurn, Here.nextStep))
  /\ pc' = "request" /\ barrier' = Len(log')
  /\ UNCHANGED <<durable, stepVars, effects, sent, crashes>>

\* Mutant: the adapter is called while the checkpoint is under way.
RequestUnflushed ==
  /\ pc = "request"
  /\ sent' = sent \cup {<<Here.openTurn, Here.openStep>>}
  /\ pc' = "response"
  /\ UNCHANGED <<log, durable, barrier, stepVars, effects, crashes>>

\* afterCheckpoint: the adapter is called when the logged request is durable.
Request ==
  /\ pc = "request" /\ durable >= barrier
  /\ sent' = sent \cup {<<Here.openTurn, Here.openStep>>}
  /\ pc' = "response"
  /\ UNCHANGED <<log, durable, barrier, stepVars, effects, crashes>>

Used == UNION {{e.calls[i] : i \in DOMAIN e.calls} :
                 e \in {log[n] : n \in {k \in DOMAIN log : log[k].type = "assistant/message"}}}

Respond ==
  /\ pc = "response"
  /\ \E k \in 0..Cardinality(Calls \ Used) :
       \E cs \in [1..k -> Calls \ Used] :
         /\ \A i, j \in 1..k : cs[i] = cs[j] => i = j
         /\ log' = Append(log, Assistant(Here.openTurn, Here.openStep, cs))
         /\ asked' = cs
  /\ stage' = [c \in Calls |-> "none"]
  /\ pc' = "tools"
  /\ UNCHANGED <<durable, barrier, need, outcome, effects, sent, crashes>>

\* The calls of the step in front of the i-th have all been answered.
Before(i) == \A j \in 1..(i - 1) : stage[asked[j]] = "answered"

\* appendToolCall: calls start in model order.
StartCall(i) ==
  /\ pc = "tools" /\ stage[asked[i]] = "none"
  /\ \A j \in 1..(i - 1) : stage[asked[j]] # "none"
  /\ log' = Append(log, ToolCall(Here.openTurn, Here.openStep, asked[i]))
  /\ stage' = [stage EXCEPT ![asked[i]] = "recorded"]
  /\ UNCHANGED <<durable, pc, barrier, asked, need, outcome, effects, sent, crashes>>

\* The policy's tools/execute wrapper asks for its flush.
Execute(c) ==
  /\ pc = "tools" /\ stage[c] = "recorded"
  /\ stage' = [stage EXCEPT ![c] = "flushing"]
  /\ need' = [need EXCEPT ![c] = Len(log)]
  /\ UNCHANGED <<log, durable, pc, barrier, asked, outcome, effects, sent, crashes>>

\* Mutant: the body runs while the checkpoint is under way.
RunBodyUnflushed(c) ==
  /\ pc = "tools" /\ stage[c] = "flushing"
  /\ stage' = [stage EXCEPT ![c] = "running"]
  /\ effects' = effects \cup {c}
  /\ UNCHANGED <<log, durable, pc, barrier, asked, need, outcome, sent, crashes>>

\* The flush has answered and the signal is silent: next() runs the body.
RunBody(c) ==
  /\ pc = "tools" /\ stage[c] = "flushing" /\ durable >= need[c]
  /\ stage' = [stage EXCEPT ![c] = "running"]
  /\ effects' = effects \cup {c}
  /\ UNCHANGED <<log, durable, pc, barrier, asked, need, outcome, sent, crashes>>

\* A dispatch ends: its preparation or flush failed, the abort was seen after
\* the flush, or the body is through.
Return(c, o) ==
  /\ pc = "tools"
  /\ \/ stage[c] = "recorded" /\ o = "error"
     \/ stage[c] = "flushing" /\ o = "error"
     \/ stage[c] = "flushing" /\ o = "undispatched" /\ durable >= need[c]
     \/ stage[c] = "running" /\ o \in {"value", "error"}
  /\ stage' = [stage EXCEPT ![c] = "returned"]
  /\ outcome' = [outcome EXCEPT ![c] = o]
  /\ UNCHANGED <<log, durable, pc, barrier, asked, need, effects, sent, crashes>>

\* appendToolResult, in model order.
Commit(i) ==
  /\ pc = "tools" /\ stage[asked[i]] = "returned" /\ Before(i)
  /\ log' = Append(log, Answer(Here.openTurn, Here.openStep, asked[i], outcome[asked[i]]))
  /\ stage' = [stage EXCEPT ![asked[i]] = "answered"]
  /\ UNCHANGED <<durable, pc, barrier, asked, need, outcome, effects, sent, crashes>>

\* appendSkippedToolCall, for what an abort left unstarted.
Skip(i) ==
  /\ pc = "tools" /\ stage[asked[i]] = "none" /\ Before(i)
  /\ log' = log \o <<ToolCall(Here.openTurn, Here.openStep, asked[i]),
                     Answer(Here.openTurn, Here.openStep, asked[i], "undispatched")>>
  /\ stage' = [stage EXCEPT ![asked[i]] = "answered"]
  /\ UNCHANGED <<durable, pc, barrier, asked, need, outcome, effects, sent, crashes>>

CloseStep ==
  /\ pc = "tools" /\ Before(Len(asked) + 1)
  /\ log' = Append(log, StepEnd(Here.openTurn, Here.openStep))
  /\ pc' = "idle"
  /\ UNCHANGED <<durable, barrier, stepVars, effects, sent, crashes>>

\* The step throws with no dispatch out: what recovery answers, then the ends
\* of step and turn.
StepFails ==
  /\ pc \in {"request", "response", "tools"}
  /\ pc = "tools" => \A c \in Calls : stage[c] \notin Busy
  /\ log' = Resumed(log)
  /\ pc' = "idle"
  /\ UNCHANGED <<durable, barrier, stepVars, effects, sent, crashes>>

-----------------------------------------------------------------------------
(* Persistence, crash and resume.                                          *)

\* A drain of the buffer: the write and its fsync.
Persist ==
  /\ pc # "down"
  /\ durable' \in (durable + 1)..Len(log)
  /\ UNCHANGED <<log, pc, barrier, stepVars, effects, sent, crashes>>

Crash ==
  /\ pc # "down" /\ crashes < MaxCrashes
  /\ \E n \in durable..Len(log) : log' = SubSeq(log, 1, n)
  /\ pc' = "down" /\ barrier' = 0
  /\ asked' = <<>> /\ stage' = [c \in Calls |-> "none"]
  /\ need' = [c \in Calls |-> 0] /\ outcome' = [c \in Calls |-> "none"]
  /\ crashes' = crashes + 1
  /\ UNCHANGED <<durable, effects, sent>>

\* resumeWith: the closers are appended through the handle ...
Resume ==
  /\ pc = "down"
  /\ log' = Resumed(log)
  /\ IF Closers(log) = <<>>
     THEN pc' = "idle" /\ UNCHANGED barrier
     ELSE pc' = "repair" /\ barrier' = Len(log')
  /\ UNCHANGED <<durable, stepVars, effects, sent, crashes>>

\* ... and the session goes live when they are stored.
Repaired ==
  /\ pc = "repair" /\ durable >= barrier
  /\ pc' = "idle"
  /\ UNCHANGED <<log, durable, barrier, stepVars, effects, sent, crashes>>

Tool ==
  \/ \E i \in DOMAIN asked : StartCall(i) \/ Commit(i) \/ Skip(i)
  \/ \E c \in Calls : Execute(c) \/ RunBody(c) \/ \E o \in Outcomes : Return(c, o)

Next ==
  \/ OpenTurn \/ NextStep \/ CloseTurn \/ OpenStep \/ Request \/ Respond
  \/ Tool \/ CloseStep \/ StepFails
  \/ Persist \/ Crash \/ Resume \/ Repaired

Spec == Init /\ [][Next]_vars
-----------------------------------------------------------------------------
(* Properties.                                                             *)

\* Validation accepts every event of the log.
Valid(l) == \A n \in DOMAIN l : Accepts(TraceOf(SubSeq(l, 1, n - 1)), l[n])

\* Every call an assistant message asks for has exactly one result, in the
\* order of the message.
Asks(l) ==
  FlattenSeq([n \in DOMAIN l |-> IF l[n].type = "assistant/message" THEN l[n].calls ELSE <<>>])
Answers(l) ==
  FlattenSeq([n \in DOMAIN l |-> IF l[n].type = "tool/result" THEN <<l[n].call>> ELSE <<>>])
AllAnswered(l) == Answers(l) = Asks(l)

\* Wherever the log was cut, by a crash, by a crash in the repair of a crash,
\* by a failing step or by a fork, repair makes a log that validation accepts,
\* with no turn open, in which every requested call is answered exactly once
\* and in order: a seed that is not accepted could never be resumed.  A repair that
\* is itself cut short is continued, not repeated or changed: what a first
\* attempt stored and what a second one adds are the same events.
RepairSound ==
  LET closers == Closers(log)
  IN  /\ \A seed \in {Resumed(log), ForkSeed(log)} :
           Valid(seed) /\ TraceOf(seed).openTurn = Closed /\ AllAnswered(seed)
      /\ \A n \in 0..Len(closers) :
           Closers(log \o SubSeq(closers, 1, n)) = SubSeq(closers, n + 1, Len(closers))

\* What left the process, in whatever life of it, is in the log that resumes.
\* A tool that ran is there as called and is never reported as not run (the
\* model may repeat what it is told did not run), and a request that reached
\* the model belongs to a step the log still has.
ActsRemembered ==
  /\ \A c \in effects :
       /\ \E n \in DOMAIN log : log[n].type = "tool/call" /\ log[n].call = c
       /\ \A n \in DOMAIN log : log[n].type = "tool/result" /\ log[n].call = c
            => log[n].outcome \notin Disowning
  /\ \A r \in sent : \E n \in DOMAIN log : log[n] = StepStart(r[1], r[2])
=============================================================================
