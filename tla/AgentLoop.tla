----------------------------- MODULE AgentLoop -----------------------------
(***************************************************************************)
(* One agent: the driver that turns queued input into turns and steps      *)
(* (core/agent-loop agent.ts), its durable inbox (inbox.ts), and everything *)
(* that may call into it while it runs: send, cancel, inbox edits and      *)
(* maintenance.                                                            *)
(*                                                                         *)
(* The program is single-threaded.  What makes it hard is that every await *)
(* lets any other caller in, and that every notification (a session event, *)
(* agent/status, agent/inbox/...) runs listeners on the same stack, which  *)
(* may call back into the agent before the caller goes on.  So:            *)
(*   - `pc` is the driver's position; a position in Sync is on the stack,  *)
(*     inside a notification, every other position is an await;            *)
(*   - `frame` is a caller below it on the stack, suspended inside one of  *)
(*     its own notifications: a send between its insertion and its wake, a *)
(*     cancel between its clearing and its abort, a retiring driver        *)
(*     between its idle status and its replay.  Reentrant calls are taken  *)
(*     without a frame of their own: notifications nest one level deep.    *)
(*   - a promise continuation runs only on an empty stack (Async).         *)
(***************************************************************************)
EXTENDS SessionTrace, Sequences, SequencesExt

CONSTANTS
  Messages,        \* identities of user-role messages
  MaxCancels,      \* bound on cancel calls
  MaxSteps,        \* bound on the steps of a turn that tool calls may ask for
  MaxAttempts,     \* bound on the retries of one step's model request
  MaxMaintenance,  \* bound on maintenance tasks
  Faults           \* whether plugins, providers and appends may throw

ASSUME BoundsAssumption ==
  /\ MaxCancels \in Nat /\ MaxSteps \in Nat
  /\ MaxAttempts \in Nat /\ MaxMaintenance \in Nat
  /\ Faults \in BOOLEAN

VARIABLES
  \* Phase: one controller per activity; `cause` is its abort reason.
  phase, turn, step, cause, wakeRequested,
  \* the two pending lists
  inbox,
  \* the driver's locals: the claimed batch, whether it is still to be logged,
  \* and how turn() is going
  pc, batch, firstAttempt, turnEnds, exit, fault, attempts,
  frame,
  \* the session log, as its trace; `refused` if an append broke its rules
  trace, refused,
  \* history: who was ever sent, who left without reaching the model, how
  \* often each message was logged, and what callers were promised
  sent, spent, copies, quiet, owed, ceiling,
  \* bounds
  cancels, maintenances

phaseVars   == <<phase, turn, step, cause, wakeRequested>>
driverVars  == <<batch, firstAttempt, turnEnds, exit, fault, attempts>>
logVars     == <<trace, refused>>
fateVars    == <<sent, spent, copies>>
promiseVars == <<quiet, owed, ceiling>>
boundVars   == <<cancels, maintenances>>
vars == <<phaseVars, inbox, pc, driverVars, frame, logVars, fateVars,
          promiseVars, boundVars>>

Targets    == {"next-turn", "next-step"}
Causes     == {"user", "disposed"}
TurnEnds   == {"none", "completed", "max-tokens", "blocked", "aborted", "error"}
Positions  == {"off", "turnTop", "opened", "preStep", "rejected", "emptied",
               "entered", "request", "configured", "launch", "streaming",
               "retryAsk", "tools", "stepClosed", "stopping", "failing",
               "closed", "again", "leaving"}
\* preStep() has looked at the signal for the last time and returned; turn()
\* has not resumed yet.
Answered   == {"rejected", "emptied", "entered"}
\* On the stack, inside the observers of a session append: the log refuses a
\* nested append, so callers that must append throw.
Appending  == {"opened", "launch", "stepClosed", "closed"}
\* On the stack, inside agent/status(running) or agent/error listeners.
Notifying  == {"turnTop", "failing"}
Sync       == Appending \cup Notifying

NoFrame == [kind |-> "none", waking |-> FALSE, cause |-> "none"]
Frames  == [kind : {"none", "send", "cancel", "retire"},
            waking : BOOLEAN, cause : Causes \cup {"none"}]

HasPending == inbox["next-turn"] # <<>> \/ inbox["next-step"] # <<>>
Pending    == ToSet(inbox["next-turn"]) \cup ToSet(inbox["next-step"])
Aborted    == cause # "none"
Async      == frame = NoFrame /\ pc \notin Sync
CanCall    == pc \notin Appending

Traces == [openTurn : Nat, openStep : Nat, nextTurn : Nat, nextStep : Nat,
           pending : {{}}]

PhaseOK ==
  /\ phase \in {"idle", "maintenance", "running"}
  /\ turn \in Nat /\ step \in Nat
  /\ cause \in Causes \cup {"none"}
  /\ wakeRequested \in BOOLEAN
InboxOK ==
  /\ inbox \in [Targets -> Seq(Messages)]
  /\ batch \in Seq(Messages)
DriverOK ==
  /\ pc \in Positions
  /\ firstAttempt \in BOOLEAN /\ fault \in BOOLEAN
  /\ turnEnds \in TurnEnds
  /\ exit \in {"none", "throw", "return", "drain"}
  /\ attempts \in Nat
  /\ frame \in Frames
LogOK ==
  /\ trace \in Traces
  /\ refused \in BOOLEAN
HistoryOK ==
  /\ sent \subseteq Messages /\ spent \subseteq Messages
  /\ copies \in [Messages -> Nat]
  /\ quiet \in BOOLEAN /\ owed \in BOOLEAN /\ ceiling \in BOOLEAN
  /\ cancels \in Nat /\ maintenances \in Nat

TypeOK == PhaseOK /\ InboxOK /\ DriverOK /\ LogOK /\ HistoryOK

Init ==
  /\ phase = "idle" /\ turn = 0 /\ step = 0 /\ cause = "none"
  /\ wakeRequested = FALSE
  /\ inbox = [t \in Targets |-> <<>>]
  /\ pc = "off" /\ batch = <<>> /\ firstAttempt = FALSE /\ fault = FALSE
  /\ turnEnds = "none" /\ exit = "none" /\ attempts = 0
  /\ frame = NoFrame
  /\ trace = FreshTrace /\ refused = FALSE
  /\ sent = {} /\ spent = {} /\ copies = [m \in Messages |-> 0]
  /\ quiet = FALSE /\ owed = FALSE /\ ceiling = FALSE
  /\ cancels = 0 /\ maintenances = 0

\* Session.append of one event.
Record(e) ==
  /\ trace' = Advance(trace, e)
  /\ refused' = (refused \/ ~Accepts(trace, e))

-----------------------------------------------------------------------------
(* Waking and sending.                                                     *)

\* wakeDriver on an idle agent: reserve the running phase; kick() reaches
\* turn() on the same stack, after the agent/status listeners.
StartDriver ==
  /\ phase' = "running" /\ step' = 0 /\ cause' = "none"
  /\ wakeRequested' = FALSE /\ pc' = "turnTop"
  /\ UNCHANGED <<turn, owed>>

\* Mutant: every wake that meets a busy agent is latched.
LatchesOnLiveDriver(waking) == cause # "disposed"

\* wakeDriver behind maintenance or an aborted activity: latch.
Latches(waking) ==
  cause # "disposed" /\ (phase = "maintenance" \/ waking)

WakeDriver(waking) ==
  IF phase = "idle"
  THEN StartDriver
  ELSE /\ wakeRequested' = (wakeRequested \/ Latches(waking))
       /\ owed' = (owed \/ (Latches(waking) /\ \E t \in Targets : inbox'[t] # <<>>))
       /\ UNCHANGED <<phase, turn, step, cause, pc>>

WakingAfterAbort(wakeup) == wakeup /\ phase # "idle" /\ Aborted

\* The insertion half of send: the target is resolved against the phase as it
\* is before the insertion is announced.
Enqueue(m, target, wakeup) ==
  /\ m \notin sent
  /\ inbox' = [inbox EXCEPT
       ![IF WakingAfterAbort(wakeup) THEN "next-turn" ELSE target] = Append(@, m)]
  /\ sent' = sent \cup {m}
  /\ quiet' = (quiet /\ ~wakeup)
  /\ UNCHANGED <<spent, copies, ceiling, driverVars, logVars, boundVars>>

\* followup (next-turn), steer (next-step): the insertion, announced by
\* agent/inbox/inserted with the wake still to come ...
SendBegin(m, target) ==
  /\ Async
  /\ Enqueue(m, target, TRUE)
  /\ frame' = [kind |-> "send", waking |-> WakingAfterAbort(TRUE), cause |-> "none"]
  /\ UNCHANGED <<phaseVars, pc, owed>>

\* ... and the wake, with the classification taken before the insertion.
SendEnd ==
  /\ frame.kind = "send" /\ pc \notin Sync
  /\ frame' = NoFrame
  /\ UNCHANGED <<inbox, driverVars, logVars, fateVars, quiet, ceiling,
                 boundVars>>
  /\ WakeDriver(frame.waking)

\* A waking send from a listener.
SendReentrant(m, target) ==
  /\ CanCall /\ ~Async
  /\ Enqueue(m, target, TRUE)
  /\ WakeDriver(WakingAfterAbort(TRUE))
  /\ UNCHANGED frame

\* inject, and the result context tool calls hand to the next step: no wake.
Inject(m) ==
  /\ CanCall
  /\ Enqueue(m, "next-step", FALSE)
  /\ UNCHANGED <<phaseVars, pc, frame, owed>>

\* Inbox.remove and Inbox.replace of one pending message.
RemovePending ==
  /\ CanCall
  /\ \E t \in Targets : \E i \in DOMAIN inbox[t] :
       /\ inbox' = [inbox EXCEPT ![t] = RemoveAt(@, i)]
       /\ spent' = spent \cup {inbox[t][i]}
       /\ owed' = (owed /\ \E u \in Targets : inbox'[u] # <<>>)
  /\ UNCHANGED <<phaseVars, pc, driverVars, frame, logVars, sent, copies,
                 quiet, ceiling, boundVars>>

ReplacePending(m) ==
  /\ CanCall /\ m \notin sent
  /\ \E t \in Targets : \E i \in DOMAIN inbox[t] :
       /\ inbox' = [inbox EXCEPT ![t][i] = m]
       /\ spent' = spent \cup {inbox[t][i]}
       /\ sent' = sent \cup {m}
  /\ UNCHANGED <<phaseVars, pc, driverVars, frame, logVars, copies,
                 promiseVars, boundVars>>

-----------------------------------------------------------------------------
(* Cancelling.                                                             *)

ClearInbox ==
  /\ inbox' = [t \in Targets |-> <<>>]
  /\ spent' = spent \cup Pending

\* Whether a cancel can silence the agent at all: on its way from a finished step
\* out of the loop turn() looks at no signal before it takes a new controller,
\* and a cancel that keeps the inbox finds the same during turn/end.
Silences(keep) ==
  /\ phase # "idle"
  /\ frame.kind \in {"none", "cancel"}
  /\ ~(pc = "emptied" /\ turnEnds # "none")
  /\ keep => ~wakeRequested /\ pc # "closed"

\* Mutant: a plain cancel forgets the latch.
AbortActivityKeepingLatch(c, keep) ==
  LET active == phase # "idle"
  IN  /\ cause' = IF active /\ ~Aborted THEN c ELSE cause
      /\ owed' = (owed /\ keep)
      /\ quiet' = (quiet \/ Silences(keep))
      /\ UNCHANGED <<phase, turn, step, wakeRequested, pc>>

\* The part of cancel after the inbox: drop the latch with the inbox, abort
\* the live controller, first cause wins.
AbortActivity(c, keep) ==
  LET active == phase # "idle"
  IN  /\ wakeRequested' = (wakeRequested /\ (keep \/ ~active))
      /\ cause' = IF active /\ ~Aborted THEN c ELSE cause
      \* A keepInbox cancel leaves an earlier latch alone; on a controller
      \* that was still live it parks everything queued so far.
      /\ owed' = (owed /\ keep /\ c # "disposed"
                       /\ ~(phase = "running" /\ ~Aborted))
      /\ quiet' = (quiet \/ Silences(keep))
      /\ UNCHANGED <<phase, turn, step, pc>>

\* cancel whose inbox is kept or already empty: nothing to announce before
\* the abort, so it works from every listener.
CancelDirect(c, keep) ==
  /\ cancels < MaxCancels /\ cancels' = cancels + 1
  /\ keep \/ ~HasPending
  /\ AbortActivity(c, keep)
  /\ UNCHANGED <<inbox, driverVars, frame, logVars, fateVars, ceiling,
                 maintenances>>

\* cancel that discards input: agent/inbox/discarded is announced between the
\* clearing and the abort.
CancelBegin(c) ==
  /\ Async /\ HasPending
  /\ cancels < MaxCancels /\ cancels' = cancels + 1
  /\ ClearInbox
  /\ frame' = [kind |-> "cancel", waking |-> FALSE, cause |-> c]
  /\ owed' = FALSE
  /\ UNCHANGED <<phaseVars, pc, driverVars, logVars, sent, copies, quiet,
                 ceiling, maintenances>>

CancelEnd ==
  /\ frame.kind = "cancel" /\ pc \notin Sync
  /\ AbortActivity(frame.cause, FALSE)
  /\ frame' = NoFrame
  /\ UNCHANGED <<inbox, driverVars, logVars, fateVars, ceiling,
                 boundVars>>

\* From an observer of a session append (CanCall is false there) the clear of a
\* queued inbox throws before the abort: that cancel changes nothing and is no
\* action.
CancelReentrant(c) ==
  /\ CanCall /\ ~Async /\ HasPending
  /\ cancels < MaxCancels /\ cancels' = cancels + 1
  /\ ClearInbox
  /\ AbortActivity(c, FALSE)
  /\ UNCHANGED <<driverVars, frame, logVars, sent, copies, ceiling,
                 maintenances>>

-----------------------------------------------------------------------------
(* Maintenance.                                                            *)

StartMaintenance ==
  /\ CanCall /\ phase = "idle"
  /\ maintenances < MaxMaintenance /\ maintenances' = maintenances + 1
  /\ phase' = "maintenance" /\ cause' = "none" /\ wakeRequested' = FALSE
  /\ UNCHANGED <<turn, step, inbox, pc, driverVars, frame, logVars, fateVars,
                 quiet, owed, ceiling, cancels>>

\* The task settles: back to idle, and the latched wake is replayed at once.
MaintenanceEnd ==
  /\ phase = "maintenance" /\ Async
  /\ IF cause # "disposed" /\ wakeRequested /\ HasPending
     THEN StartDriver
     ELSE /\ phase' = "idle" /\ cause' = "none" /\ wakeRequested' = FALSE
          /\ UNCHANGED <<turn, step, pc, owed>>
  /\ UNCHANGED <<inbox, driverVars, frame, logVars, fateVars, quiet, ceiling,
                 boundVars>>

-----------------------------------------------------------------------------
(* The driver: turn().                                                     *)

callerVars == <<frame, sent, quiet, boundVars>>

\* Claimed input that will not reach the model; once the first attempt has
\* logged the batch it is the session's, and leaving the step loses nothing.
DropBatch ==
  /\ batch' = <<>> /\ firstAttempt' = FALSE
  /\ spent' = IF firstAttempt THEN spent \cup ToSet(batch) ELSE spent

\* turn() on a controller that was aborted before the turn opened, or whose
\* turn/start could not be appended: it throws with nothing to close.
TurnNotOpened ==
  /\ pc = "turnTop" \/ (pc = "again" /\ Async)
  /\ Aborted \/ Faults
  /\ pc' = "leaving" /\ exit' = "throw"
  /\ owed' = (owed /\ Aborted)
  /\ UNCHANGED <<phaseVars, inbox, batch, firstAttempt, turnEnds, fault,
                 attempts, logVars, spent, copies, ceiling, callerVars>>

OpenTurn ==
  /\ pc = "turnTop" \/ (pc = "again" /\ Async)
  /\ ~Aborted
  /\ Record(TurnStart(turn + 1))
  /\ turn' = turn + 1
  /\ pc' = "opened" /\ turnEnds' = "none" /\ exit' = "none" /\ fault' = FALSE
  /\ owed' = FALSE /\ ceiling' = FALSE
  /\ UNCHANGED <<phase, step, cause, wakeRequested, inbox, batch, firstAttempt,
                 attempts, spent, copies, callerVars>>

\* Mutant: the claim copies the steering list without splicing it out.
ProposeWithoutSplice(target) ==
  LET prompts == inbox["next-turn"]
      taken   == IF target = "next-turn" /\ prompts # <<>>
                 THEN <<Head(prompts)>> ELSE <<>>
  IN  /\ batch' = inbox["next-step"] \o taken
      /\ inbox' = [inbox EXCEPT !["next-turn"] = IF taken = <<>> THEN @ ELSE Tail(@)]
      /\ firstAttempt' = TRUE /\ pc' = "preStep"

\* preStep's claim: all next-step input, and one prompt at a turn boundary.
Propose(target) ==
  LET prompts == inbox["next-turn"]
      taken   == IF target = "next-turn" /\ prompts # <<>>
                 THEN <<Head(prompts)>> ELSE <<>>
  IN  /\ batch' = inbox["next-step"] \o taken
      /\ inbox' = [inbox EXCEPT
           !["next-step"] = <<>>,
           !["next-turn"] = IF taken = <<>> THEN @ ELSE Tail(@)]
      /\ firstAttempt' = TRUE /\ pc' = "preStep"

\* Mutant: the reason and the exit are swapped.
CloseTurnSwapped(reason, how) ==
  /\ Record(TurnEnd(turn))
  /\ turnEnds' = how /\ exit' = reason /\ pc' = "closed"

\* turn/end, with the way turn() is about to leave.
CloseTurn(reason, how) ==
  /\ Record(TurnEnd(turn))
  /\ turnEnds' = reason /\ exit' = how /\ pc' = "closed"

\* The catch clause: an aborted controller explains the throw, otherwise the
\* failure is announced before the turn is closed.
Raise ==
  IF Aborted
  THEN CloseTurn("aborted", "throw")
  ELSE /\ turnEnds' = "error" /\ pc' = "failing"
       /\ UNCHANGED <<trace, refused, exit>>

FirstClaim ==
  /\ pc = "opened"
  /\ IF Aborted
     THEN Raise /\ UNCHANGED <<inbox, batch, firstAttempt>>
     ELSE Propose("next-turn") /\ UNCHANGED <<turnEnds, exit, logVars>>
  /\ UNCHANGED <<phaseVars, fault, attempts, spent, copies, owed,
                 ceiling, callerVars>>

\* A pre-step await that throws or returns to an aborted controller, an entered
\* decision that turn() finds aborted, and a step/start that cannot be appended.
PreStepFails ==
  /\ pc \in {"preStep", "entered"} /\ Async
  /\ Aborted \/ Faults
  /\ DropBatch /\ Raise
  /\ UNCHANGED <<phaseVars, inbox, fault, attempts, copies, owed,
                 ceiling, callerVars>>

\* Mutant: preStep does not look at the signal after agent/pre-step.
PreStepRejectsUnchecked ==
  /\ pc = "preStep" /\ Async
  /\ DropBatch /\ pc' = "rejected"
  /\ UNCHANGED <<phaseVars, inbox, turnEnds, exit, fault, attempts, logVars,
                 copies, owed, ceiling, callerVars>>

\* preStep() returns its decision, having looked at the signal; turn() goes on
\* with it in a later microtask, and other callers run in between.
PreStepRejects ==
  /\ pc = "preStep" /\ Async /\ ~Aborted
  /\ DropBatch /\ pc' = "rejected"
  /\ UNCHANGED <<phaseVars, inbox, turnEnds, exit, fault, attempts, logVars,
                 copies, owed, ceiling, callerVars>>

\* An entered decision without messages closes the turn after a finished step,
\* and before the first step.
PreStepEntersEmpty ==
  /\ pc = "preStep" /\ Async /\ ~Aborted
  /\ turnEnds # "none" \/ step = 0
  /\ DropBatch /\ pc' = "emptied"
  /\ UNCHANGED <<phaseVars, inbox, turnEnds, exit, fault, attempts, logVars,
                 copies, owed, ceiling, callerVars>>

\* An entered decision opens the step: with the claimed messages, with other
\* content only (runtime context, or a rewrite of the batch), or, between two
\* steps of a tool loop, with nothing at all.
PreStepEnters(kept) ==
  /\ pc = "preStep" /\ Async /\ ~Aborted
  /\ batch' = IF kept THEN batch ELSE <<>>
  /\ spent' = IF kept THEN spent ELSE spent \cup ToSet(batch)
  /\ pc' = "entered"
  /\ UNCHANGED <<phaseVars, inbox, firstAttempt, turnEnds, exit, fault, attempts,
                 logVars, copies, owed, ceiling, callerVars>>

\* turn() resumes.  A rejection closes the turn as blocked ...
CloseRejected ==
  /\ pc = "rejected" /\ Async
  /\ CloseTurn("blocked", "return")
  /\ UNCHANGED <<phaseVars, inbox, batch, firstAttempt, fault, attempts, spent,
                 copies, owed, ceiling, callerVars>>

\* ... an empty one leaves the loop after a finished step and returns at once
\* before the first; neither looks at the signal again ...
CloseEmptied ==
  /\ pc = "emptied" /\ Async
  /\ IF turnEnds # "none"
     THEN CloseTurn(turnEnds, "drain")
     ELSE CloseTurn("completed", "return")
  /\ UNCHANGED <<phaseVars, inbox, batch, firstAttempt, fault, attempts, spent,
                 copies, owed, ceiling, callerVars>>

\* ... and an entered one does, and starts the step.
OpenStep ==
  /\ pc = "entered" /\ Async /\ ~Aborted
  /\ Record(StepStart(turn, step + 1))
  /\ step' = step + 1
  /\ pc' = "request" /\ attempts' = 0
  /\ UNCHANGED <<phase, turn, cause, wakeRequested, inbox, batch, firstAttempt,
                 turnEnds, exit, fault, spent, copies, owed, ceiling, callerVars>>

-----------------------------------------------------------------------------
(* The driver: step().                                                     *)

\* Mutant: a failed step is not closed.
StepThrowsUnclosed ==
  /\ DropBatch
  /\ fault' = TRUE /\ pc' = "stepClosed"
  /\ UNCHANGED <<turnEnds, ceiling, trace, refused>>

\* The step's finally clause, after a throw or with the step's outcome.
StepThrows ==
  /\ DropBatch
  /\ Record(StepEnd(turn, step))
  /\ fault' = TRUE /\ pc' = "stepClosed"
  /\ UNCHANGED <<turnEnds, ceiling>>

\* Mutant: the last step's outcome replaces the output ceiling.
StepReturnsLatest(end) ==
  /\ Record(StepEnd(turn, step))
  /\ turnEnds' = end
  /\ ceiling' = (ceiling \/ end = "max-tokens")
  /\ batch' = <<>> /\ fault' = FALSE /\ pc' = "stepClosed"
  /\ UNCHANGED <<firstAttempt, spent>>

StepReturns(end) ==
  /\ Record(StepEnd(turn, step))
  /\ turnEnds' = IF turnEnds = "max-tokens" THEN turnEnds ELSE end
  /\ ceiling' = (ceiling \/ end = "max-tokens")
  /\ batch' = <<>> /\ fault' = FALSE /\ pc' = "stepClosed"
  /\ UNCHANGED <<firstAttempt, spent>>

\* Any await of the step that throws or returns to an aborted controller, and
\* the abort check between admitting the messages and starting the stream.
\* Cancelled tool calls are drained by the scheduler, which then returns.
StepFails ==
  /\ \/ pc \in {"request", "streaming", "retryAsk"} /\ Async /\ (Aborted \/ Faults)
     \/ pc = "configured" /\ Async /\ Faults
     \/ pc = "launch" /\ Aborted
     \/ pc = "tools" /\ Async /\ Faults
  /\ StepThrows
  /\ UNCHANGED <<phaseVars, inbox, exit, attempts, copies, owed, callerVars>>

\* prepareRequest() has looked at the signal and returned; step() resumes in a
\* later microtask.
Configured ==
  /\ pc = "request" /\ Async /\ ~Aborted
  /\ pc' = "configured"
  /\ UNCHANGED <<phaseVars, inbox, driverVars, logVars, spent, copies, owed,
                 ceiling, callerVars>>

\* Commit the prompt and, on the first attempt only, the accepted messages,
\* then the request header: a signal that fired since stops the stream, not
\* these appends.
Admit ==
  /\ pc = "configured" /\ Async
  /\ copies' = [m \in Messages |->
       IF firstAttempt /\ m \in ToSet(batch) THEN copies[m] + 1 ELSE copies[m]]
  /\ refused' = (refused \/ ~Accepts(trace, StepFact(turn, step))
                         \/ ~Accepts(trace, TurnFact))
  /\ firstAttempt' = FALSE /\ pc' = "launch"
  /\ UNCHANGED <<phaseVars, inbox, batch, turnEnds, exit, fault, attempts, trace,
                 spent, owed, ceiling, callerVars>>

\* Mutant: no abort check between admitting the messages and the stream.
LaunchUnchecked ==
  /\ pc = "launch"
  /\ pc' = "streaming"
  /\ UNCHANGED <<phaseVars, inbox, driverVars, logVars, spent, copies, owed,
                 ceiling, callerVars>>

Launch ==
  /\ pc = "launch" /\ ~Aborted
  /\ pc' = "streaming"
  /\ UNCHANGED <<phaseVars, inbox, driverVars, logVars, spent, copies, owed,
                 ceiling, callerVars>>

\* A finish of kind error: the attempt is logged and agent/request-error asked.
AttemptFails ==
  /\ pc = "streaming" /\ Async /\ ~Aborted
  /\ refused' = (refused \/ ~Accepts(trace, StepFact(turn, step)))
  /\ pc' = "retryAsk"
  /\ UNCHANGED <<phaseVars, inbox, driverVars, trace, spent, copies, owed,
                 ceiling, callerVars>>

Retry ==
  /\ pc = "retryAsk" /\ Async /\ ~Aborted
  /\ attempts < MaxAttempts /\ attempts' = attempts + 1
  /\ pc' = "request"
  /\ UNCHANGED <<phaseVars, inbox, batch, firstAttempt, turnEnds, exit, fault,
                 logVars, spent, copies, owed, ceiling, callerVars>>

\* The failure stands: an LlmError leaves the step.
GiveUp ==
  /\ pc = "retryAsk" /\ Async /\ ~Aborted
  /\ StepThrows
  /\ UNCHANGED <<phaseVars, inbox, exit, attempts, copies, owed, callerVars>>

\* The model answered without tool calls, or ran into its output ceiling.
ModelFinishes(end) ==
  /\ pc = "streaming" /\ Async /\ ~Aborted
  /\ StepReturns(end)
  /\ UNCHANGED <<phaseVars, inbox, exit, attempts, copies, owed, callerVars>>

ModelCallsTools ==
  /\ pc = "streaming" /\ Async /\ ~Aborted
  /\ refused' = (refused \/ ~Accepts(trace, Assistant(turn, step, {})))
  /\ pc' = "tools"
  /\ UNCHANGED <<phaseVars, inbox, driverVars, trace, spent, copies, owed,
                 ceiling, callerVars>>

\* executeToolCalls returned: concluded ends the turn, null asks for a step.
ToolsReturn(end) ==
  /\ pc = "tools" /\ Async
  /\ end = "none" => step < MaxSteps
  /\ StepReturns(end)
  /\ UNCHANGED <<phaseVars, inbox, exit, attempts, copies, owed, callerVars>>

-----------------------------------------------------------------------------
(* The driver: step and turn boundaries, and its exit.                     *)

\* After step/end: rethrow, stop for a cancel, ask agent/turn-stopping, or
\* claim the next batch.
StepBoundary ==
  /\ pc = "stepClosed"
  /\ CASE fault \/ Aborted -> Raise /\ UNCHANGED <<inbox, batch, firstAttempt>>
       [] ~fault /\ ~Aborted /\ turnEnds # "none" /\ inbox["next-step"] = <<>> ->
            /\ pc' = "stopping"
            /\ UNCHANGED <<inbox, batch, firstAttempt, turnEnds, exit, logVars>>
       [] OTHER ->
            Propose("next-step") /\ UNCHANGED <<turnEnds, exit, logVars>>
  /\ UNCHANGED <<phaseVars, fault, attempts, spent, copies, owed,
                 ceiling, callerVars>>

\* Mutant: no abort check after agent/turn-stopping.
StoppedUnchecked ==
  /\ pc = "stopping" /\ Async
  /\ IF inbox["next-step"] = <<>>
     THEN CloseTurn(turnEnds, "drain") /\ UNCHANGED <<inbox, batch, firstAttempt>>
     ELSE Propose("next-step") /\ UNCHANGED <<turnEnds, exit, logVars>>
  /\ UNCHANGED <<phaseVars, fault, attempts, spent, copies, owed,
                 ceiling, callerVars>>

Stopped ==
  /\ pc = "stopping" /\ Async /\ ~Aborted
  /\ IF inbox["next-step"] = <<>>
     THEN CloseTurn(turnEnds, "drain") /\ UNCHANGED <<inbox, batch, firstAttempt>>
     ELSE Propose("next-step") /\ UNCHANGED <<turnEnds, exit, logVars>>
  /\ UNCHANGED <<phaseVars, fault, attempts, spent, copies, owed,
                 ceiling, callerVars>>

\* Mutant: a cancel does not release the agent/turn-stopping wait.
StoppingFailsUnsignalled ==
  /\ pc = "stopping" /\ Async
  /\ ~Aborted /\ Faults
  /\ Raise
  /\ UNCHANGED <<phaseVars, inbox, batch, firstAttempt, fault, attempts, spent,
                 copies, owed, ceiling, callerVars>>

StoppingFails ==
  /\ pc = "stopping" /\ Async
  /\ Aborted \/ Faults
  /\ Raise
  /\ UNCHANGED <<phaseVars, inbox, batch, firstAttempt, fault, attempts, spent,
                 copies, owed, ceiling, callerVars>>

\* After the agent/error listeners: the finally clause closes the turn.
CloseFailedTurn ==
  /\ pc = "failing"
  /\ CloseTurn("error", "throw")
  /\ UNCHANGED <<phaseVars, inbox, batch, firstAttempt, fault, attempts, spent,
                 copies, owed, ceiling, callerVars>>

\* After turn/end: a drained turn with input pending opens another turn on a
\* fresh controller; every other way out leaves turn() for kick's finally.
TurnContinues ==
  /\ pc = "closed" /\ exit = "drain" /\ HasPending
  /\ cause' = "none" /\ wakeRequested' = FALSE /\ step' = 0
  /\ pc' = "again"
  /\ UNCHANGED <<phase, turn, inbox, driverVars, frame, logVars, fateVars,
                 quiet, owed, ceiling, boundVars>>

TurnLeaves ==
  /\ pc = "closed" /\ (exit = "drain" => ~HasPending)
  /\ pc' = "leaving"
  /\ UNCHANGED <<phaseVars, inbox, driverVars, logVars, spent, copies, owed,
                 ceiling, callerVars>>

\* Mutant: the latch is read after the phase was reset.
RetireForgetting ==
  /\ pc = "leaving" /\ Async
  /\ phase' = "idle" /\ pc' = "off" /\ cause' = "none" /\ wakeRequested' = FALSE
  /\ frame' = [kind |-> "retire", waking |-> FALSE, cause |-> "none"]
  /\ UNCHANGED <<turn, step, inbox, driverVars, logVars, fateVars, quiet, owed,
                 ceiling, boundVars>>

\* kick's finally: idle is announced with the latch already read ...
Retire ==
  /\ pc = "leaving" /\ Async
  /\ phase' = "idle" /\ pc' = "off" /\ cause' = "none" /\ wakeRequested' = FALSE
  /\ frame' = [kind |-> "retire", waking |-> wakeRequested, cause |-> "none"]
  /\ UNCHANGED <<turn, step, inbox, driverVars, logVars, fateVars, quiet, owed,
                 ceiling, boundVars>>

\* ... and replayed after the listeners, while anything is pending.
RetireEnd ==
  /\ frame.kind = "retire" /\ pc \notin Sync
  /\ frame' = NoFrame
  /\ UNCHANGED <<inbox, driverVars, logVars, fateVars, quiet, ceiling,
                 boundVars>>
  /\ IF frame.waking /\ HasPending
     THEN WakeDriver(FALSE)
     ELSE UNCHANGED <<phaseVars, pc, owed>>

-----------------------------------------------------------------------------
TurnSteps ==
  \/ TurnNotOpened \/ OpenTurn \/ FirstClaim
  \/ PreStepFails \/ PreStepRejects \/ PreStepEntersEmpty
  \/ \E kept \in BOOLEAN : PreStepEnters(kept)
  \/ CloseRejected \/ CloseEmptied \/ OpenStep

RequestSteps ==
  \/ StepFails \/ Configured \/ Admit \/ Launch \/ AttemptFails \/ Retry \/ GiveUp
  \/ \E end \in {"completed", "max-tokens"} : ModelFinishes(end)
  \/ ModelCallsTools
  \/ \E end \in {"completed", "none"} : ToolsReturn(end)

BoundarySteps ==
  \/ StepBoundary \/ Stopped \/ StoppingFails \/ CloseFailedTurn
  \/ TurnContinues \/ TurnLeaves \/ Retire

Driver == TurnSteps \/ RequestSteps \/ BoundarySteps

\* The rest of a call whose listeners have returned, and a settling task.
Unwind == SendEnd \/ CancelEnd \/ RetireEnd \/ MaintenanceEnd

Callers ==
  \/ \E m \in Messages, t \in Targets : SendBegin(m, t) \/ SendReentrant(m, t)
  \/ \E m \in Messages : Inject(m) \/ ReplacePending(m)
  \/ RemovePending
  \/ \E c \in Causes : \/ \E keep \in BOOLEAN : CancelDirect(c, keep)
                       \/ CancelBegin(c) \/ CancelReentrant(c)
  \/ StartMaintenance

Next == Driver \/ Unwind \/ Callers

Spec == Init /\ [][Next]_vars

\* A promise continuation that can run eventually runs, and every await of the
\* driver settles: plugins, providers and tools answer or observe the signal.
FairSpec == Spec /\ WF_vars(Driver) /\ WF_vars(Unwind)
-----------------------------------------------------------------------------
(* Properties.                                                             *)

\* Whatever interrupts it (a cancel, a throwing plugin, a refused request),
\* the driver never appends a turn or step event the log's own rules reject.
LogAccepted == ~refused

\* A message that was sent is in exactly one place: pending in one list, in
\* the claimed batch, logged for the model once, or given up; a retried
\* request does not log it again and no failure loses track of it.
MessageConserved ==
  \A m \in Messages :
    LET places(s) == Cardinality({i \in DOMAIN s : s[i] = m})
    IN  places(inbox["next-turn"]) + places(inbox["next-step"])
          + (IF firstAttempt THEN places(batch) ELSE 0)
          + copies[m] + (IF m \in spent THEN 1 ELSE 0)
        = IF m \in sent THEN 1 ELSE 0

\* A latch stands only behind an activity that cannot deliver the wake itself:
\* maintenance, or an aborted driver.  A latch surviving onto a live controller
\* would open an empty turn or run parked work at the driver's exit.
LatchOnlyBehindDeadActivity ==
  wakeRequested => phase = "maintenance" \/ (phase = "running" /\ Aborted)

\* Once its controller is aborted the driver takes on nothing new: it claims
\* no input, opens no step, sends no request and starts no stream.
CancelStopsWork ==
  [][pc' # pc /\ pc' \in {"preStep", "request", "streaming"} => ~Aborted]_vars

\* A cancel that came before the driver's last awaited answer is never reported
\* as success: a decision is taken only from a live turn, and a turn that is
\* aborted closes as completed, at its output ceiling or blocked only when it
\* had that decision in hand.  And a turn that met the ceiling in some step is
\* never reported as completed because a later step finished normally.
EndReasonIsTrue ==
  [][/\ pc' \in Answered /\ pc \notin Answered => ~Aborted
     /\ pc' = "closed" /\ pc # "closed" =>
          /\ turnEnds' \in {"completed", "max-tokens", "blocked"}
               => ~Aborted \/ pc \in Answered
          /\ turnEnds' = "completed" => ~ceiling]_vars

\* After a cancel no turn opens until somebody sends waking input again:
\* neither the queue it parked, nor a latch it dropped, nor a later injection
\* restarts the agent.  (A cancel the driver does not look at any more, because
\* it is leaving a finished turn, silences nothing: see Silences.)
CancelSilences ==
  [][pc' = "opened" /\ pc # "opened" => ~quiet]_vars

\* A cancelled activity converges to idle.
CancelConverges == Aborted ~> phase = "idle"

\* Waking input accepted behind maintenance or an aborted activity opens a turn
\* after it, unless its input is removed or a later cancel parks it.
LatchedWakeOpensTurn == owed ~> ~owed
=============================================================================
