----------------------------- MODULE ToolCalls ------------------------------
(***************************************************************************)
(* The scheduler of one assistant step's tool calls (core/agent-loop       *)
(* tool-calls.ts) over the staged pipeline of the tool registry            *)
(* (core/tools index.ts: prepare, dispatch, finalize), from the assistant  *)
(* message to the end of its step, with the recovery of the owning step    *)
(* (agent.ts, ToolCallRecovery) when the scheduler fails.                  *)
(*                                                                         *)
(* The scheduler is one coroutine: it starts calls, awaits their           *)
(* preparation, waits for a dispatch to settle, and commits settled calls  *)
(* in model order, awaiting their post-execute stage.  Dispatches run      *)
(* concurrently with it, and the abort signal may fire while it awaits.    *)
(* Between two awaits it runs alone.                                       *)
(*                                                                         *)
(* Calls are their positions in the assistant message.  A result is        *)
(* abstracted to a value, an error (an aborted body's and a recovered      *)
(* call's included), or "undispatched": the error that tells the model     *)
(* that the tool never ran.                                                *)
(***************************************************************************)
EXTENDS SessionTrace, Sequences, FiniteSets

CONSTANTS NCalls,      \* tool calls in the assistant message
          MaxParallel, \* agentLoop config maxParallelToolCalls
          MaxTries     \* times a tools/execute wrapper may call next()

ASSUME SizesAssumption ==
  NCalls \in Nat /\ MaxParallel \in Nat \ {0} /\ MaxTries \in Nat \ {0}

VARIABLES
  pc,        \* where the scheduler coroutine is
  mode,      \* the execution mode of the current group
  first,     \* the group's first call
  index,     \* nextToStart
  committed, \* calls whose results are committed: a prefix of the message
  aborted,   \* runGroup's own flag, sampled from the signal
  failed,    \* schedulerFailure # undefined
  signal,    \* the turn's abort signal has fired
  inFlight,  \* the map of dispatches that the race has not removed
  stage,     \* per call: where its dispatch is
  tries,     \* per call: bodies its wrappers have asked for
  got,       \* per call: what next() last returned to the wrapper
  invoked,   \* per call: bodyInvoked
  slots,     \* per call: the outcome waiting for its turn to commit
  called,    \* calls with a tool/call event
  answers,   \* calls with a tool/result event, in log order
  disowned,  \* calls whose result in the log says that they never ran
  trace,     \* the log's validation state
  refused    \* an append was rejected by the log

groupVars    == <<mode, first, index, committed, aborted>>
pipelineVars == <<inFlight, stage, tries, got, invoked>>
logVars      == <<called, answers, disowned, trace, refused>>
vars == <<pc, groupVars, failed, signal, pipelineVars, slots, logVars>>

Calls    == 1..NCalls
Modes    == {"parallel", "exclusive"}
Outcomes == {"value", "error", "undispatched"}
\* The scheduler's awaits: anything else may run meanwhile.
Awaits   == {"classify", "prepare", "toDispatch", "toSlot", "started", "commit",
             "finalize", "race", "draining"}
\* The registry has answered the preparation; the scheduler has not resumed yet.
Returned == {"toDispatch", "toSlot"}
Sync     == {"fill", "skip", "recover", "closed"}
Empty    == [needsPost |-> FALSE, result |-> "none"]
Slots    == [needsPost : BOOLEAN, result : Outcomes \cup {"none"}]
Last     == IF mode = "parallel" THEN NCalls ELSE first
Running  == {c \in inFlight : stage[c] # "settled"}
Pending  == Calls \ {answers[i] : i \in DOMAIN answers}

TypeOK ==
  /\ pc \in Awaits \cup Sync
  /\ mode \in Modes
  /\ first \in 1..(NCalls + 1) /\ index \in 1..(NCalls + 1)
  /\ committed \in 0..NCalls
  /\ aborted \in BOOLEAN /\ failed \in BOOLEAN /\ signal \in BOOLEAN
  /\ inFlight \subseteq Calls
  /\ stage \in [Calls -> {"none", "wrapper", "body", "settled"}]
  /\ tries \in [Calls -> 0..MaxTries]
  /\ got \in [Calls -> Outcomes \cup {"none"}]
  /\ invoked \in [Calls -> BOOLEAN]
  /\ slots \in [Calls -> Slots]
  /\ called \subseteq Calls
  /\ answers \in Seq(Calls)
  /\ disowned \subseteq Calls
  /\ trace \in [openTurn : {Closed, 1}, openStep : {Closed, 1},
                nextTurn : {1, 2}, nextStep : {1, 2}, pending : SUBSET Calls]
  /\ refused \in BOOLEAN

\* The step is open and its assistant message is in the log.
Init ==
  /\ pc = "classify" /\ mode = "parallel" /\ first = 1 /\ index = 1
  /\ committed = 0 /\ aborted = FALSE /\ failed = FALSE /\ signal = FALSE
  /\ inFlight = {} /\ stage = [c \in Calls |-> "none"]
  /\ tries = [c \in Calls |-> 0] /\ got = [c \in Calls |-> "none"]
  /\ invoked = [c \in Calls |-> FALSE] /\ slots = [c \in Calls |-> Empty]
  /\ called = {} /\ answers = <<>> /\ disowned = {}
  /\ trace = Advance(Advance(FreshTrace, TurnStart(1)), StepStart(1, 1))
  /\ refused = FALSE

\* Session.append of one event.
Record(e) ==
  /\ trace' = Advance(trace, e)
  /\ refused' = (refused \/ ~Accepts(trace, e))

\* appendToolCall.
AppendCall(c) ==
  /\ Record(ToolCall(1, 1, c))
  /\ called' = called \cup {c}
  /\ UNCHANGED <<answers, disowned>>

\* appendToolResult of a recorded call.
AppendResult(c, r) ==
  /\ Record(ToolResult(1, 1, c, FALSE))
  /\ answers' = Append(answers, c)
  /\ disowned' = disowned \cup (IF r = "undispatched" THEN {c} ELSE {})
  /\ UNCHANGED called

\* Mutant: the started body is not told from the unstarted one.
CancelledUnstarted(c, r) == IF signal /\ r = "value" THEN "undispatched" ELSE r

\* callerCancelled replaces a successful outcome, and what it says depends on
\* whether the body was invoked.
Cancelled(c, r) ==
  IF signal /\ r = "value"
  THEN IF invoked[c] THEN "error" ELSE "undispatched"
  ELSE r

-----------------------------------------------------------------------------
(* The scheduler.                                                          *)

\* executeToolCalls reads the mode of the next call and enters runGroup, or
\* returns when every call has been consumed.
Classify ==
  /\ pc = "classify"
  /\ IF index > NCalls
     THEN pc' = "closed" /\ Record(StepEnd(1, 1))
          /\ UNCHANGED <<groupVars, called, answers, disowned>>
     ELSE /\ \E m \in Modes : mode' = m
          /\ first' = index /\ aborted' = signal /\ pc' = "fill"
          /\ UNCHANGED <<index, committed, logVars>>
  /\ UNCHANGED <<failed, signal, pipelineVars, slots>>

\* Mutant: the bound of the fill loop is off by one.
MayStartPastEnd  == ~aborted /\ index <= Last + 1 /\ Cardinality(inFlight) < MaxParallel

\* Mutant: the pool's limit is off by one.
MayStartOneMore  == ~aborted /\ index <= Last /\ Cardinality(inFlight) <= MaxParallel

\* The while condition of fillPool; a later call of a parallel group is
\* classified again, so the registry may turn it into a barrier.
MayStart   == ~aborted /\ index <= Last /\ Cardinality(inFlight) < MaxParallel
MayBarrier == mode = "parallel" /\ index > first /\ index <= Last

\* startCall, up to the await of its preparation.
StartCall ==
  /\ pc = "fill" /\ MayStart
  /\ AppendCall(index)
  /\ pc' = "prepare"
  /\ UNCHANGED <<groupVars, failed, signal, pipelineVars, slots>>

\* fillPool is done and dispatches are out: wait for one of them.
PoolWaits ==
  /\ pc = "fill" /\ inFlight # {} /\ (~MayStart \/ MayBarrier)
  /\ pc' = "race"
  /\ UNCHANGED <<groupVars, failed, signal, pipelineVars, slots, logVars>>

\* Mutant: a barrier does not wait for the pool to drain.
GroupEndsAtBarrier ==
  /\ pc = "fill" /\ (inFlight = {} \/ MayBarrier) /\ (~MayStart \/ MayBarrier)
  /\ pc' = IF aborted THEN "skip" ELSE "classify"
  /\ UNCHANGED <<groupVars, failed, signal, pipelineVars, slots, logVars>>

\* Nothing is out: runGroup returns, and the caller goes on with what follows
\* or, aborted, records that the rest was skipped.
GroupEnds ==
  /\ pc = "fill" /\ inFlight = {} /\ (~MayStart \/ MayBarrier)
  /\ pc' = IF aborted THEN "skip" ELSE "classify"
  /\ UNCHANGED <<groupVars, failed, signal, pipelineVars, slots, logVars>>

\* The catch of runGroup: drain what is out before rejecting.
Fail == pc' = "draining" /\ failed' = TRUE

\* Mutant: the registry does not look at the signal after pre-execute.
PrepareAnswersUnchecked ==
  /\ pc = "prepare"
  /\ pc' \in Returned
  /\ UNCHANGED <<groupVars, failed, signal, pipelineVars, slots, logVars>>

\* The registry answers the preparation, having looked at the signal for the
\* last time before a body: dispatch, or an outcome for the slot.
PrepareAnswers ==
  /\ pc = "prepare"
  /\ pc' \in Returned
  /\ pc' = "toDispatch" => ~signal
  /\ UNCHANGED <<groupVars, failed, signal, pipelineVars, slots, logVars>>

\* The answer is acted upon: dispatch, whatever the signal did meanwhile, or
\* fill the slot.  Only an abort before pre-execute is final and says that the
\* call was not dispatched.
TakeAnswer ==
  /\ index' = index + 1 /\ pc' = "started"
  /\ \/ /\ pc = "toDispatch"
        /\ inFlight' = inFlight \cup {index}
        /\ stage' = [stage EXCEPT ![index] = "wrapper"]
        /\ UNCHANGED slots
     \/ /\ pc = "toSlot"
        /\ \E post \in BOOLEAN, r \in {"error", "undispatched"} :
             /\ r = "undispatched" => post \/ signal
             /\ slots' = [slots EXCEPT ![index] = [needsPost |-> post, result |-> r]]
        /\ UNCHANGED <<inFlight, stage>>

\* Mutant: no failure check after the await of the preparation.
PreparedUnchecked ==
  /\ pc \in Returned
  /\ TakeAnswer
  /\ UNCHANGED <<mode, first, committed, aborted, failed, signal, tries, got,
                 invoked, logVars>>

\* startCall resumes; a failure of another dispatch meanwhile stops this one.
Prepared ==
  /\ pc \in Returned
  /\ IF failed
     THEN Fail /\ UNCHANGED <<index, inFlight, stage, slots>>
     ELSE TakeAnswer /\ UNCHANGED failed
  /\ UNCHANGED <<mode, first, committed, aborted, signal, tries, got, invoked,
                 logVars>>

\* prepare or a finalization rejects: nothing in the registry does, the
\* scheduler contains it all the same.
StageRejects ==
  /\ pc \in {"prepare", "finalize"}
  /\ Fail
  /\ UNCHANGED <<groupVars, signal, pipelineVars, slots, logVars>>

\* startCall has returned.
Started ==
  /\ pc = "started"
  /\ IF failed THEN Fail ELSE pc' = "commit" /\ UNCHANGED failed
  /\ UNCHANGED <<groupVars, signal, pipelineVars, slots, logVars>>

\* Mutant: a settled dispatch stays in the pool.
RaceSettlesUndeleted ==
  /\ pc = "race" /\ inFlight # Running
  /\ IF failed THEN Fail ELSE pc' = "commit" /\ UNCHANGED failed
  /\ UNCHANGED <<groupVars, signal, pipelineVars, slots, logVars>>

\* One settled dispatch leaves the pool.
RaceSettles ==
  /\ pc = "race"
  /\ \E c \in inFlight \ Running : inFlight' = inFlight \ {c}
  /\ IF failed THEN Fail ELSE pc' = "commit" /\ UNCHANGED failed
  /\ UNCHANGED <<groupVars, signal, stage, tries, got, invoked, slots, logVars>>

\* commitReady's loop: the next call in model order has an outcome.
Ready == committed < Last /\ slots[committed + 1].result # "none"

Finalize ==
  /\ pc = "commit" /\ Ready /\ slots[committed + 1].needsPost
  /\ pc' = "finalize"
  /\ UNCHANGED <<groupVars, failed, signal, pipelineVars, slots, logVars>>

\* The result is appended, then its contexts are offered to the inbox, whose
\* acceptor may throw.
Commit(r, throws) ==
  /\ AppendResult(committed + 1, r)
  /\ IF throws THEN Fail /\ UNCHANGED committed
     ELSE committed' = committed + 1 /\ pc' = "commit" /\ UNCHANGED failed
  /\ UNCHANGED <<mode, first, index, aborted, signal, pipelineVars, slots>>

\* finish: a final result needs no post-execute stage.
CommitFinal(throws) ==
  /\ pc = "commit" /\ Ready /\ ~slots[committed + 1].needsPost
  /\ Commit(slots[committed + 1].result, throws)

\* finalize returns: post-execute kept or replaced the result.
CommitPost(throws) ==
  /\ pc = "finalize"
  /\ \E r \in {slots[committed + 1].result, "value", "error"} :
       Commit(Cancelled(committed + 1, r), throws)

\* Mutant: the signal is not sampled after a commit.
CommitEndsUnsampled ==
  /\ pc = "commit" /\ ~Ready
  /\ IF failed THEN Fail ELSE pc' = "fill" /\ UNCHANGED failed
  /\ UNCHANGED <<groupVars, signal, pipelineVars, slots, logVars>>

\* No further call is ready: report a failure, sample the signal, fill again.
CommitEnds ==
  /\ pc = "commit" /\ ~Ready
  /\ IF failed
     THEN Fail /\ UNCHANGED aborted
     ELSE /\ pc' = "fill" /\ aborted' = (aborted \/ signal)
          /\ UNCHANGED failed
  /\ UNCHANGED <<mode, first, index, committed, signal, pipelineVars, slots, logVars>>

\* appendSkippedToolCall for every call that was not started.
SkipCall ==
  /\ pc = "skip" /\ index <= NCalls
  /\ LET noted == Advance(trace, ToolCall(1, 1, index))
     IN  /\ trace' = Advance(noted, ToolResult(1, 1, index, FALSE))
         /\ refused' = \/ refused
                       \/ ~Accepts(trace, ToolCall(1, 1, index))
                       \/ ~Accepts(noted, ToolResult(1, 1, index, FALSE))
  /\ called' = called \cup {index}
  /\ answers' = Append(answers, index)
  /\ disowned' = disowned \cup {index}
  /\ index' = index + 1
  /\ UNCHANGED <<pc, mode, first, committed, aborted, failed, signal,
                 pipelineVars, slots>>

\* Mutant: only the group's own calls are skipped.
SkipEndsWithGroup ==
  /\ pc = "skip" /\ index > Last
  /\ pc' = "closed" /\ Record(StepEnd(1, 1))
  /\ UNCHANGED <<groupVars, failed, signal, pipelineVars, slots, called, answers, disowned>>

SkipEnds ==
  /\ pc = "skip" /\ index > NCalls
  /\ pc' = "closed" /\ Record(StepEnd(1, 1))
  /\ UNCHANGED <<groupVars, failed, signal, pipelineVars, slots, called, answers, disowned>>

\* Mutant: the failure is rethrown without draining the pool.
DrainedAtOnce ==
  /\ pc = "draining"
  /\ pc' = "recover"
  /\ UNCHANGED <<groupVars, failed, signal, pipelineVars, slots, logVars>>

\* allSettled: every dispatch still in the pool has settled.
Drained ==
  /\ pc = "draining" /\ Running = {}
  /\ pc' = "recover"
  /\ UNCHANGED <<groupVars, failed, signal, pipelineVars, slots, logVars>>

\* The owning step's catch: ToolCallRecovery answers what is still pending,
\* in assistant order, and says whether the call had been recorded.
RecoverCall ==
  /\ pc = "recover" /\ Pending # {}
  /\ LET c == CHOOSE c \in Pending : \A d \in Pending : c <= d
     IN  /\ Record(ToolResult(1, 1, c, c \notin called))
         /\ answers' = Append(answers, c)
         /\ disowned' = disowned \cup ({c} \ called)
  /\ UNCHANGED <<pc, groupVars, failed, signal, pipelineVars, slots, called>>

RecoverEnds ==
  /\ pc = "recover" /\ Pending = {}
  /\ pc' = "closed" /\ Record(StepEnd(1, 1))
  /\ UNCHANGED <<groupVars, failed, signal, pipelineVars, slots, called, answers, disowned>>

-----------------------------------------------------------------------------
(* Dispatches and the abort signal, while the scheduler awaits.            *)

\* A wrapper calls next(): dispatchToolBody runs the body unless the signal
\* has fired.  A retrying wrapper may call it again.
AskBody(c) ==
  /\ pc \in Awaits /\ stage[c] = "wrapper" /\ tries[c] < MaxTries
  /\ tries' = [tries EXCEPT ![c] = @ + 1]
  /\ IF signal
     THEN got' = [got EXCEPT ![c] = "undispatched"] /\ UNCHANGED <<stage, invoked>>
     ELSE /\ stage' = [stage EXCEPT ![c] = "body"]
          /\ invoked' = [invoked EXCEPT ![c] = TRUE]
          /\ UNCHANGED got
  /\ UNCHANGED <<pc, groupVars, failed, signal, inFlight, slots, logVars>>

\* The body returns or throws; a success is superseded by the abort.
BodyReturns(c) ==
  /\ pc \in Awaits /\ stage[c] = "body"
  /\ \E r \in {"value", "error"} : got' = [got EXCEPT ![c] = Cancelled(c, r)]
  /\ stage' = [stage EXCEPT ![c] = "wrapper"]
  /\ UNCHANGED <<pc, groupVars, failed, signal, inFlight, tries, invoked, slots,
                 logVars>>

\* The dispatch is over, and its wrappers' locals with it.
Settle(c) ==
  /\ stage' = [stage EXCEPT ![c] = "settled"]
  /\ tries' = [tries EXCEPT ![c] = 0]
  /\ got' = [got EXCEPT ![c] = "none"]

\* What the outermost wrapper may return: what next() gave it, a result of its
\* own, or, like the checkpoint policy, that an abort kept it from calling next.
WrapperResults(c) ==
  {"value", "error"}
    \cup (IF got[c] # "none" THEN {got[c]} ELSE {})
    \cup (IF signal /\ tries[c] = 0 THEN {"undispatched"} ELSE {})

\* The outermost wrapper returns what it got, or a result of its own; or the
\* pipeline threw, and the error is final.
DispatchReturns(c) ==
  /\ pc \in Awaits /\ stage[c] = "wrapper"
  /\ Settle(c)
  /\ \/ \E r \in WrapperResults(c) :
          slots' = [slots EXCEPT ![c] = [needsPost |-> TRUE, result |-> Cancelled(c, r)]]
     \/ slots' = [slots EXCEPT ![c] = [needsPost |-> FALSE, result |-> "error"]]
  /\ UNCHANGED <<pc, groupVars, failed, signal, inFlight, invoked, logVars>>

\* A dispatch rejects: the scheduler's own failure, kept for the next check.
DispatchRejects(c) ==
  /\ pc \in Awaits /\ stage[c] = "wrapper"
  /\ Settle(c)
  /\ failed' = TRUE
  /\ UNCHANGED <<pc, groupVars, signal, inFlight, invoked, slots, logVars>>

\* Agent.cancel aborts the turn's controller.
Abort ==
  /\ pc \in Awaits /\ ~signal
  /\ signal' = TRUE
  /\ UNCHANGED <<pc, groupVars, failed, pipelineVars, slots, logVars>>

-----------------------------------------------------------------------------
Scheduler ==
  \/ Classify \/ StartCall \/ PoolWaits \/ GroupEnds
  \/ PrepareAnswers \/ Prepared \/ StageRejects \/ Started \/ RaceSettles
  \/ Finalize \/ \E throws \in BOOLEAN : CommitFinal(throws) \/ CommitPost(throws)
  \/ CommitEnds \/ SkipCall \/ SkipEnds
  \/ Drained \/ RecoverCall \/ RecoverEnds

Dispatches ==
  \E c \in Calls : \/ AskBody(c) \/ BodyReturns(c)
                   \/ DispatchReturns(c) \/ DispatchRejects(c)

\* The step is over.
Terminated == pc = "closed" /\ UNCHANGED vars

Next == Scheduler \/ Dispatches \/ Abort \/ Terminated

Spec == Init /\ [][Next]_vars

\* Continuations run, and every dispatch settles: a body observes its signal
\* and its wrappers stop retrying.
FairSpec ==
  /\ Spec
  /\ WF_vars(Scheduler)
  /\ \A c \in Calls : WF_vars(AskBody(c) \/ BodyReturns(c) \/ DispatchReturns(c)
                                \/ DispatchRejects(c))
-----------------------------------------------------------------------------
(* Properties.                                                             *)

\* The scheduler implements the promise of AnsweredStep: results in model
\* order, one per call, none missing when the step closes, through aborts,
\* barriers, failures and recovery.
Transcript == INSTANCE AnsweredStep WITH open <- pc # "closed"
ImplementsAnsweredStep == Transcript!Spec

\* A call whose answer says that it never ran has not run: the model may
\* repeat it without repeating its effects.
HonestAnswers ==
  \A c \in disowned : ~invoked[c]

\* Once the scheduler has failed, no call is started and none that was being
\* prepared is dispatched.  Once the signal has fired, no call is started, none
\* is cleared for dispatch and no body begins: a call that was cleared before
\* and is dispatched after it never reaches its tool.
NoLateWork ==
  [][/\ pc' = "prepare" /\ pc # "prepare" => ~signal /\ ~failed
     /\ pc' = "toDispatch" /\ pc # "toDispatch" => ~signal
     /\ ~(inFlight' \subseteq inFlight) => ~failed
     /\ \A c \in Calls : stage'[c] = "body" /\ stage[c] # "body" => ~signal]_vars

\* At most maxParallelToolCalls dispatches run at once, and an exclusive call
\* never overlaps another one, also when the registry turned it exclusive while
\* a pool was running.
ExclusiveAlone == mode = "exclusive" => inFlight \subseteq {first}
PoolSound ==
  /\ Cardinality({c \in Calls : stage[c] \in {"wrapper", "body"}}) <= MaxParallel
  /\ ExclusiveAlone

\* The step is closed only when no tool of it is still running, and by events
\* the log's rules accept: no call unanswered, none answered twice.
ClosedIsQuiet ==
  pc = "closed" => ~refused /\ \A c \in Calls : stage[c] \in {"none", "settled"}

\* The step closes.
StepCloses == <>(pc = "closed")
=============================================================================
