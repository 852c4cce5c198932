-------------------------- MODULE AgentLoop_proofs --------------------------
(***************************************************************************)
(* Proofs about AgentLoop, for any set of messages and any bounds.         *)
(*                                                                         *)
(* The argument is one inductive invariant, proved part by part:           *)
(*   TypeOK      the types;                                                *)
(*   PhaseInv    a driver has a position exactly while the phase is        *)
(*               running;                                                  *)
(*   LogInv      the trace of the log agrees with the driver's position:   *)
(*               which turn and step are open, and the next numbers;       *)
(*   LatchInv    a latched wake stands behind a dead activity, and a send  *)
(*               that classified itself as "after an abort" still finds    *)
(*               that activity when its listeners return;                  *)
(*   SilenceInv  after a cancel nothing that could open a turn is left;    *)
(*   CeilingInv  a turn that met its output ceiling keeps that outcome.    *)
(* Beside it, PlaceInv: each message that was sent is in one place only,   *)
(* and the claimed batch counts as one while it is still to be logged.     *)
(***************************************************************************)
EXTENDS AgentLoop, TLAPS, SequenceTheorems, FiniteSetTheorems

Between == {"off", "turnTop", "again", "closed", "leaving"}
InTurn  == {"opened", "preStep", "rejected", "emptied", "entered", "stepClosed",
            "stopping", "failing"}
InStep  == {"request", "configured", "launch", "streaming", "retryAsk", "tools"}

PhaseInv == phase = "running" <=> pc # "off"

LogInv ==
  /\ ~refused
  /\ pc \in {"turnTop", "again", "opened"} => step = 0
  /\ pc \in Between =>
       /\ trace.openTurn = Closed /\ trace.openStep = Closed
       /\ trace.nextTurn = turn + 1
  /\ pc \in InTurn =>
       /\ turn # 0 /\ trace.openTurn = turn /\ trace.openStep = Closed
       /\ trace.nextTurn = turn /\ trace.nextStep = step + 1
  /\ pc \in InStep =>
       /\ turn # 0 /\ step # 0 /\ trace.openTurn = turn /\ trace.openStep = step
       /\ trace.nextTurn = turn /\ trace.nextStep = step

LatchInv ==
  /\ LatchOnlyBehindDeadActivity
  /\ frame.kind = "send" /\ frame.waking => phase # "idle" /\ Aborted /\ pc \notin Sync

SilenceInv ==
  /\ frame.kind = "cancel" => frame.cause \in Causes
  /\ quiet => /\ ~wakeRequested
              /\ frame.kind # "send"
              /\ frame.kind = "retire" => ~frame.waking
              /\ phase = "running" /\ pc \notin {"closed", "leaving"} => Aborted
              /\ pc = "closed" /\ exit = "drain" => ~HasPending
              /\ pc = "emptied" => turnEnds = "none"

CeilingInv ==
  pc \in InStep \cup (InTurn \ {"failing"}) =>
    /\ turnEnds \in {"none", "completed", "max-tokens"}
    /\ ceiling => turnEnds = "max-tokens"

IInv == TypeOK /\ PhaseInv /\ LogInv /\ LatchInv /\ SilenceInv /\ CeilingInv

USE DEF phaseVars, driverVars, logVars, fateVars, promiseVars, boundVars,
        callerVars, Closed

-----------------------------------------------------------------------------
(* What the helpers of the actions do to the types and the log.            *)

LEMMA RecordTurnStart ==
  ASSUME NEW t, Record(TurnStart(t))
  PROVE  /\ trace' = [trace EXCEPT !.openTurn = t, !.nextStep = 1]
         /\ refused' = (refused \/ ~(trace.openTurn = Closed /\ t = trace.nextTurn))
BY DEF Record, Accepts, Advance, TurnStart

LEMMA RecordTurnEnd ==
  ASSUME NEW t, Record(TurnEnd(t))
  PROVE  /\ trace' = [trace EXCEPT !.openTurn = Closed, !.nextTurn = @ + 1]
         /\ refused' = (refused \/ ~(trace.openTurn = t /\ trace.openStep = Closed))
BY DEF Record, Accepts, Advance, TurnEnd

LEMMA RecordStepStart ==
  ASSUME NEW t, NEW s, Record(StepStart(t, s))
  PROVE  /\ trace' = [trace EXCEPT !.openStep = s]
         /\ refused' = (refused \/ ~(/\ trace.openTurn = t
                                     /\ trace.openStep = Closed
                                     /\ s = trace.nextStep))
BY DEF Record, Accepts, Advance, StepStart

LEMMA RecordStepEnd ==
  ASSUME NEW t, NEW s, Record(StepEnd(t, s))
  PROVE  /\ trace' = [trace EXCEPT !.openStep = Closed, !.nextStep = @ + 1,
                                   !.pending = {}]
         /\ refused' = (refused \/ ~(trace.openTurn = t /\ trace.openStep = s))
BY DEF Record, Accepts, Advance, StepEnd, InOpenStep

LEMMA WakeTyped ==
  ASSUME TypeOK, NEW w \in BOOLEAN, WakeDriver(w)
  PROVE  /\ PhaseOK' /\ pc' \in Positions
         /\ owed' \in BOOLEAN
<1>1. Latches(w) \in BOOLEAN
  BY DEF Latches
<1>2. wakeRequested' \in BOOLEAN
  BY <1>1 DEF WakeDriver, StartDriver, TypeOK, PhaseOK
<1>3. phase' \in {"idle", "maintenance", "running"} /\ turn' \in Nat /\ step' \in Nat
  BY DEF WakeDriver, StartDriver, TypeOK, PhaseOK
<1>4. cause' \in Causes \cup {"none"}
  BY DEF WakeDriver, StartDriver, TypeOK, PhaseOK
<1>5. pc' \in Positions
  BY DEF WakeDriver, StartDriver, TypeOK, DriverOK, Positions
<1>6. owed' \in BOOLEAN
  <2> DEFINE some == \E t \in Targets : inbox'[t] # <<>>
  <2>1. some \in BOOLEAN
    OBVIOUS
  <2> HIDE DEF some
  <2>2. owed' = owed \/ owed' = (owed \/ (Latches(w) /\ some))
    BY DEF WakeDriver, StartDriver, some
  <2>3. owed' \in BOOLEAN
    BY <1>1, <2>1, <2>2 DEF TypeOK, HistoryOK
  <2> QED BY <2>3 DEF WakeDriver, StartDriver, TypeOK, HistoryOK
<1> QED BY <1>2, <1>3, <1>4, <1>5, <1>6 DEF PhaseOK

LEMMA ClaimTyped ==
  ASSUME TypeOK, NEW t \in Targets, Propose(t)
  PROVE  InboxOK'
<1>1. inbox["next-step"] \in Seq(Messages) /\ inbox["next-turn"] \in Seq(Messages)
  BY DEF TypeOK, InboxOK, Targets
<1> DEFINE taken == IF t = "next-turn" /\ inbox["next-turn"] # <<>>
                    THEN <<Head(inbox["next-turn"])>> ELSE <<>>
<1>2. taken \in Seq(Messages)
  BY <1>1, HeadTailProperties
<1>3. taken # <<>> => Tail(inbox["next-turn"]) \in Seq(Messages)
  BY <1>1, HeadTailProperties
<1>4. batch' \in Seq(Messages)
  BY <1>1, <1>2, ConcatProperties DEF Propose
<1> DEFINE prompts == IF taken = <<>> THEN inbox["next-turn"] ELSE Tail(inbox["next-turn"])
<1>5. prompts \in Seq(Messages) /\ <<>> \in Seq(Messages)
  BY <1>1, <1>3
<1>6. inbox' = [inbox EXCEPT !["next-step"] = <<>>, !["next-turn"] = prompts]
  BY DEF Propose, TypeOK, InboxOK, Targets
<1> HIDE DEF taken, prompts
<1>7. inbox' \in [Targets -> Seq(Messages)]
  BY <1>5, <1>6 DEF TypeOK, InboxOK, Targets
<1> QED BY <1>4, <1>7 DEF InboxOK

LEMMA RemoveTyped ==
  ASSUME NEW s \in Seq(Messages), NEW i \in DOMAIN s
  PROVE  RemoveAt(s, i) \in Seq(Messages) /\ s[i] \in Messages
<1>1. i \in 1 .. Len(s) /\ Len(s) \in Nat /\ \A j \in 1 .. Len(s) : s[j] \in Messages
  BY LenProperties
<1>2. SubSeq(s, 1, i - 1) \in Seq(Messages)
  BY <1>1, SubSeqProperties
<1>3. SubSeq(s, i + 1, Len(s)) \in Seq(Messages)
  BY <1>1, SubSeqProperties
<1> QED BY <1>1, <1>2, <1>3, ConcatProperties DEF RemoveAt

LEMMA TraceTyped ==
  ASSUME trace \in Traces, NEW t \in Nat, NEW s \in Nat
  PROVE  /\ [trace EXCEPT !.openTurn = t, !.nextStep = 1] \in Traces
         /\ [trace EXCEPT !.openTurn = Closed, !.nextTurn = @ + 1] \in Traces
         /\ [trace EXCEPT !.openStep = s] \in Traces
         /\ [trace EXCEPT !.openStep = Closed, !.nextStep = @ + 1, !.pending = {}]
              \in Traces
<1> DEFINE nt == trace.nextTurn + 1
           ns == trace.nextStep + 1
<1>0. nt \in Nat /\ ns \in Nat /\ Closed \in Nat
  BY DEF Traces, Closed
<1> HIDE DEF nt, ns, Closed
<1>1. [trace EXCEPT !.openTurn = t, !.nextStep = 1] \in Traces
  BY DEF Traces
<1>2. [trace EXCEPT !.openTurn = Closed, !.nextTurn = nt] \in Traces
  BY <1>0 DEF Traces
<1>3. [trace EXCEPT !.openStep = s] \in Traces
  BY DEF Traces
<1>4. [trace EXCEPT !.openStep = Closed, !.nextStep = ns, !.pending = {}] \in Traces
  BY <1>0 DEF Traces
<1> QED BY <1>1, <1>2, <1>3, <1>4 DEF nt, ns

LEMMA PendingTyped == ASSUME InboxOK PROVE Pending \subseteq Messages
BY DEF InboxOK, Pending, ToSet, Targets

LEMMA CloseTyped ==
  ASSUME TypeOK, NEW r, NEW how, CloseTurn(r, how) PROVE LogOK'
BY RecordTurnEnd, TraceTyped DEF CloseTurn, TypeOK, PhaseOK, LogOK

LEMMA RaiseTyped ==
  ASSUME TypeOK, Raise PROVE LogOK'
BY CloseTyped DEF Raise, TypeOK, LogOK

\* A claim and a throw leave the driver at a position of its own.
LEMMA ProposeMoves ==
  ASSUME NEW t, Propose(t) PROVE pc' = "preStep" /\ firstAttempt' = TRUE
BY DEF Propose

LEMMA RaiseMoves ==
  ASSUME DriverOK, Raise
  PROVE  pc' \in Positions /\ turnEnds' \in TurnEnds
         /\ exit' \in {"none", "throw", "return", "drain"}
BY DEF Raise, CloseTurn, DriverOK, Positions, TurnEnds

LEMMA CloseMoves ==
  ASSUME NEW r, NEW how, CloseTurn(r, how)
  PROVE  pc' = "closed" /\ turnEnds' = r /\ exit' = how
BY DEF CloseTurn

LEMMA StepEndTyped ==
  ASSUME TypeOK, Record(StepEnd(turn, step)) PROVE LogOK'
BY RecordStepEnd, TraceTyped DEF TypeOK, PhaseOK, LogOK

-----------------------------------------------------------------------------
(* Types.                                                                  *)

LEMMA PhaseTyped ==
  ASSUME TypeOK, Next PROVE PhaseOK'
<1>1. CASE TurnNotOpened \/ OpenTurn
  BY <1>1 DEF TurnNotOpened, OpenTurn, TypeOK, PhaseOK, DriverOK, Frames
<1>2. CASE FirstClaim \/ PreStepFails
  BY <1>2 DEF FirstClaim, PreStepFails, Raise, CloseTurn, Propose,
     DropBatch, TypeOK, PhaseOK, DriverOK, Frames
<1>3. CASE PreStepRejects \/ PreStepEntersEmpty \/ (\E kept \in BOOLEAN :
             PreStepEnters(kept)) \/ CloseRejected \/ CloseEmptied \/ OpenStep
             \/ StepFails
  BY <1>3 DEF PreStepRejects, PreStepEntersEmpty, PreStepEnters, CloseRejected,
     CloseEmptied, OpenStep, StepFails,
     DropBatch, CloseTurn, StepThrows, TypeOK, PhaseOK, DriverOK, Frames
<1>4. CASE Configured \/ Admit \/ Launch \/ AttemptFails \/ Retry \/ GiveUp \/ (\E end \in
             {"completed", "max-tokens"} : ModelFinishes(end)) \/
             ModelCallsTools \/ (\E end \in {"completed", "none"} :
             ToolsReturn(end))
  BY <1>4 DEF Configured, Admit, Launch, AttemptFails, Retry, GiveUp, ModelFinishes,
     ModelCallsTools, ToolsReturn, StepFact, TurnFact, InOpenStep,
     StepThrows, DropBatch, StepReturns, Assistant, TypeOK, PhaseOK,
     DriverOK, Frames
<1>5. CASE StepBoundary \/ Stopped \/ StoppingFails \/ CloseFailedTurn
  BY <1>5 DEF StepBoundary, Stopped, StoppingFails, CloseFailedTurn, Raise,
     CloseTurn, Propose, TypeOK, PhaseOK, DriverOK, Frames
<1>6. CASE TurnContinues
  BY <1>6 DEF TurnContinues, TypeOK, PhaseOK, DriverOK, Frames
<1>7. CASE TurnLeaves
  BY <1>7 DEF TurnLeaves, TypeOK, PhaseOK, DriverOK, Frames
<1>8. CASE Retire
  BY <1>8 DEF Retire, TypeOK, PhaseOK, DriverOK, Frames
<1>9. CASE SendEnd
  <2>1. frame.waking \in BOOLEAN
    BY DEF TypeOK, DriverOK, Frames
  <2> QED BY <1>9, <2>1, WakeTyped DEF SendEnd
<1>10. CASE CancelEnd
  BY <1>10 DEF CancelEnd, AbortActivity, Silences, TypeOK, PhaseOK, DriverOK, Frames
<1>11. CASE RetireEnd
  <2>1. CASE frame.waking /\ HasPending
    BY <1>11, <2>1, WakeTyped DEF RetireEnd
  <2>2. CASE ~(frame.waking /\ HasPending)
    BY <1>11, <2>2 DEF RetireEnd, TypeOK, PhaseOK
  <2> QED BY <2>1, <2>2
<1>12. CASE MaintenanceEnd
  <2>1. CASE StartDriver
    BY <2>1 DEF StartDriver, TypeOK, PhaseOK
  <2>2. CASE ~StartDriver
    BY <1>12, <2>2 DEF MaintenanceEnd, TypeOK, PhaseOK
  <2> QED BY <2>1, <2>2
<1>13. ASSUME NEW m \in Messages, NEW t \in Targets, SendBegin(m, t)
        PROVE  PhaseOK'
  BY <1>13 DEF SendBegin, Enqueue, WakingAfterAbort, TypeOK, PhaseOK,
     DriverOK, Frames
<1>14. ASSUME NEW m \in Messages, NEW t \in Targets, SendReentrant(m, t)
        PROVE  PhaseOK'
  <2>1. WakingAfterAbort(TRUE) \in BOOLEAN
    BY DEF WakingAfterAbort, Aborted
  <2> QED BY <1>14, <2>1, WakeTyped DEF SendReentrant
<1>15. ASSUME NEW m \in Messages, Inject(m)
        PROVE  PhaseOK'
  BY <1>15 DEF Inject, Enqueue, WakingAfterAbort, TypeOK, PhaseOK, DriverOK,
     Frames
<1>16. CASE (\E m \in Messages : ReplacePending(m)) \/ RemovePending
  BY <1>16 DEF ReplacePending, RemovePending, TypeOK, PhaseOK, DriverOK,
     Frames
<1>17. CASE (\E c \in Causes, keep \in BOOLEAN : CancelDirect(c, keep)) \/ (\E c \in
             Causes : CancelBegin(c)) \/ (\E c \in Causes :
             CancelReentrant(c)) \/ StartMaintenance
  BY <1>17 DEF CancelDirect, CancelBegin, CancelReentrant, 
     StartMaintenance, AbortActivity, Silences, ClearInbox, TypeOK, PhaseOK, DriverOK,
     Frames
<1> QED BY <1>1, <1>2, <1>3, <1>4, <1>5, <1>6, <1>7, <1>8, <1>9, <1>10,
          <1>11, <1>12, <1>13, <1>14, <1>15, <1>16, <1>17 DEF Next, Driver,
          TurnSteps, RequestSteps, BoundarySteps, Unwind, Callers

LEMMA InboxTyped ==
  ASSUME TypeOK, Next PROVE InboxOK'
<1>1. CASE TurnNotOpened \/ OpenTurn
  BY <1>1 DEF TurnNotOpened, OpenTurn, TypeOK, InboxOK, Targets
<1>2. CASE FirstClaim
  <2>1. CASE Propose("next-turn")
    BY <2>1, ClaimTyped DEF Targets
  <2>2. CASE UNCHANGED <<inbox, batch>>
    BY <2>2 DEF TypeOK, InboxOK
  <2> QED BY <1>2, <2>1, <2>2 DEF FirstClaim
<1>3. CASE PreStepFails
  BY <1>3 DEF PreStepFails, DropBatch, TypeOK, InboxOK, Targets
<1>4. CASE PreStepRejects
  BY <1>4 DEF PreStepRejects, DropBatch, TypeOK, InboxOK, Targets
<1>5. CASE PreStepEntersEmpty
  BY <1>5 DEF PreStepEntersEmpty, DropBatch, TypeOK, InboxOK, Targets
<1>6. ASSUME NEW kept \in BOOLEAN, PreStepEnters(kept)
        PROVE  InboxOK'
  BY <1>6 DEF PreStepEnters, TypeOK, InboxOK, Targets
<1>7. CASE StepFails
  BY <1>7 DEF StepFails, StepThrows, DropBatch, TypeOK, InboxOK, Targets
<1>8. CASE Configured \/ Admit \/ Launch \/ AttemptFails \/ Retry
  BY <1>8 DEF Configured, Admit, Launch, AttemptFails, Retry, StepFact, TurnFact,
     InOpenStep, TypeOK, InboxOK, Targets
<1>9. CASE GiveUp
  BY <1>9 DEF GiveUp, StepThrows, DropBatch, TypeOK, InboxOK, Targets
<1>10. ASSUME NEW end \in {"completed", "max-tokens"}, ModelFinishes(end)
        PROVE  InboxOK'
  BY <1>10 DEF ModelFinishes, StepReturns, TypeOK, InboxOK, Targets
<1>11. CASE ModelCallsTools
  BY <1>11 DEF ModelCallsTools, Assistant, InOpenStep, TypeOK, InboxOK,
     Targets
<1>12. ASSUME NEW end \in {"completed", "none"}, ToolsReturn(end)
        PROVE  InboxOK'
  BY <1>12 DEF ToolsReturn, StepReturns, TypeOK, InboxOK, Targets
<1>13. CASE StepBoundary
  <2>1. CASE Propose("next-step")
    BY <2>1, ClaimTyped DEF Targets
  <2>2. CASE UNCHANGED <<inbox, batch>>
    BY <2>2 DEF TypeOK, InboxOK
  <2> QED BY <1>13, <2>1, <2>2 DEF StepBoundary
<1>14. CASE Stopped
  <2>1. CASE Propose("next-step")
    BY <2>1, ClaimTyped DEF Targets
  <2>2. CASE UNCHANGED <<inbox, batch>>
    BY <2>2 DEF TypeOK, InboxOK
  <2> QED BY <1>14, <2>1, <2>2 DEF Stopped
<1>15. CASE StoppingFails \/ CloseFailedTurn
  BY <1>15 DEF StoppingFails, CloseFailedTurn, TypeOK, InboxOK, Targets
<1>16. CASE TurnContinues \/ TurnLeaves \/ Retire \/ SendEnd
  BY <1>16 DEF TurnContinues, TurnLeaves, Retire, SendEnd, WakeDriver,
     StartDriver, TypeOK, InboxOK, Targets
<1>17. CASE CancelEnd \/ RetireEnd
  BY <1>17 DEF CancelEnd, RetireEnd, AbortActivity, Silences, WakeDriver, StartDriver,
     TypeOK, InboxOK, Targets
<1>18. CASE MaintenanceEnd
  BY <1>18 DEF MaintenanceEnd, StartDriver, TypeOK, InboxOK, Targets
<1>19. ASSUME NEW m \in Messages, NEW t \in Targets, SendBegin(m, t)
        PROVE  InboxOK'
  BY <1>19 DEF SendBegin, Enqueue, WakingAfterAbort, TypeOK, InboxOK,
     Targets
<1>20. ASSUME NEW m \in Messages, NEW t \in Targets, SendReentrant(m, t)
        PROVE  InboxOK'
  BY <1>20 DEF SendReentrant, Enqueue, WakingAfterAbort, WakeDriver,
     StartDriver, TypeOK, InboxOK, Targets
<1>21. ASSUME NEW m \in Messages, Inject(m)
        PROVE  InboxOK'
  BY <1>21 DEF Inject, Enqueue, WakingAfterAbort, TypeOK, InboxOK, Targets
<1>22. ASSUME NEW m \in Messages, ReplacePending(m)
        PROVE  InboxOK'
  BY <1>22 DEF ReplacePending, TypeOK, InboxOK, Targets
<1>23. CASE RemovePending
  <2>1. PICK t \in Targets : \E i \in DOMAIN inbox[t] :
           inbox' = [inbox EXCEPT ![t] = RemoveAt(@, i)]
    BY <1>23 DEF RemovePending
  <2>2. PICK i \in DOMAIN inbox[t] : inbox' = [inbox EXCEPT ![t] = RemoveAt(@, i)]
    BY <2>1
  <2>3. RemoveAt(inbox[t], i) \in Seq(Messages)
    BY <2>2, RemoveTyped DEF TypeOK, InboxOK
  <2> QED BY <1>23, <2>2, <2>3 DEF RemovePending, TypeOK, InboxOK
<1>24. ASSUME NEW c \in Causes, NEW keep \in BOOLEAN, CancelDirect(c, keep)
        PROVE  InboxOK'
  BY <1>24 DEF CancelDirect, AbortActivity, Silences, TypeOK, InboxOK, Targets
<1>25. ASSUME NEW c \in Causes, CancelBegin(c)
        PROVE  InboxOK'
  BY <1>25 DEF CancelBegin, ClearInbox, TypeOK, InboxOK, Targets
<1>26. ASSUME NEW c \in Causes, CancelReentrant(c)
        PROVE  InboxOK'
  BY <1>26 DEF CancelReentrant, ClearInbox, AbortActivity, Silences, TypeOK, InboxOK,
     Targets
<1>27. CASE StartMaintenance
  BY <1>27 DEF StartMaintenance, TypeOK, InboxOK, Targets
<1>28. CASE CloseRejected \/ CloseEmptied \/ OpenStep
  BY <1>28 DEF CloseRejected, CloseEmptied, OpenStep, TypeOK, InboxOK, Targets
<1> QED BY <1>1, <1>2, <1>3, <1>4, <1>5, <1>6, <1>7, <1>8, <1>9, <1>10,
          <1>11, <1>12, <1>13, <1>14, <1>15, <1>16, <1>17, <1>18, <1>19,
          <1>20, <1>21, <1>22, <1>23, <1>24, <1>25, <1>26, <1>27, <1>28 DEF
          Next,
     Driver, TurnSteps, RequestSteps, BoundarySteps, Unwind,
          Callers

LEMMA DriverTyped ==
  ASSUME TypeOK, Next PROVE DriverOK'
<1>1. CASE TurnNotOpened \/ OpenTurn \/ FirstClaim \/ PreStepFails \/ PreStepRejects \/
             PreStepEntersEmpty
  <2>1. CASE TurnNotOpened \/ OpenTurn
    BY <2>1 DEF TurnNotOpened, OpenTurn, TypeOK, PhaseOK, DriverOK, Positions,
       TurnEnds, Frames, NoFrame, Causes
  <2>2. CASE FirstClaim
    <3>1. CASE Aborted
      BY <2>2, <3>1, RaiseMoves DEF FirstClaim, TypeOK, DriverOK
    <3>2. CASE ~Aborted
      BY <2>2, <3>2, ProposeMoves DEF FirstClaim, TypeOK, DriverOK, Positions
    <3> QED BY <3>1, <3>2
  <2>3. CASE PreStepFails \/ PreStepRejects \/ PreStepEntersEmpty
    BY <2>3 DEF PreStepFails, PreStepRejects, PreStepEntersEmpty, Raise,
       CloseTurn, DropBatch, TypeOK, PhaseOK, DriverOK, Positions, TurnEnds,
       Frames, NoFrame, Causes
  <2> QED BY <1>1, <2>1, <2>2, <2>3
<1>2. ASSUME NEW kept \in BOOLEAN, PreStepEnters(kept)
        PROVE  DriverOK'
  BY <1>2 DEF PreStepEnters, TypeOK, PhaseOK, DriverOK, Positions, TurnEnds,
     Frames, NoFrame, Causes
<1>3. CASE StepFails
  BY <1>3 DEF StepFails, StepThrows, DropBatch, TypeOK, PhaseOK, DriverOK,
     Positions, TurnEnds, Frames, NoFrame, Causes
<1>4. CASE Admit
  BY <1>4 DEF Admit, StepFact, TurnFact, InOpenStep, TypeOK, PhaseOK,
     DriverOK, Positions, TurnEnds, Frames, NoFrame, Causes
<1>5. CASE Configured \/ Launch \/ AttemptFails \/ Retry
  BY <1>5 DEF Configured, Launch, AttemptFails, Retry, StepFact, InOpenStep, TypeOK,
     PhaseOK, DriverOK, Positions, TurnEnds, Frames, NoFrame, Causes
<1>6. CASE GiveUp \/ (\E end \in {"completed", "max-tokens"} : ModelFinishes(end)) \/
             ModelCallsTools \/ (\E end \in {"completed", "none"} :
             ToolsReturn(end)) \/ StepBoundary \/ Stopped
  <2>1. CASE GiveUp \/ ModelCallsTools
    BY <2>1 DEF GiveUp, ModelCallsTools, StepThrows, DropBatch, Assistant,
       InOpenStep, TypeOK, PhaseOK, DriverOK, Positions, TurnEnds, Frames,
       NoFrame, Causes
  <2>2. ASSUME NEW end \in {"completed", "max-tokens"}, ModelFinishes(end)
        PROVE  DriverOK'
    BY <2>2 DEF ModelFinishes, StepReturns, TypeOK, PhaseOK, DriverOK,
       Positions, TurnEnds, Frames, NoFrame, Causes
  <2>3. ASSUME NEW end \in {"completed", "none"}, ToolsReturn(end)
        PROVE  DriverOK'
    BY <2>3 DEF ToolsReturn, StepReturns, TypeOK, PhaseOK, DriverOK,
       Positions, TurnEnds, Frames, NoFrame, Causes
  <2>4. CASE StepBoundary
    <3>1. CASE fault \/ Aborted
      BY <2>4, <3>1, RaiseMoves DEF StepBoundary, TypeOK, DriverOK
    <3>2. CASE ~(fault \/ Aborted) /\ turnEnds # "none" /\ inbox["next-step"] = <<>>
      BY <2>4, <3>2 DEF StepBoundary, TypeOK, DriverOK, Positions
    <3>3. CASE ~(fault \/ Aborted) /\ ~(turnEnds # "none" /\ inbox["next-step"] = <<>>)
      BY <2>4, <3>3, ProposeMoves DEF StepBoundary, TypeOK, DriverOK, Positions
    <3> QED BY <3>1, <3>2, <3>3
  <2>5. CASE Stopped
    <3>1. CASE inbox["next-step"] = <<>>
      BY <2>5, <3>1, CloseMoves DEF Stopped, TypeOK, DriverOK, Positions
    <3>2. CASE inbox["next-step"] # <<>>
      BY <2>5, <3>2, ProposeMoves DEF Stopped, TypeOK, DriverOK, Positions
    <3> QED BY <3>1, <3>2
  <2> QED BY <1>6, <2>1, <2>2, <2>3, <2>4, <2>5
<1>7. CASE StoppingFails \/ CloseFailedTurn \/ TurnContinues
  BY <1>7 DEF StoppingFails, CloseFailedTurn, TurnContinues, Raise,
     CloseTurn, TypeOK, PhaseOK, DriverOK, Positions, TurnEnds, Frames,
     NoFrame, Causes
<1>8. CASE TurnLeaves \/ Retire
  BY <1>8 DEF TurnLeaves, Retire, TypeOK, PhaseOK, DriverOK, Positions,
     TurnEnds, Frames, NoFrame, Causes
<1>9. CASE SendEnd
  BY <1>9 DEF SendEnd, WakeDriver, StartDriver, TypeOK, PhaseOK, DriverOK,
     Positions, TurnEnds, Frames, NoFrame, Causes
<1>10. CASE CancelEnd
  BY <1>10 DEF CancelEnd, AbortActivity, Silences, TypeOK, PhaseOK, DriverOK,
     Positions, TurnEnds, Frames, NoFrame, Causes
<1>11. CASE RetireEnd
  <2>1. pc' \in Positions
    <3>1. CASE frame.waking /\ HasPending
      BY <1>11, <3>1, WakeTyped DEF RetireEnd
    <3>2. CASE ~(frame.waking /\ HasPending)
      BY <1>11, <3>2 DEF RetireEnd, TypeOK, DriverOK
    <3> QED BY <3>1, <3>2
  <2> QED BY <1>11, <2>1 DEF RetireEnd, TypeOK, DriverOK, Frames, NoFrame
<1>12. CASE MaintenanceEnd
  BY <1>12 DEF MaintenanceEnd, StartDriver, TypeOK, PhaseOK, DriverOK,
     Positions, TurnEnds, Frames, NoFrame, Causes
<1>13. ASSUME NEW m \in Messages, NEW t \in Targets, SendBegin(m, t)
        PROVE  DriverOK'
  BY <1>13 DEF SendBegin, Enqueue, WakingAfterAbort, TypeOK, PhaseOK,
     DriverOK, Positions, TurnEnds, Frames, NoFrame, Causes
<1>14. ASSUME NEW m \in Messages, NEW t \in Targets, SendReentrant(m, t)
        PROVE  DriverOK'
  BY <1>14 DEF SendReentrant, Enqueue, WakingAfterAbort, WakeDriver,
     StartDriver, TypeOK, PhaseOK, DriverOK, Positions, TurnEnds, Frames,
     NoFrame, Causes
<1>15. ASSUME NEW m \in Messages, Inject(m)
        PROVE  DriverOK'
  BY <1>15 DEF Inject, Enqueue, WakingAfterAbort, TypeOK, PhaseOK, DriverOK,
     Positions, TurnEnds, Frames, NoFrame, Causes
<1>16. CASE (\E m \in Messages : ReplacePending(m)) \/ RemovePending \/ (\E c \in
             Causes, keep \in BOOLEAN : CancelDirect(c, keep))
  BY <1>16 DEF ReplacePending, RemovePending, CancelDirect, AbortActivity, Silences,
     TypeOK, PhaseOK, DriverOK, Positions, TurnEnds, Frames, NoFrame, Causes
<1>17. ASSUME NEW c \in Causes, CancelBegin(c)
        PROVE  DriverOK'
  BY <1>17 DEF CancelBegin, ClearInbox, TypeOK, PhaseOK, DriverOK,
     Positions, TurnEnds, Frames, NoFrame, Causes
<1>18. ASSUME NEW c \in Causes, CancelReentrant(c)
        PROVE  DriverOK'
  BY <1>18 DEF CancelReentrant, ClearInbox, AbortActivity, Silences, TypeOK, PhaseOK,
     DriverOK, Positions, TurnEnds, Frames, NoFrame, Causes
<1>19. CASE StartMaintenance
  BY <1>19 DEF StartMaintenance, TypeOK, PhaseOK, DriverOK, Positions,
     TurnEnds, Frames, NoFrame, Causes
<1>20. CASE CloseRejected \/ CloseEmptied \/ OpenStep
  BY <1>20, CloseMoves DEF CloseRejected, CloseEmptied, OpenStep, TypeOK, DriverOK,
     Positions, TurnEnds
<1> QED BY <1>1, <1>2, <1>3, <1>4, <1>5, <1>6, <1>7, <1>8, <1>9, <1>10,
          <1>11, <1>12, <1>13, <1>14, <1>15, <1>16, <1>17, <1>18, <1>19, <1>20
          DEF Next,
     Driver, TurnSteps, RequestSteps, BoundarySteps,
          Unwind, Callers

LEMMA LogTyped ==
  ASSUME TypeOK, Next PROVE LogOK'
<1>1. CASE TurnNotOpened
  BY <1>1 DEF TurnNotOpened, TypeOK, LogOK
<1>2. CASE OpenTurn
  <2>1. turn + 1 \in Nat /\ step \in Nat
    BY DEF TypeOK, PhaseOK
  <2>2. trace' \in Traces
    <3>1. trace' = [trace EXCEPT !.openTurn = turn + 1, !.nextStep = 1]
      BY <1>2, RecordTurnStart DEF OpenTurn
    <3> QED BY <2>1, <3>1, TraceTyped DEF TypeOK, LogOK
  <2> QED BY <1>2, <2>2, RecordTurnStart DEF OpenTurn, TypeOK, LogOK
<1>3. CASE FirstClaim
  BY <1>3, RaiseTyped DEF FirstClaim, TypeOK, LogOK
<1>4. CASE PreStepFails
  BY <1>4, RaiseTyped DEF PreStepFails
<1>5. CASE PreStepRejects \/ PreStepEntersEmpty \/ \E kept \in BOOLEAN : PreStepEnters(kept)
  BY <1>5 DEF PreStepRejects, PreStepEntersEmpty, PreStepEnters, TypeOK, LogOK
<1>6. CASE CloseRejected \/ CloseEmptied
  BY <1>6, CloseTyped DEF CloseRejected, CloseEmptied
<1>7. CASE OpenStep
  <2>1. turn \in Nat /\ step + 1 \in Nat
    BY DEF TypeOK, PhaseOK
  <2>2. trace' = [trace EXCEPT !.openStep = step + 1]
    BY <1>7, RecordStepStart DEF OpenStep
  <2>3. trace' \in Traces
    BY <2>1, <2>2, TraceTyped DEF TypeOK, LogOK
  <2> QED BY <1>7, <2>3, RecordStepStart DEF OpenStep, TypeOK, LogOK
<1>8. CASE StepFails
  BY <1>8, StepEndTyped DEF StepFails, StepThrows
<1>9. CASE Configured \/ Admit \/ Launch \/ AttemptFails \/ Retry \/ ModelCallsTools
  BY <1>9 DEF Configured, Admit, Launch, AttemptFails, Retry, ModelCallsTools, StepFact,
     TurnFact, InOpenStep, Assistant, TypeOK, LogOK
<1>10. CASE GiveUp
  BY <1>10, StepEndTyped DEF GiveUp, StepThrows
<1>11. ASSUME NEW end \in {"completed", "max-tokens"}, ModelFinishes(end)
        PROVE  LogOK'
  BY <1>11, StepEndTyped DEF ModelFinishes, StepReturns
<1>12. ASSUME NEW end \in {"completed", "none"}, ToolsReturn(end)
        PROVE  LogOK'
  BY <1>12, StepEndTyped DEF ToolsReturn, StepReturns
<1>13. CASE StepBoundary
  BY <1>13, RaiseTyped DEF StepBoundary, TypeOK, LogOK
<1>14. CASE Stopped
  BY <1>14, CloseTyped DEF Stopped, TypeOK, LogOK
<1>15. CASE StoppingFails
  BY <1>15, RaiseTyped DEF StoppingFails
<1>16. CASE CloseFailedTurn
  BY <1>16, CloseTyped DEF CloseFailedTurn
<1>17. CASE TurnContinues \/ TurnLeaves \/ Retire
  BY <1>17 DEF TurnContinues, TurnLeaves, Retire, TypeOK, LogOK
<1>18. CASE Unwind
  BY <1>18 DEF Unwind, SendEnd, CancelEnd, RetireEnd, MaintenanceEnd,
     WakeDriver, StartDriver, AbortActivity, Silences, TypeOK, LogOK
<1>19. CASE Callers
  BY <1>19 DEF Callers, SendBegin, SendReentrant, Inject, ReplacePending,
     RemovePending, CancelDirect, CancelBegin, CancelReentrant,
     StartMaintenance, Enqueue, WakingAfterAbort, WakeDriver,
     StartDriver, AbortActivity, Silences, ClearInbox, TypeOK, LogOK
<1> QED BY <1>1, <1>2, <1>3, <1>4, <1>5, <1>6, <1>7, <1>8, <1>9, <1>10,
          <1>11, <1>12, <1>13, <1>14, <1>15, <1>16, <1>17, <1>18, <1>19 DEF
          Next, Driver, TurnSteps, RequestSteps, BoundarySteps

LEMMA HistoryTyped ==
  ASSUME TypeOK, Next PROVE HistoryOK'
<1>1. CASE TurnNotOpened \/ OpenTurn \/ FirstClaim
  BY <1>1 DEF TurnNotOpened, OpenTurn, FirstClaim, Propose, TypeOK, InboxOK,
     HistoryOK, Pending, ToSet, Targets
<1>2. CASE PreStepFails \/ PreStepRejects \/ PreStepEntersEmpty
  BY <1>2 DEF PreStepFails, PreStepRejects, PreStepEntersEmpty, DropBatch,
     TypeOK, InboxOK, HistoryOK, Pending, ToSet, Targets
<1>3. CASE (\E kept \in BOOLEAN : PreStepEnters(kept)) \/ CloseRejected
             \/ CloseEmptied \/ OpenStep \/ StepFails
  BY <1>3 DEF PreStepEnters, CloseRejected, CloseEmptied, OpenStep, StepFails, StepThrows, DropBatch, TypeOK,
     InboxOK, HistoryOK, Pending, ToSet, Targets
<1>4. CASE Admit
  BY <1>4 DEF Admit, StepFact, TurnFact, InOpenStep, TypeOK, InboxOK,
     HistoryOK, Pending, ToSet, Targets
<1>5. CASE Configured \/ Launch \/ AttemptFails \/ Retry
  BY <1>5 DEF Configured, Launch, AttemptFails, Retry, StepFact, InOpenStep, TypeOK,
     InboxOK, HistoryOK, Pending, ToSet, Targets
<1>6. CASE GiveUp
  BY <1>6 DEF GiveUp, StepThrows, DropBatch, TypeOK, InboxOK, HistoryOK,
     Pending, ToSet, Targets
<1>7. ASSUME NEW end \in {"completed", "max-tokens"}, ModelFinishes(end)
        PROVE  HistoryOK'
  BY <1>7 DEF ModelFinishes, StepReturns, TypeOK, InboxOK, HistoryOK,
     Pending, ToSet, Targets
<1>8. CASE ModelCallsTools
  BY <1>8 DEF ModelCallsTools, Assistant, InOpenStep, TypeOK, InboxOK,
     HistoryOK, Pending, ToSet, Targets
<1>9. CASE (\E end \in {"completed", "none"} : ToolsReturn(end)) \/ StepBoundary \/
             Stopped
  BY <1>9 DEF ToolsReturn, StepBoundary, Stopped, StepReturns, Propose,
     TypeOK, InboxOK, HistoryOK, Pending, ToSet, Targets
<1>10. CASE StoppingFails \/ CloseFailedTurn \/ TurnContinues \/ TurnLeaves \/ Retire \/
             SendEnd
  BY <1>10 DEF StoppingFails, CloseFailedTurn, TurnContinues, TurnLeaves,
     Retire, SendEnd, WakeDriver, StartDriver, Latches, TypeOK, InboxOK,
     HistoryOK, Pending, ToSet, Targets
<1>11. CASE CancelEnd \/ RetireEnd \/ MaintenanceEnd
  BY <1>11 DEF CancelEnd, RetireEnd, MaintenanceEnd, AbortActivity, Silences,
     WakeDriver, StartDriver, Latches, TypeOK, InboxOK, HistoryOK, Pending,
     ToSet, Targets
<1>12. CASE (\E m \in Messages, t \in Targets : SendBegin(m, t)) \/ (\E m \in Messages,
             t \in Targets : SendReentrant(m, t)) \/ (\E m \in Messages :
             Inject(m))
  <2>1. ASSUME NEW m \in Messages, NEW t \in Targets, SendBegin(m, t)
        PROVE  HistoryOK'
    BY <2>1 DEF SendBegin, Enqueue, WakingAfterAbort, TypeOK, InboxOK, HistoryOK,
       Pending, ToSet, Targets
  <2>2. ASSUME NEW m \in Messages, NEW t \in Targets, SendReentrant(m, t)
        PROVE  HistoryOK'
    BY <2>2 DEF SendReentrant, Enqueue, WakingAfterAbort, WakeDriver, StartDriver,
       Latches, TypeOK, InboxOK, HistoryOK, Pending, ToSet, Targets
  <2>3. ASSUME NEW m \in Messages, Inject(m)
        PROVE  HistoryOK'
    BY <2>3 DEF Inject, Enqueue, WakingAfterAbort, TypeOK, InboxOK, HistoryOK,
       Pending, ToSet, Targets
  <2> QED BY <1>12, <2>1, <2>2, <2>3
<1>13. ASSUME NEW m \in Messages, ReplacePending(m)
        PROVE  HistoryOK'
  BY <1>13 DEF ReplacePending, TypeOK, InboxOK, HistoryOK, Pending, ToSet,
     Targets
<1>14. CASE RemovePending
  BY <1>14 DEF RemovePending, TypeOK, InboxOK, HistoryOK, Pending, ToSet,
     Targets
<1>15. ASSUME NEW c \in Causes, NEW keep \in BOOLEAN, CancelDirect(c, keep)
        PROVE  HistoryOK'
  BY <1>15 DEF CancelDirect, AbortActivity, Silences, TypeOK, InboxOK, HistoryOK,
     Pending, ToSet, Targets
<1>16. ASSUME NEW c \in Causes, CancelBegin(c)
        PROVE  HistoryOK'
  <2>1. spent' \subseteq Messages
    BY <1>16, PendingTyped DEF CancelBegin, ClearInbox, TypeOK, HistoryOK
  <2>2. cancels' \in Nat
    BY <1>16 DEF CancelBegin, TypeOK, HistoryOK
  <2> QED BY <1>16, <2>1, <2>2 DEF CancelBegin, TypeOK, HistoryOK
<1>17. ASSUME NEW c \in Causes, CancelReentrant(c)
        PROVE  HistoryOK'
  BY <1>17 DEF CancelReentrant, ClearInbox, AbortActivity, Silences, TypeOK, InboxOK,
     HistoryOK, Pending, ToSet, Targets
<1>18. CASE StartMaintenance
  <2>1. maintenances' \in Nat
    BY <1>18 DEF StartMaintenance, TypeOK, HistoryOK
  <2> QED BY <1>18, <2>1 DEF StartMaintenance, TypeOK, HistoryOK
<1> QED BY <1>1, <1>2, <1>3, <1>4, <1>5, <1>6, <1>7, <1>8, <1>9, <1>10,
          <1>11, <1>12, <1>13, <1>14, <1>15, <1>16, <1>17, <1>18 DEF
          Next, Driver, TurnSteps, RequestSteps, BoundarySteps, Unwind,
          Callers

LEMMA TypePreserved ==
  ASSUME TypeOK, [Next]_vars PROVE TypeOK'
<1>1. CASE Next
  BY <1>1, PhaseTyped, InboxTyped, DriverTyped, LogTyped, HistoryTyped DEF TypeOK
<1>2. CASE UNCHANGED vars
  BY <1>2 DEF vars, TypeOK, PhaseOK, InboxOK, DriverOK, LogOK, HistoryOK
<1> QED BY <1>1, <1>2

-----------------------------------------------------------------------------
(* The parts of the invariant.                                             *)

LEMMA PhaseInvPreserved ==
  ASSUME IInv, Next PROVE PhaseInv'
<1>1. CASE TurnSteps
  BY <1>1 DEF TurnSteps, TurnNotOpened, OpenTurn, FirstClaim, PreStepFails,
     PreStepRejects, PreStepEntersEmpty, PreStepEnters, CloseRejected,
     CloseEmptied, OpenStep, Raise, CloseTurn,
     Propose, DropBatch, IInv, PhaseInv, Async, Sync, Appending, Notifying,
     TypeOK, PhaseOK
<1>2. CASE RequestSteps
  BY <1>2 DEF RequestSteps, StepFails, Configured, Admit, Launch, AttemptFails, Retry,
     GiveUp, ModelFinishes, ModelCallsTools, ToolsReturn, StepThrows,
     DropBatch, Accepts, StepFact, TurnFact, InOpenStep, StepReturns,
     Assistant, IInv, PhaseInv, Async, Sync, Appending, Notifying, TypeOK,
     PhaseOK
<1>3. CASE BoundarySteps
  BY <1>3 DEF BoundarySteps, StepBoundary, Stopped, StoppingFails,
     CloseFailedTurn, TurnContinues, TurnLeaves, Retire, Raise, CloseTurn,
     Propose, IInv, PhaseInv, Async, Sync, Appending, Notifying, TypeOK,
     PhaseOK
<1>4. CASE Unwind
  BY <1>4 DEF Unwind, SendEnd, CancelEnd, RetireEnd, MaintenanceEnd,
     WakeDriver, StartDriver, Latches, AbortActivity, Silences, IInv, PhaseInv, Async,
     Sync, Appending, Notifying, TypeOK, PhaseOK
<1>5. CASE Callers
  <2>1. ASSUME NEW m \in Messages, NEW t \in Targets, SendBegin(m, t)
        PROVE  PhaseInv'
    BY <2>1 DEF SendBegin, Enqueue, IInv, PhaseInv, Async, Sync, Appending,
       Notifying, TypeOK, PhaseOK, WakingAfterAbort
  <2>2. ASSUME NEW m \in Messages, NEW t \in Targets, SendReentrant(m, t)
        PROVE  PhaseInv'
    BY <2>2 DEF SendReentrant, Enqueue, WakeDriver, StartDriver, Latches,
       IInv, PhaseInv, Async, Sync, Appending, Notifying, TypeOK, PhaseOK,
       WakingAfterAbort
  <2>3. ASSUME NEW m \in Messages, Inject(m)
        PROVE  PhaseInv'
    BY <2>3 DEF Inject, Enqueue, IInv, PhaseInv, Async, Sync, Appending,
       Notifying, TypeOK, PhaseOK, WakingAfterAbort
  <2>4. ASSUME NEW m \in Messages, ReplacePending(m)
        PROVE  PhaseInv'
    BY <2>4 DEF ReplacePending, IInv, PhaseInv, Async, Sync, Appending,
       Notifying, TypeOK, PhaseOK, WakingAfterAbort
  <2>5. CASE RemovePending
    BY <2>5 DEF RemovePending, IInv, PhaseInv, Async, Sync, Appending,
       Notifying, TypeOK, PhaseOK, WakingAfterAbort
  <2>6. ASSUME NEW c \in Causes, NEW keep \in BOOLEAN, CancelDirect(c, keep)
        PROVE  PhaseInv'
    BY <2>6 DEF CancelDirect, AbortActivity, Silences, IInv, PhaseInv, Async, Sync,
       Appending, Notifying, TypeOK, PhaseOK, WakingAfterAbort
  <2>7. ASSUME NEW c \in Causes, CancelBegin(c)
        PROVE  PhaseInv'
    BY <2>7 DEF CancelBegin, ClearInbox, IInv, PhaseInv, Async, Sync,
       Appending, Notifying, TypeOK, PhaseOK, WakingAfterAbort
  <2>8. ASSUME NEW c \in Causes, CancelReentrant(c)
        PROVE  PhaseInv'
    BY <2>8 DEF CancelReentrant, ClearInbox, AbortActivity, Silences, IInv, PhaseInv,
       Async, Sync, Appending, Notifying, TypeOK, PhaseOK, WakingAfterAbort
  <2>9. CASE StartMaintenance
    BY <2>9 DEF StartMaintenance, IInv, PhaseInv, Async, Sync,
       Appending, Notifying, TypeOK, PhaseOK, WakingAfterAbort
  <2> QED BY <1>5, <2>1, <2>2, <2>3, <2>4, <2>5, <2>6, <2>7, <2>8, <2>9 DEF Callers
<1> QED BY <1>1, <1>2, <1>3, <1>4, <1>5 DEF Next, Driver

LEMMA LogInvPreserved ==
  ASSUME IInv, Next PROVE LogInv'
<1>1. CASE TurnNotOpened \/ Configured \/ Admit \/ Launch \/ AttemptFails \/ Retry \/ ModelCallsTools
  BY <1>1 DEF TurnNotOpened, Configured, Admit, Launch, AttemptFails, Retry,
     ModelCallsTools, Accepts, StepFact, TurnFact, InOpenStep, Assistant,
     IInv, PhaseInv, LogInv, TypeOK, PhaseOK, LogOK, DriverOK, Traces,
     Positions, Between, InTurn, InStep, Async, Sync, Appending, Notifying
<1>2. CASE OpenTurn
  <2>1. trace' = [trace EXCEPT !.openTurn = turn + 1, !.nextStep = 1] /\ ~refused'
    BY <1>2, RecordTurnStart DEF OpenTurn, IInv, LogInv, Between, TypeOK, PhaseOK, LogOK, Traces
  <2> QED BY <1>2, <2>1 DEF OpenTurn, IInv, LogInv, Between, InTurn, InStep, TypeOK, PhaseOK, LogOK, Traces
<1>3. CASE FirstClaim
  BY <1>3, RecordTurnEnd DEF FirstClaim, Raise, CloseTurn, Propose, IInv,
     PhaseInv, LogInv, TypeOK, PhaseOK, LogOK, DriverOK, Traces, Positions,
     Between, InTurn, InStep, Async, Sync, Appending, Notifying
<1>4. CASE PreStepFails
  BY <1>4, RecordTurnEnd DEF PreStepFails, DropBatch, Raise, CloseTurn,
     IInv, PhaseInv, LogInv, TypeOK, PhaseOK, LogOK, DriverOK, Traces,
     Positions, Between, InTurn, InStep, Async, Sync, Appending, Notifying
<1>5. CASE PreStepRejects \/ PreStepEntersEmpty \/ \E kept \in BOOLEAN : PreStepEnters(kept)
  BY <1>5 DEF PreStepRejects, PreStepEntersEmpty, PreStepEnters, DropBatch, IInv,
     PhaseInv, LogInv, TypeOK, PhaseOK, LogOK, DriverOK, Traces, Positions,
     Between, InTurn, InStep, Async, Sync, Appending, Notifying
<1>6. CASE CloseRejected \/ CloseEmptied
  <2>1. /\ trace' = [trace EXCEPT !.openTurn = Closed, !.nextTurn = @ + 1]
        /\ refused' = (refused \/ ~(trace.openTurn = turn /\ trace.openStep = Closed))
        /\ pc' = "closed" /\ turn' = turn
    BY <1>6, RecordTurnEnd DEF CloseRejected, CloseEmptied, CloseTurn
  <2>2. turn # 0 /\ trace.openTurn = turn /\ trace.openStep = Closed /\ ~refused
        /\ trace.nextTurn = turn
    BY <1>6 DEF CloseRejected, CloseEmptied, IInv, LogInv, InTurn
  <2> QED BY <2>1, <2>2 DEF LogInv, IInv, TypeOK, PhaseOK, LogOK, Traces, Between,
                            InTurn, InStep
<1>7. CASE OpenStep
  BY <1>7, RecordStepStart DEF OpenStep, IInv, PhaseInv, LogInv,
     TypeOK, PhaseOK, LogOK, DriverOK, Traces, Positions, Between, InTurn,
     InStep, Async, Sync, Appending, Notifying
<1>8. CASE StepFails
  BY <1>8, RecordStepEnd DEF StepFails, StepThrows, DropBatch, IInv,
     PhaseInv, LogInv, TypeOK, PhaseOK, LogOK, DriverOK, Traces, Positions,
     Between, InTurn, InStep, Async, Sync, Appending, Notifying
<1>9. CASE GiveUp
  BY <1>9, RecordStepEnd DEF GiveUp, StepThrows, DropBatch, IInv, PhaseInv,
     LogInv, TypeOK, PhaseOK, LogOK, DriverOK, Traces, Positions, Between,
     InTurn, InStep, Async, Sync, Appending, Notifying
<1>10. ASSUME NEW end \in {"completed", "max-tokens"}, ModelFinishes(end)
        PROVE  LogInv'
  BY <1>10, RecordStepEnd DEF ModelFinishes, StepReturns, IInv, PhaseInv,
     LogInv, TypeOK, PhaseOK, LogOK, DriverOK, Traces, Positions, Between,
     InTurn, InStep, Async, Sync, Appending, Notifying
<1>11. ASSUME NEW end \in {"completed", "none"}, ToolsReturn(end)
        PROVE  LogInv'
  BY <1>11, RecordStepEnd DEF ToolsReturn, StepReturns, IInv, PhaseInv,
     LogInv, TypeOK, PhaseOK, LogOK, DriverOK, Traces, Positions, Between,
     InTurn, InStep, Async, Sync, Appending, Notifying
<1>12. CASE StepBoundary
  BY <1>12, RecordTurnEnd DEF StepBoundary, Raise, CloseTurn, Propose, IInv,
     PhaseInv, LogInv, TypeOK, PhaseOK, LogOK, DriverOK, Traces, Positions,
     Between, InTurn, InStep, Async, Sync, Appending, Notifying
<1>13. CASE Stopped
  BY <1>13, RecordTurnEnd DEF Stopped, CloseTurn, Propose, IInv, PhaseInv,
     LogInv, TypeOK, PhaseOK, LogOK, DriverOK, Traces, Positions, Between,
     InTurn, InStep, Async, Sync, Appending, Notifying
<1>14. CASE StoppingFails
  BY <1>14, RecordTurnEnd DEF StoppingFails, Raise, CloseTurn, IInv,
     PhaseInv, LogInv, TypeOK, PhaseOK, LogOK, DriverOK, Traces, Positions,
     Between, InTurn, InStep, Async, Sync, Appending, Notifying
<1>15. CASE CloseFailedTurn
  BY <1>15, RecordTurnEnd DEF CloseFailedTurn, CloseTurn, IInv, PhaseInv,
     LogInv, TypeOK, PhaseOK, LogOK, DriverOK, Traces, Positions, Between,
     InTurn, InStep, Async, Sync, Appending, Notifying
<1>16. CASE TurnContinues \/ TurnLeaves \/ Retire
  BY <1>16 DEF TurnContinues, TurnLeaves, Retire, IInv, PhaseInv, LogInv,
     TypeOK, PhaseOK, LogOK, DriverOK, Traces, Positions, Between, InTurn,
     InStep, Async, Sync, Appending, Notifying
<1>17. CASE SendEnd \/ CancelEnd
  BY <1>17 DEF SendEnd, CancelEnd, WakeDriver, StartDriver, AbortActivity, Silences,
     IInv, PhaseInv, LogInv, TypeOK, PhaseOK, LogOK, DriverOK, Traces,
     Positions, Between, InTurn, InStep, Async, Sync, Appending, Notifying
<1>18. CASE RetireEnd
  BY <1>18 DEF RetireEnd, WakeDriver, StartDriver, IInv, PhaseInv, LogInv,
     TypeOK, PhaseOK, LogOK, DriverOK, Traces, Positions, Between, InTurn,
     InStep, Async, Sync, Appending, Notifying
<1>19. CASE MaintenanceEnd \/ (\E m \in Messages, t \in Targets : SendBegin(m, t)) \/
             (\E m \in Messages, t \in Targets : SendReentrant(m, t)) \/ (\E
             m \in Messages : Inject(m)) \/ (\E m \in Messages :
             ReplacePending(m)) \/ RemovePending
  BY <1>19 DEF MaintenanceEnd, SendBegin, SendReentrant, Inject,
     ReplacePending, RemovePending, StartDriver, Enqueue, WakingAfterAbort,
     WakeDriver, IInv, PhaseInv, LogInv, TypeOK, PhaseOK, LogOK, DriverOK,
     Traces, Positions, Between, InTurn, InStep, Async, Sync, Appending,
     Notifying
<1>20. CASE (\E c \in Causes, keep \in BOOLEAN : CancelDirect(c, keep)) \/ (\E c \in
             Causes : CancelBegin(c)) \/ (\E c \in Causes :
             CancelReentrant(c)) \/ StartMaintenance
  BY <1>20 DEF CancelDirect, CancelBegin, CancelReentrant, 
     StartMaintenance, AbortActivity, Silences, ClearInbox, IInv, PhaseInv, LogInv,
     TypeOK, PhaseOK, LogOK, DriverOK, Traces, Positions, Between, InTurn,
     InStep, Async, Sync, Appending, Notifying
<1> QED BY <1>1, <1>2, <1>3, <1>4, <1>5, <1>6, <1>7, <1>8, <1>9, <1>10,
          <1>11, <1>12, <1>13, <1>14, <1>15, <1>16, <1>17, <1>18, <1>19,
          <1>20 DEF Next, Driver, TurnSteps, RequestSteps, BoundarySteps,
          Unwind, Callers

LEMMA LatchInvPreserved ==
  ASSUME IInv, Next PROVE LatchInv'
<1>1. CASE TurnSteps
  <2>1. CASE TurnNotOpened \/ OpenTurn
    BY <2>1 DEF TurnNotOpened, OpenTurn, IInv, PhaseInv, LatchInv,
       LatchOnlyBehindDeadActivity, TypeOK, PhaseOK, DriverOK, Positions, Frames,
       NoFrame, Aborted, Causes, Async, Sync, Appending, Notifying, CanCall
  <2>2. CASE FirstClaim
    BY <2>2 DEF FirstClaim, Raise, CloseTurn, Propose, IInv, PhaseInv, LatchInv,
       LatchOnlyBehindDeadActivity, TypeOK, PhaseOK, DriverOK, Positions, Frames,
       NoFrame, Aborted, Causes, Async, Sync, Appending, Notifying, CanCall
  <2>3. CASE PreStepFails \/ PreStepRejects \/ PreStepEntersEmpty
    BY <2>3 DEF PreStepFails, PreStepRejects, PreStepEntersEmpty, Raise, CloseTurn,
       DropBatch, IInv, PhaseInv, LatchInv, LatchOnlyBehindDeadActivity, TypeOK,
       PhaseOK, DriverOK, Positions, Frames, NoFrame, Aborted, Causes, Async, Sync,
       Appending, Notifying, CanCall
  <2>4. CASE \E kept \in BOOLEAN : PreStepEnters(kept)
    BY <2>4 DEF PreStepEnters, IInv, PhaseInv, LatchInv,
       LatchOnlyBehindDeadActivity, TypeOK, PhaseOK, DriverOK, Positions, Frames,
       NoFrame, Aborted, Causes, Async, Sync, Appending, Notifying, CanCall
  <2>5. CASE CloseRejected \/ CloseEmptied
    BY <2>5 DEF CloseRejected, CloseEmptied, CloseTurn, IInv, PhaseInv, LatchInv,
       LatchOnlyBehindDeadActivity, TypeOK, PhaseOK, DriverOK, Positions, Frames,
       NoFrame, Aborted, Causes, Async, Sync, Appending, Notifying, CanCall
  <2>6. CASE OpenStep
    BY <2>6 DEF OpenStep, IInv, PhaseInv, LatchInv,
       LatchOnlyBehindDeadActivity, TypeOK, PhaseOK, DriverOK, Positions, Frames,
       NoFrame, Aborted, Causes, Async, Sync, Appending, Notifying, CanCall
  <2> QED BY <1>1, <2>1, <2>2, <2>3, <2>4, <2>5, <2>6 DEF TurnSteps
<1>2. CASE RequestSteps
  <2>1. CASE StepFails \/ GiveUp
    BY <2>1 DEF StepFails, GiveUp, StepThrows, DropBatch, IInv, PhaseInv,
       LatchInv, LatchOnlyBehindDeadActivity, TypeOK, PhaseOK, DriverOK,
       Positions, Frames, NoFrame, Aborted, Causes, Async, Sync, Appending,
       Notifying, CanCall, WakingAfterAbort
  <2>2. CASE Configured \/ Admit \/ Launch
    BY <2>2 DEF Configured, Admit, Launch, StepFact, TurnFact, InOpenStep, IInv, PhaseInv,
       LatchInv, LatchOnlyBehindDeadActivity, TypeOK, PhaseOK, DriverOK,
       Positions, Frames, NoFrame, Aborted, Causes, Async, Sync, Appending,
       Notifying, CanCall, WakingAfterAbort
  <2>3. CASE AttemptFails \/ Retry
    BY <2>3 DEF AttemptFails, Retry, StepFact, InOpenStep, IInv, PhaseInv,
       LatchInv, LatchOnlyBehindDeadActivity, TypeOK, PhaseOK, DriverOK,
       Positions, Frames, NoFrame, Aborted, Causes, Async, Sync, Appending,
       Notifying, CanCall, WakingAfterAbort
  <2>4. ASSUME NEW end \in {"completed", "max-tokens"}, ModelFinishes(end)
        PROVE  LatchInv'
    BY <2>4 DEF ModelFinishes, StepReturns, IInv, PhaseInv, LatchInv,
       LatchOnlyBehindDeadActivity, TypeOK, PhaseOK, DriverOK, Positions,
       Frames, NoFrame, Aborted, Causes, Async, Sync, Appending, Notifying,
       CanCall, WakingAfterAbort
  <2>5. CASE ModelCallsTools
    BY <2>5 DEF ModelCallsTools, Assistant, InOpenStep, IInv, PhaseInv,
       LatchInv, LatchOnlyBehindDeadActivity, TypeOK, PhaseOK, DriverOK,
       Positions, Frames, NoFrame, Aborted, Causes, Async, Sync, Appending,
       Notifying, CanCall, WakingAfterAbort
  <2>6. ASSUME NEW end \in {"completed", "none"}, ToolsReturn(end)
        PROVE  LatchInv'
    BY <2>6 DEF ToolsReturn, StepReturns, IInv, PhaseInv, LatchInv,
       LatchOnlyBehindDeadActivity, TypeOK, PhaseOK, DriverOK, Positions,
       Frames, NoFrame, Aborted, Causes, Async, Sync, Appending, Notifying,
       CanCall, WakingAfterAbort
  <2> QED BY <1>2, <2>1, <2>2, <2>3, <2>4, <2>5, <2>6 DEF RequestSteps
<1>3. CASE BoundarySteps
  <2>1. CASE StepBoundary
    BY <2>1 DEF StepBoundary, Raise, CloseTurn, Propose, IInv, PhaseInv,
       LatchInv, LatchOnlyBehindDeadActivity, TypeOK, PhaseOK, DriverOK,
       Positions, Frames, NoFrame, Aborted, Causes, Async, Sync, Appending,
       Notifying, CanCall, WakingAfterAbort
  <2>2. CASE Stopped
    BY <2>2 DEF Stopped, CloseTurn, Propose, IInv, PhaseInv, LatchInv,
       LatchOnlyBehindDeadActivity, TypeOK, PhaseOK, DriverOK, Positions,
       Frames, NoFrame, Aborted, Causes, Async, Sync, Appending, Notifying,
       CanCall, WakingAfterAbort
  <2>3. CASE StoppingFails \/ CloseFailedTurn
    BY <2>3 DEF StoppingFails, CloseFailedTurn, Raise, CloseTurn, IInv,
       PhaseInv, LatchInv, LatchOnlyBehindDeadActivity, TypeOK, PhaseOK,
       DriverOK, Positions, Frames, NoFrame, Aborted, Causes, Async, Sync,
       Appending, Notifying, CanCall, WakingAfterAbort
  <2>4. CASE TurnContinues
    BY <2>4 DEF TurnContinues, IInv, PhaseInv, LatchInv,
       LatchOnlyBehindDeadActivity, TypeOK, PhaseOK, DriverOK, Positions,
       Frames, NoFrame, Aborted, Causes, Async, Sync, Appending, Notifying,
       CanCall, WakingAfterAbort
  <2>5. CASE TurnLeaves
    BY <2>5 DEF TurnLeaves, IInv, PhaseInv, LatchInv,
       LatchOnlyBehindDeadActivity, TypeOK, PhaseOK, DriverOK, Positions,
       Frames, NoFrame, Aborted, Causes, Async, Sync, Appending, Notifying,
       CanCall, WakingAfterAbort
  <2>6. CASE Retire
    BY <2>6 DEF Retire, IInv, PhaseInv, LatchInv, LatchOnlyBehindDeadActivity,
       TypeOK, PhaseOK, DriverOK, Positions, Frames, NoFrame, Aborted, Causes,
       Async, Sync, Appending, Notifying, CanCall, WakingAfterAbort
  <2> QED BY <1>3, <2>1, <2>2, <2>3, <2>4, <2>5, <2>6 DEF BoundarySteps
<1>4. CASE Unwind
  BY <1>4 DEF Unwind, SendEnd, CancelEnd, RetireEnd, MaintenanceEnd,
     WakeDriver, StartDriver, Latches, AbortActivity, Silences, IInv, PhaseInv,
     LatchInv, LatchOnlyBehindDeadActivity, TypeOK, PhaseOK, DriverOK,
     Positions, Frames, NoFrame, Aborted, Causes, Async, Sync, Appending,
     Notifying, CanCall, WakingAfterAbort
<1>5. CASE Callers
  <2>1. ASSUME NEW m \in Messages, NEW t \in Targets, SendBegin(m, t)
        PROVE  LatchInv'
    BY <2>1 DEF SendBegin, Enqueue, IInv, PhaseInv, LatchInv,
       LatchOnlyBehindDeadActivity, TypeOK, PhaseOK, DriverOK, Positions,
       Frames, NoFrame, Aborted, Causes, Async, Sync, Appending, Notifying,
       CanCall, WakingAfterAbort
  <2>2. ASSUME NEW m \in Messages, NEW t \in Targets, SendReentrant(m, t)
        PROVE  LatchInv'
    BY <2>2 DEF SendReentrant, Enqueue, WakeDriver, StartDriver, Latches,
       IInv, PhaseInv, LatchInv, LatchOnlyBehindDeadActivity, TypeOK, PhaseOK,
       DriverOK, Positions, Frames, NoFrame, Aborted, Causes, Async, Sync,
       Appending, Notifying, CanCall, WakingAfterAbort
  <2>3. ASSUME NEW m \in Messages, Inject(m)
        PROVE  LatchInv'
    BY <2>3 DEF Inject, Enqueue, IInv, PhaseInv, LatchInv,
       LatchOnlyBehindDeadActivity, TypeOK, PhaseOK, DriverOK, Positions,
       Frames, NoFrame, Aborted, Causes, Async, Sync, Appending, Notifying,
       CanCall, WakingAfterAbort
  <2>4. ASSUME NEW m \in Messages, ReplacePending(m)
        PROVE  LatchInv'
    BY <2>4 DEF ReplacePending, IInv, PhaseInv, LatchInv,
       LatchOnlyBehindDeadActivity, TypeOK, PhaseOK, DriverOK, Positions,
       Frames, NoFrame, Aborted, Causes, Async, Sync, Appending, Notifying,
       CanCall, WakingAfterAbort
  <2>5. CASE RemovePending
    BY <2>5 DEF RemovePending, IInv, PhaseInv, LatchInv,
       LatchOnlyBehindDeadActivity, TypeOK, PhaseOK, DriverOK, Positions,
       Frames, NoFrame, Aborted, Causes, Async, Sync, Appending, Notifying,
       CanCall, WakingAfterAbort
  <2>6. ASSUME NEW c \in Causes, NEW keep \in BOOLEAN, CancelDirect(c, keep)
        PROVE  LatchInv'
    BY <2>6 DEF CancelDirect, AbortActivity, Silences, IInv, PhaseInv, LatchInv,
       LatchOnlyBehindDeadActivity, TypeOK, PhaseOK, DriverOK, Positions,
       Frames, NoFrame, Aborted, Causes, Async, Sync, Appending, Notifying,
       CanCall, WakingAfterAbort
  <2>7. ASSUME NEW c \in Causes, CancelBegin(c)
        PROVE  LatchInv'
    BY <2>7 DEF CancelBegin, ClearInbox, IInv, PhaseInv, LatchInv,
       LatchOnlyBehindDeadActivity, TypeOK, PhaseOK, DriverOK, Positions,
       Frames, NoFrame, Aborted, Causes, Async, Sync, Appending, Notifying,
       CanCall, WakingAfterAbort
  <2>8. ASSUME NEW c \in Causes, CancelReentrant(c)
        PROVE  LatchInv'
    BY <2>8 DEF CancelReentrant, ClearInbox, AbortActivity, Silences, IInv, PhaseInv,
       LatchInv, LatchOnlyBehindDeadActivity, TypeOK, PhaseOK, DriverOK,
       Positions, Frames, NoFrame, Aborted, Causes, Async, Sync, Appending,
       Notifying, CanCall, WakingAfterAbort
  <2>9. CASE StartMaintenance
    BY <2>9 DEF StartMaintenance, IInv, PhaseInv, LatchInv,
       LatchOnlyBehindDeadActivity, TypeOK, PhaseOK, DriverOK, Positions,
       Frames, NoFrame, Aborted, Causes, Async, Sync, Appending, Notifying,
       CanCall, WakingAfterAbort
  <2> QED BY <1>5, <2>1, <2>2, <2>3, <2>4, <2>5, <2>6, <2>7, <2>8, <2>9 DEF Callers
<1> QED BY <1>1, <1>2, <1>3, <1>4, <1>5 DEF Next, Driver

LEMMA SilenceInvPreserved ==
  ASSUME IInv, Next PROVE SilenceInv'
<1>1. CASE TurnSteps
  <2>1. CASE TurnNotOpened \/ OpenTurn
    BY <2>1 DEF TurnNotOpened, OpenTurn,
       IInv, PhaseInv, SilenceInv, TypeOK, PhaseOK, DriverOK,
       HistoryOK, Positions, Frames, NoFrame, Aborted, Causes, Async, Sync,
       Appending, Notifying, CanCall, HasPending, InboxOK, Targets
  <2>2. CASE FirstClaim
    BY <2>2 DEF FirstClaim, Raise, CloseTurn, Propose,
       IInv, PhaseInv, SilenceInv, TypeOK, PhaseOK, DriverOK,
       HistoryOK, Positions, Frames, NoFrame, Aborted, Causes, Async, Sync,
       Appending, Notifying, CanCall, HasPending, InboxOK, Targets
  <2>3. CASE PreStepFails \/ PreStepRejects \/ PreStepEntersEmpty
    BY <2>3 DEF PreStepFails, PreStepRejects, PreStepEntersEmpty,
       Raise, CloseTurn, DropBatch,
       IInv, PhaseInv, SilenceInv, TypeOK, PhaseOK, DriverOK,
       HistoryOK, Positions, Frames, NoFrame, Aborted, Causes, Async, Sync,
       Appending, Notifying, CanCall, HasPending, InboxOK, Targets
  <2>4. ASSUME NEW kept \in BOOLEAN, PreStepEnters(kept)
        PROVE  SilenceInv'
    BY <2>4 DEF PreStepEnters,
       IInv, PhaseInv, SilenceInv, TypeOK, PhaseOK, DriverOK,
       HistoryOK, Positions, Frames, NoFrame, Aborted, Causes, Async, Sync,
       Appending, Notifying, CanCall, HasPending, InboxOK, Targets
  <2>5. CASE CloseRejected \/ CloseEmptied
    BY <2>5 DEF CloseRejected, CloseEmptied, CloseTurn,
       IInv, PhaseInv, SilenceInv, TypeOK, PhaseOK, DriverOK,
       HistoryOK, Positions, Frames, NoFrame, Aborted, Causes, Async, Sync,
       Appending, Notifying, CanCall, HasPending, InboxOK, Targets
  <2>6. CASE OpenStep
    BY <2>6 DEF OpenStep,
       IInv, PhaseInv, SilenceInv, TypeOK, PhaseOK, DriverOK,
       HistoryOK, Positions, Frames, NoFrame, Aborted, Causes, Async, Sync,
       Appending, Notifying, CanCall, HasPending, InboxOK, Targets
  <2> QED BY <1>1, <2>1, <2>2, <2>3, <2>4, <2>5, <2>6 DEF TurnSteps
<1>2. CASE RequestSteps
  <2>1. CASE StepFails \/ GiveUp
    BY <2>1 DEF StepFails, GiveUp, StepThrows, DropBatch,
       IInv, PhaseInv, SilenceInv, TypeOK, PhaseOK, DriverOK,
       HistoryOK, Positions, Frames, NoFrame, Aborted, Causes, Async, Sync,
       Appending, Notifying, CanCall, HasPending, InboxOK, Targets
  <2>2. CASE Configured \/ Admit \/ Launch
    BY <2>2 DEF Configured, Admit, Launch, StepFact, TurnFact, InOpenStep,
       IInv, PhaseInv, SilenceInv, TypeOK, PhaseOK, DriverOK,
       HistoryOK, Positions, Frames, NoFrame, Aborted, Causes, Async, Sync,
       Appending, Notifying, CanCall, HasPending, InboxOK, Targets
  <2>3. CASE AttemptFails \/ Retry
    BY <2>3 DEF AttemptFails, Retry, StepFact, InOpenStep,
       IInv, PhaseInv, SilenceInv, TypeOK, PhaseOK, DriverOK,
       HistoryOK, Positions, Frames, NoFrame, Aborted, Causes, Async, Sync,
       Appending, Notifying, CanCall, HasPending, InboxOK, Targets
  <2>4. ASSUME NEW end \in {"completed", "max-tokens"}, ModelFinishes(end)
        PROVE  SilenceInv'
    BY <2>4 DEF ModelFinishes, StepReturns,
       IInv, PhaseInv, SilenceInv, TypeOK, PhaseOK, DriverOK,
       HistoryOK, Positions, Frames, NoFrame, Aborted, Causes, Async, Sync,
       Appending, Notifying, CanCall, HasPending, InboxOK, Targets
  <2>5. CASE ModelCallsTools
    BY <2>5 DEF ModelCallsTools, Assistant, InOpenStep,
       IInv, PhaseInv, SilenceInv, TypeOK, PhaseOK, DriverOK,
       HistoryOK, Positions, Frames, NoFrame, Aborted, Causes, Async, Sync,
       Appending, Notifying, CanCall, HasPending, InboxOK, Targets
  <2>6. ASSUME NEW end \in {"completed", "none"}, ToolsReturn(end)
        PROVE  SilenceInv'
    BY <2>6 DEF ToolsReturn, StepReturns,
       IInv, PhaseInv, SilenceInv, TypeOK, PhaseOK, DriverOK,
       HistoryOK, Positions, Frames, NoFrame, Aborted, Causes, Async, Sync,
       Appending, Notifying, CanCall, HasPending, InboxOK, Targets
  <2> QED BY <1>2, <2>1, <2>2, <2>3, <2>4, <2>5, <2>6 DEF RequestSteps
<1>3. CASE BoundarySteps
  <2>1. CASE StepBoundary
    BY <2>1 DEF StepBoundary, Raise, CloseTurn, Propose,
       IInv, PhaseInv, SilenceInv, TypeOK, PhaseOK, DriverOK,
       HistoryOK, Positions, Frames, NoFrame, Aborted, Causes, Async, Sync,
       Appending, Notifying, CanCall, HasPending, InboxOK, Targets
  <2>2. CASE Stopped
    BY <2>2 DEF Stopped, CloseTurn, Propose,
       IInv, PhaseInv, SilenceInv, TypeOK, PhaseOK, DriverOK,
       HistoryOK, Positions, Frames, NoFrame, Aborted, Causes, Async, Sync,
       Appending, Notifying, CanCall, HasPending, InboxOK, Targets
  <2>3. CASE StoppingFails \/ CloseFailedTurn
    BY <2>3 DEF StoppingFails, CloseFailedTurn, Raise, CloseTurn,
       IInv, PhaseInv, SilenceInv, TypeOK, PhaseOK, DriverOK,
       HistoryOK, Positions, Frames, NoFrame, Aborted, Causes, Async, Sync,
       Appending, Notifying, CanCall, HasPending, InboxOK, Targets
  <2>4. CASE TurnContinues
    BY <2>4 DEF TurnContinues,
       IInv, PhaseInv, SilenceInv, TypeOK, PhaseOK, DriverOK,
       HistoryOK, Positions, Frames, NoFrame, Aborted, Causes, Async, Sync,
       Appending, Notifying, CanCall, HasPending, InboxOK, Targets
  <2>5. CASE TurnLeaves
    BY <2>5 DEF TurnLeaves,
       IInv, PhaseInv, SilenceInv, TypeOK, PhaseOK, DriverOK,
       HistoryOK, Positions, Frames, NoFrame, Aborted, Causes, Async, Sync,
       Appending, Notifying, CanCall, HasPending, InboxOK, Targets
  <2>6. CASE Retire
    BY <2>6 DEF Retire,
       IInv, PhaseInv, SilenceInv, TypeOK, PhaseOK, DriverOK,
       HistoryOK, Positions, Frames, NoFrame, Aborted, Causes, Async, Sync,
       Appending, Notifying, CanCall, HasPending, InboxOK, Targets
  <2> QED BY <1>3, <2>1, <2>2, <2>3, <2>4, <2>5, <2>6 DEF BoundarySteps
<1>4. CASE Unwind
  <2>1. CASE SendEnd
    BY <2>1 DEF SendEnd, WakeDriver, StartDriver, Latches,
       IInv, PhaseInv, SilenceInv, TypeOK, PhaseOK, DriverOK,
       HistoryOK, Positions, Frames, NoFrame, Aborted, Causes, Async, Sync,
       Appending, Notifying, CanCall, HasPending, InboxOK, Targets
  <2>2. CASE CancelEnd
    BY <2>2 DEF CancelEnd, AbortActivity, Silences,
       IInv, PhaseInv, SilenceInv, TypeOK, PhaseOK, DriverOK,
       HistoryOK, Positions, Frames, NoFrame, Aborted, Causes, Async, Sync,
       Appending, Notifying, CanCall, HasPending, InboxOK, Targets
  <2>3. CASE RetireEnd
    BY <2>3 DEF RetireEnd, WakeDriver, StartDriver, Latches,
       IInv, PhaseInv, SilenceInv, TypeOK, PhaseOK, DriverOK,
       HistoryOK, Positions, Frames, NoFrame, Aborted, Causes, Async, Sync,
       Appending, Notifying, CanCall, HasPending, InboxOK, Targets
  <2>4. CASE MaintenanceEnd
    BY <2>4 DEF MaintenanceEnd, StartDriver,
       IInv, PhaseInv, SilenceInv, TypeOK, PhaseOK, DriverOK,
       HistoryOK, Positions, Frames, NoFrame, Aborted, Causes, Async, Sync,
       Appending, Notifying, CanCall, HasPending, InboxOK, Targets
  <2> QED BY <1>4, <2>1, <2>2, <2>3, <2>4 DEF Unwind
<1>5. CASE Callers
  <2>1. ASSUME NEW m \in Messages, NEW t \in Targets, SendBegin(m, t)
        PROVE  SilenceInv'
    BY <2>1 DEF SendBegin, Enqueue, WakingAfterAbort,
       IInv, PhaseInv, SilenceInv, TypeOK, PhaseOK, DriverOK,
       HistoryOK, Positions, Frames, NoFrame, Aborted, Causes, Async, Sync,
       Appending, Notifying, CanCall, HasPending, InboxOK, Targets
  <2>2. ASSUME NEW m \in Messages, NEW t \in Targets, SendReentrant(m, t)
        PROVE  SilenceInv'
    BY <2>2 DEF SendReentrant, Enqueue, WakingAfterAbort, WakeDriver,
       StartDriver, Latches,
       IInv, PhaseInv, SilenceInv, TypeOK, PhaseOK, DriverOK,
       HistoryOK, Positions, Frames, NoFrame, Aborted, Causes, Async, Sync,
       Appending, Notifying, CanCall, HasPending, InboxOK, Targets
  <2>3. ASSUME NEW m \in Messages, Inject(m)
        PROVE  SilenceInv'
    BY <2>3 DEF Inject, Enqueue, WakingAfterAbort,
       IInv, PhaseInv, SilenceInv, TypeOK, PhaseOK, DriverOK,
       HistoryOK, Positions, Frames, NoFrame, Aborted, Causes, Async, Sync,
       Appending, Notifying, CanCall, HasPending, InboxOK, Targets
  <2>4. ASSUME NEW m \in Messages, ReplacePending(m)
        PROVE  SilenceInv'
    BY <2>4 DEF ReplacePending,
       IInv, PhaseInv, SilenceInv, TypeOK, PhaseOK, DriverOK,
       HistoryOK, Positions, Frames, NoFrame, Aborted, Causes, Async, Sync,
       Appending, Notifying, CanCall, HasPending, InboxOK, Targets
  <2>5. CASE RemovePending
    BY <2>5 DEF RemovePending,
       IInv, PhaseInv, SilenceInv, TypeOK, PhaseOK, DriverOK,
       HistoryOK, Positions, Frames, NoFrame, Aborted, Causes, Async, Sync,
       Appending, Notifying, CanCall, HasPending, InboxOK, Targets
  <2>6. ASSUME NEW c \in Causes, NEW keep \in BOOLEAN, CancelDirect(c, keep)
        PROVE  SilenceInv'
    BY <2>6 DEF CancelDirect, AbortActivity, Silences,
       IInv, PhaseInv, SilenceInv, TypeOK, PhaseOK, DriverOK,
       HistoryOK, Positions, Frames, NoFrame, Aborted, Causes, Async, Sync,
       Appending, Notifying, CanCall, HasPending, InboxOK, Targets
  <2>7. ASSUME NEW c \in Causes, CancelBegin(c)
        PROVE  SilenceInv'
    BY <2>7 DEF CancelBegin, ClearInbox,
       IInv, PhaseInv, SilenceInv, TypeOK, PhaseOK, DriverOK,
       HistoryOK, Positions, Frames, NoFrame, Aborted, Causes, Async, Sync,
       Appending, Notifying, CanCall, HasPending, InboxOK, Targets
  <2>8. ASSUME NEW c \in Causes, CancelReentrant(c)
        PROVE  SilenceInv'
    BY <2>8 DEF CancelReentrant, ClearInbox, AbortActivity, Silences,
       IInv, PhaseInv, SilenceInv, TypeOK, PhaseOK, DriverOK,
       HistoryOK, Positions, Frames, NoFrame, Aborted, Causes, Async, Sync,
       Appending, Notifying, CanCall, HasPending, InboxOK, Targets
  <2>9. CASE StartMaintenance
    BY <2>9 DEF StartMaintenance,
       IInv, PhaseInv, SilenceInv, TypeOK, PhaseOK, DriverOK,
       HistoryOK, Positions, Frames, NoFrame, Aborted, Causes, Async, Sync,
       Appending, Notifying, CanCall, HasPending, InboxOK, Targets
  <2> QED BY <1>5, <2>1, <2>2, <2>3, <2>4, <2>5, <2>6, <2>7, <2>8, <2>9 DEF Callers
<1> QED BY <1>1, <1>2, <1>3, <1>4, <1>5 DEF Next, Driver

LEMMA CeilingInvPreserved ==
  ASSUME IInv, Next PROVE CeilingInv'
<1>1. CASE TurnSteps
  <2>1. CASE TurnNotOpened \/ OpenTurn
    BY <2>1 DEF TurnNotOpened, OpenTurn, IInv, PhaseInv, CeilingInv, TypeOK,
       PhaseOK, DriverOK, HistoryOK, Positions, TurnEnds, InStep, InTurn,
       Async, Sync, Appending, Notifying
  <2>2. CASE FirstClaim
    BY <2>2 DEF FirstClaim, Raise, CloseTurn, Propose, IInv, PhaseInv,
       CeilingInv, TypeOK, PhaseOK, DriverOK, HistoryOK, Positions, TurnEnds,
       InStep, InTurn, Async, Sync, Appending, Notifying
  <2>3. CASE PreStepFails \/ PreStepRejects \/ PreStepEntersEmpty
    BY <2>3 DEF PreStepFails, PreStepRejects, PreStepEntersEmpty, Raise,
       CloseTurn, DropBatch, IInv, PhaseInv, CeilingInv, TypeOK, PhaseOK,
       DriverOK, HistoryOK, Positions, TurnEnds, InStep, InTurn, Async, Sync,
       Appending, Notifying
  <2>4. ASSUME NEW kept \in BOOLEAN, PreStepEnters(kept)
        PROVE  CeilingInv'
    BY <2>4 DEF PreStepEnters, IInv, PhaseInv, CeilingInv, TypeOK, PhaseOK,
       DriverOK, HistoryOK, Positions, TurnEnds, InStep, InTurn, Async, Sync,
       Appending, Notifying
  <2>5. CASE CloseRejected \/ CloseEmptied
    BY <2>5 DEF CloseRejected, CloseEmptied, CloseTurn, IInv, PhaseInv, CeilingInv, TypeOK, PhaseOK,
       DriverOK, HistoryOK, Positions, TurnEnds, InStep, InTurn, Async, Sync,
       Appending, Notifying
  <2>6. CASE OpenStep
    BY <2>6 DEF OpenStep, IInv, PhaseInv, CeilingInv, TypeOK, PhaseOK,
       DriverOK, HistoryOK, Positions, TurnEnds, InStep, InTurn, Async, Sync,
       Appending, Notifying
  <2> QED BY <1>1, <2>1, <2>2, <2>3, <2>4, <2>5, <2>6 DEF TurnSteps
<1>2. CASE RequestSteps
  <2>1. CASE StepFails \/ GiveUp
    BY <2>1 DEF StepFails, GiveUp, StepThrows, DropBatch, IInv, PhaseInv,
       CeilingInv, TypeOK, PhaseOK, DriverOK, HistoryOK, Positions, TurnEnds,
       InStep, InTurn, Async, Sync, Appending, Notifying
  <2>2. CASE Configured \/ Admit \/ Launch
    BY <2>2 DEF Configured, Admit, Launch, StepFact, TurnFact, InOpenStep, IInv, PhaseInv,
       CeilingInv, TypeOK, PhaseOK, DriverOK, HistoryOK, Positions, TurnEnds,
       InStep, InTurn, Async, Sync, Appending, Notifying
  <2>3. CASE AttemptFails \/ Retry
    BY <2>3 DEF AttemptFails, Retry, StepFact, InOpenStep, IInv, PhaseInv,
       CeilingInv, TypeOK, PhaseOK, DriverOK, HistoryOK, Positions, TurnEnds,
       InStep, InTurn, Async, Sync, Appending, Notifying
  <2>4. ASSUME NEW end \in {"completed", "max-tokens"}, ModelFinishes(end)
        PROVE  CeilingInv'
    BY <2>4 DEF ModelFinishes, StepReturns, IInv, PhaseInv, CeilingInv,
       TypeOK, PhaseOK, DriverOK, HistoryOK, Positions, TurnEnds, InStep,
       InTurn, Async, Sync, Appending, Notifying
  <2>5. CASE ModelCallsTools
    BY <2>5 DEF ModelCallsTools, Assistant, InOpenStep, IInv, PhaseInv,
       CeilingInv, TypeOK, PhaseOK, DriverOK, HistoryOK, Positions, TurnEnds,
       InStep, InTurn, Async, Sync, Appending, Notifying
  <2>6. ASSUME NEW end \in {"completed", "none"}, ToolsReturn(end)
        PROVE  CeilingInv'
    BY <2>6 DEF ToolsReturn, StepReturns, IInv, PhaseInv, CeilingInv, TypeOK,
       PhaseOK, DriverOK, HistoryOK, Positions, TurnEnds, InStep, InTurn,
       Async, Sync, Appending, Notifying
  <2> QED BY <1>2, <2>1, <2>2, <2>3, <2>4, <2>5, <2>6 DEF RequestSteps
<1>3. CASE BoundarySteps
  <2>1. CASE StepBoundary
    BY <2>1 DEF StepBoundary, Raise, CloseTurn, Propose, IInv, PhaseInv,
       CeilingInv, TypeOK, PhaseOK, DriverOK, HistoryOK, Positions, TurnEnds,
       InStep, InTurn, Async, Sync, Appending, Notifying
  <2>2. CASE Stopped
    BY <2>2 DEF Stopped, CloseTurn, Propose, IInv, PhaseInv, CeilingInv,
       TypeOK, PhaseOK, DriverOK, HistoryOK, Positions, TurnEnds, InStep,
       InTurn, Async, Sync, Appending, Notifying
  <2>3. CASE StoppingFails \/ CloseFailedTurn
    BY <2>3 DEF StoppingFails, CloseFailedTurn, Raise, CloseTurn, IInv,
       PhaseInv, CeilingInv, TypeOK, PhaseOK, DriverOK, HistoryOK, Positions,
       TurnEnds, InStep, InTurn, Async, Sync, Appending, Notifying
  <2>4. CASE TurnContinues
    BY <2>4 DEF TurnContinues, IInv, PhaseInv, CeilingInv, TypeOK, PhaseOK,
       DriverOK, HistoryOK, Positions, TurnEnds, InStep, InTurn, Async, Sync,
       Appending, Notifying
  <2>5. CASE TurnLeaves
    BY <2>5 DEF TurnLeaves, IInv, PhaseInv, CeilingInv, TypeOK, PhaseOK,
       DriverOK, HistoryOK, Positions, TurnEnds, InStep, InTurn, Async, Sync,
       Appending, Notifying
  <2>6. CASE Retire
    BY <2>6 DEF Retire, IInv, PhaseInv, CeilingInv, TypeOK, PhaseOK, DriverOK,
       HistoryOK, Positions, TurnEnds, InStep, InTurn, Async, Sync, Appending,
       Notifying
  <2> QED BY <1>3, <2>1, <2>2, <2>3, <2>4, <2>5, <2>6 DEF BoundarySteps
<1>4. CASE Unwind
  BY <1>4 DEF Unwind, SendEnd, CancelEnd, RetireEnd, MaintenanceEnd,
     WakeDriver, StartDriver, Latches, AbortActivity, Silences, IInv, PhaseInv,
     CeilingInv, TypeOK, PhaseOK, DriverOK, HistoryOK, Positions, TurnEnds,
     InStep, InTurn, Async, Sync, Appending, Notifying
<1>5. CASE Callers
  <2>1. ASSUME NEW m \in Messages, NEW t \in Targets, SendBegin(m, t)
        PROVE  CeilingInv'
    BY <2>1 DEF SendBegin, Enqueue, IInv, PhaseInv, CeilingInv, TypeOK,
       PhaseOK, DriverOK, HistoryOK, Positions, TurnEnds, InStep, InTurn,
       Async, Sync, Appending, Notifying, WakingAfterAbort
  <2>2. ASSUME NEW m \in Messages, NEW t \in Targets, SendReentrant(m, t)
        PROVE  CeilingInv'
    BY <2>2 DEF SendReentrant, Enqueue, WakeDriver, StartDriver, Latches,
       IInv, PhaseInv, CeilingInv, TypeOK, PhaseOK, DriverOK, HistoryOK,
       Positions, TurnEnds, InStep, InTurn, Async, Sync, Appending, Notifying,
       WakingAfterAbort
  <2>3. ASSUME NEW m \in Messages, Inject(m)
        PROVE  CeilingInv'
    BY <2>3 DEF Inject, Enqueue, IInv, PhaseInv, CeilingInv, TypeOK, PhaseOK,
       DriverOK, HistoryOK, Positions, TurnEnds, InStep, InTurn, Async, Sync,
       Appending, Notifying, WakingAfterAbort
  <2>4. ASSUME NEW m \in Messages, ReplacePending(m)
        PROVE  CeilingInv'
    BY <2>4 DEF ReplacePending, IInv, PhaseInv, CeilingInv, TypeOK, PhaseOK,
       DriverOK, HistoryOK, Positions, TurnEnds, InStep, InTurn, Async, Sync,
       Appending, Notifying, WakingAfterAbort
  <2>5. CASE RemovePending
    BY <2>5 DEF RemovePending, IInv, PhaseInv, CeilingInv, TypeOK, PhaseOK,
       DriverOK, HistoryOK, Positions, TurnEnds, InStep, InTurn, Async, Sync,
       Appending, Notifying, WakingAfterAbort
  <2>6. ASSUME NEW c \in Causes, NEW keep \in BOOLEAN, CancelDirect(c, keep)
        PROVE  CeilingInv'
    BY <2>6 DEF CancelDirect, AbortActivity, Silences, IInv, PhaseInv, CeilingInv,
       TypeOK, PhaseOK, DriverOK, HistoryOK, Positions, TurnEnds, InStep,
       InTurn, Async, Sync, Appending, Notifying, WakingAfterAbort
  <2>7. ASSUME NEW c \in Causes, CancelBegin(c)
        PROVE  CeilingInv'
    BY <2>7 DEF CancelBegin, ClearInbox, IInv, PhaseInv, CeilingInv, TypeOK,
       PhaseOK, DriverOK, HistoryOK, Positions, TurnEnds, InStep, InTurn,
       Async, Sync, Appending, Notifying, WakingAfterAbort
  <2>8. ASSUME NEW c \in Causes, CancelReentrant(c)
        PROVE  CeilingInv'
    BY <2>8 DEF CancelReentrant, ClearInbox, AbortActivity, Silences, IInv, PhaseInv,
       CeilingInv, TypeOK, PhaseOK, DriverOK, HistoryOK, Positions, TurnEnds,
       InStep, InTurn, Async, Sync, Appending, Notifying, WakingAfterAbort
  <2>9. CASE StartMaintenance
    BY <2>9 DEF StartMaintenance, IInv, PhaseInv, CeilingInv,
       TypeOK, PhaseOK, DriverOK, HistoryOK, Positions, TurnEnds, InStep,
       InTurn, Async, Sync, Appending, Notifying, WakingAfterAbort
  <2> QED BY <1>5, <2>1, <2>2, <2>3, <2>4, <2>5, <2>6, <2>7, <2>8, <2>9 DEF Callers
<1> QED BY <1>1, <1>2, <1>3, <1>4, <1>5 DEF Next, Driver

\* The invariant holds initially and no step of the agent or of its callers
\* breaks it.
LEMMA InitIInv == Init => IInv
<1>1. Init => TypeOK
  <2> SUFFICES ASSUME Init PROVE TypeOK
    OBVIOUS
  <2>1. /\ wakeRequested \in BOOLEAN /\ firstAttempt \in BOOLEAN
        /\ fault \in BOOLEAN /\ refused \in BOOLEAN /\ quiet \in BOOLEAN
        /\ owed \in BOOLEAN /\ ceiling \in BOOLEAN
    BY Zenon DEF Init
  <2>2. PhaseOK
    BY <2>1 DEF Init, PhaseOK, Causes
  <2>3. frame \in Frames
    BY DEF Init, Frames, NoFrame
  <2>4. DriverOK
    BY <2>1, <2>3 DEF Init, DriverOK, TurnEnds, Positions
  <2>5. InboxOK
    BY DEF Init, InboxOK
  <2>6. trace \in Traces
    BY DEF Init, FreshTrace, Traces
  <2>7. HistoryOK
    BY <2>1 DEF Init, HistoryOK
  <2> QED BY <2>1, <2>2, <2>4, <2>5, <2>6, <2>7 DEF TypeOK, LogOK
<1>2. Init => PhaseInv /\ LogInv /\ LatchInv /\ SilenceInv /\ CeilingInv
  BY DEF Init, PhaseInv, LogInv, LatchInv, SilenceInv, CeilingInv, FreshTrace,
         LatchOnlyBehindDeadActivity, NoFrame, Between, InTurn, InStep
<1> QED BY <1>1, <1>2 DEF IInv

LEMMA NextIInv == IInv /\ [Next]_vars => IInv'
<1> SUFFICES ASSUME IInv, [Next]_vars PROVE IInv'
  OBVIOUS
<1>1. TypeOK'
  BY TypePreserved DEF IInv
<1>2. CASE Next
  BY <1>1, <1>2, PhaseInvPreserved, LogInvPreserved, LatchInvPreserved,
     SilenceInvPreserved, CeilingInvPreserved DEF IInv
<1>3. CASE UNCHANGED vars
  BY <1>1, <1>3 DEF vars, IInv, PhaseInv, LogInv, LatchInv, SilenceInv, CeilingInv,
     LatchOnlyBehindDeadActivity, Aborted, HasPending
<1> QED BY <1>2, <1>3

\* The driver's place, the log, the latch and what a cancel promised agree in
\* every reachable state.
THEOREM Invariance == Spec => []IInv
<1> QED BY InitIInv, NextIInv, PTL DEF Spec

-----------------------------------------------------------------------------
(* What follows for the agent.                                             *)

\* Every variable keeps its type, for every set of messages and all bounds.
THEOREM TypeCorrect == Spec => []TypeOK
<1>1. IInv => TypeOK
  BY DEF IInv
<1> QED BY <1>1, Invariance, PTL

\* The driver never appends a turn or step event that the session's own
\* validation rejects, whatever interrupts it.
THEOREM LogAcceptedAlways == Spec => []LogAccepted
<1>1. IInv => LogAccepted
  BY DEF IInv, LogInv, LogAccepted
<1> QED BY <1>1, Invariance, PTL

\* wakeRequested is set only behind maintenance or an aborted driver.
THEOREM LatchNeverOnLiveDriver == Spec => []LatchOnlyBehindDeadActivity
<1>1. IInv => LatchOnlyBehindDeadActivity
  BY DEF IInv, LatchInv
<1> QED BY <1>1, Invariance, PTL

LEMMA StopStep ==
  ASSUME IInv, Next PROVE (pc' # pc /\ pc' \in {"preStep", "request", "streaming"} => ~Aborted)
<1>1. CASE TurnSteps
  BY <1>1 DEF TurnSteps, TurnNotOpened, OpenTurn, FirstClaim, PreStepFails,
     PreStepRejects, PreStepEntersEmpty, PreStepEnters, CloseRejected,
     CloseEmptied, OpenStep, Raise, CloseTurn,
     Propose, DropBatch, IInv, TypeOK, DriverOK, Positions
<1>2. CASE RequestSteps
  BY <1>2 DEF RequestSteps, StepFails, Configured, Admit, Launch, AttemptFails, Retry,
     GiveUp, ModelFinishes, ModelCallsTools, ToolsReturn, StepThrows,
     DropBatch, StepFact, TurnFact, StepReturns, Assistant, IInv, TypeOK,
     DriverOK, Positions
<1>3. CASE BoundarySteps
  BY <1>3 DEF BoundarySteps, StepBoundary, Stopped, StoppingFails,
     CloseFailedTurn, TurnContinues, TurnLeaves, Retire, Raise, CloseTurn,
     Propose, IInv, TypeOK, DriverOK, Positions
<1>4. CASE Unwind
  BY <1>4 DEF Unwind, SendEnd, CancelEnd, RetireEnd, MaintenanceEnd,
     WakeDriver, StartDriver, AbortActivity, Silences, IInv, TypeOK, DriverOK,
     Positions
<1>5. CASE Callers
  BY <1>5 DEF Callers, SendBegin, SendReentrant, Inject, ReplacePending,
     RemovePending, CancelDirect, CancelBegin, CancelReentrant,
     StartMaintenance, Enqueue, WakingAfterAbort, WakeDriver,
     StartDriver, AbortActivity, Silences, ClearInbox, IInv, TypeOK, DriverOK,
     Positions
<1> QED BY <1>1, <1>2, <1>3, <1>4, <1>5 DEF Next, Driver

\* After an abort the driver claims nothing, opens no step, sends no request and
\* starts no stream.
THEOREM CancelStopsWorkAlways == Spec => CancelStopsWork
<1>1. IInv /\ [Next]_vars => [pc' # pc /\ pc' \in {"preStep", "request", "streaming"} => ~Aborted]_vars
  <2> SUFFICES ASSUME IInv, [Next]_vars
               PROVE  [pc' # pc /\ pc' \in {"preStep", "request", "streaming"} => ~Aborted]_vars
    OBVIOUS
  <2> QED BY StopStep DEF vars
<1> QED BY <1>1, Invariance, PTL DEF Spec, CancelStopsWork

LEMMA AnsweredStep ==
  ASSUME IInv, Next PROVE (pc' \in Answered /\ pc \notin Answered => ~Aborted)
<1>1. CASE TurnSteps
  BY <1>1 DEF TurnSteps, TurnNotOpened, OpenTurn, FirstClaim, PreStepFails,
     PreStepRejects, PreStepEntersEmpty, PreStepEnters, CloseRejected,
     CloseEmptied, OpenStep, Raise, CloseTurn,
     Propose, DropBatch, Answered
<1>2. CASE RequestSteps
  BY <1>2 DEF RequestSteps, StepFails, Configured, Admit, Launch, AttemptFails, Retry,
     GiveUp, ModelFinishes, ModelCallsTools, ToolsReturn, StepThrows,
     DropBatch, StepFact, TurnFact, StepReturns, Assistant, Answered
<1>3. CASE BoundarySteps
  BY <1>3 DEF BoundarySteps, StepBoundary, Stopped, StoppingFails,
     CloseFailedTurn, TurnContinues, TurnLeaves, Retire, Raise, CloseTurn,
     Propose, Answered
<1>4. CASE Unwind
  BY <1>4 DEF Unwind, SendEnd, CancelEnd, RetireEnd, MaintenanceEnd,
     WakeDriver, StartDriver, AbortActivity, Silences, Answered
<1>5. CASE Callers
  BY <1>5 DEF Callers, SendBegin, SendReentrant, Inject, ReplacePending,
     RemovePending, CancelDirect, CancelBegin, CancelReentrant,
     StartMaintenance, Enqueue, WakingAfterAbort, WakeDriver,
     StartDriver, AbortActivity, Silences, ClearInbox, Answered
<1> QED BY <1>1, <1>2, <1>3, <1>4, <1>5 DEF Next, Driver

LEMMA NormalEndStep ==
  ASSUME IInv, Next
  PROVE  pc' = "closed" /\ pc # "closed"
           /\ turnEnds' \in {"completed", "max-tokens", "blocked"}
             => ~Aborted \/ pc \in Answered
<1>1. CASE TurnSteps
  BY <1>1 DEF TurnSteps, TurnNotOpened, OpenTurn, FirstClaim, PreStepFails,
     PreStepRejects, PreStepEntersEmpty, PreStepEnters, CloseRejected,
     CloseEmptied, OpenStep, Raise, CloseTurn,
     Propose, DropBatch, IInv, CeilingInv, Answered
<1>2. CASE RequestSteps
  BY <1>2 DEF RequestSteps, StepFails, Configured, Admit, Launch, AttemptFails, Retry,
     GiveUp, ModelFinishes, ModelCallsTools, ToolsReturn, StepThrows,
     DropBatch, StepFact, TurnFact, StepReturns, Assistant, IInv, CeilingInv, Answered
<1>3. CASE BoundarySteps
  BY <1>3 DEF BoundarySteps, StepBoundary, Stopped, StoppingFails,
     CloseFailedTurn, TurnContinues, TurnLeaves, Retire, Raise, CloseTurn,
     Propose, IInv, CeilingInv, Answered
<1>4. CASE Unwind
  BY <1>4 DEF Unwind, SendEnd, CancelEnd, RetireEnd, MaintenanceEnd,
     WakeDriver, StartDriver, AbortActivity, Silences, IInv, CeilingInv, Answered
<1>5. CASE Callers
  BY <1>5 DEF Callers, SendBegin, SendReentrant, Inject, ReplacePending,
     RemovePending, CancelDirect, CancelBegin, CancelReentrant,
     StartMaintenance, Enqueue, WakingAfterAbort, WakeDriver,
     StartDriver, AbortActivity, Silences, ClearInbox, IInv, CeilingInv, Answered
<1> QED BY <1>1, <1>2, <1>3, <1>4, <1>5 DEF Next, Driver

LEMMA CeilingStep ==
  ASSUME IInv, Next PROVE (pc' = "closed" /\ pc # "closed" /\ turnEnds' = "completed" => ~ceiling)
<1>1. CASE TurnSteps
  BY <1>1 DEF TurnSteps, TurnNotOpened, OpenTurn, FirstClaim, PreStepFails,
     PreStepRejects, PreStepEntersEmpty, PreStepEnters, CloseRejected,
     CloseEmptied, OpenStep, Raise, CloseTurn,
     Propose, DropBatch, IInv, CeilingInv, InTurn, InStep
<1>2. CASE RequestSteps
  BY <1>2 DEF RequestSteps, StepFails, Configured, Admit, Launch, AttemptFails, Retry,
     GiveUp, ModelFinishes, ModelCallsTools, ToolsReturn, StepThrows,
     DropBatch, StepFact, TurnFact, StepReturns, Assistant, IInv,
     CeilingInv, InTurn, InStep
<1>3. CASE BoundarySteps
  BY <1>3 DEF BoundarySteps, StepBoundary, Stopped, StoppingFails,
     CloseFailedTurn, TurnContinues, TurnLeaves, Retire, Raise, CloseTurn,
     Propose, IInv, CeilingInv, InTurn, InStep
<1>4. CASE Unwind
  BY <1>4 DEF Unwind, SendEnd, CancelEnd, RetireEnd, MaintenanceEnd,
     WakeDriver, StartDriver, AbortActivity, Silences, IInv, CeilingInv, InTurn,
     InStep
<1>5. CASE Callers
  BY <1>5 DEF Callers, SendBegin, SendReentrant, Inject, ReplacePending,
     RemovePending, CancelDirect, CancelBegin, CancelReentrant,
     StartMaintenance, Enqueue, WakingAfterAbort, WakeDriver,
     StartDriver, AbortActivity, Silences, ClearInbox, IInv, CeilingInv, InTurn,
     InStep
<1> QED BY <1>1, <1>2, <1>3, <1>4, <1>5 DEF Next, Driver

\* A decision is only taken from a live turn; a turn whose controller was
\* aborted before it had that decision in hand never closes as completed,
\* max-tokens or blocked, and a turn that met its output ceiling never closes
\* as completed.
THEOREM EndReasonIsTrueAlways == Spec => EndReasonIsTrue
<1> DEFINE Taken   == pc' \in Answered /\ pc \notin Answered => ~Aborted
           Live    == turnEnds' \in {"completed", "max-tokens", "blocked"}
                        => ~Aborted \/ pc \in Answered
           Ceiling == turnEnds' = "completed" => ~ceiling
           Honest  == Taken /\ (pc' = "closed" /\ pc # "closed" => Live /\ Ceiling)
<1>1. IInv /\ [Next]_vars => [Honest]_vars
  <2> SUFFICES ASSUME IInv, [Next]_vars PROVE [Honest]_vars
    OBVIOUS
  <2> QED BY AnsweredStep, NormalEndStep, CeilingStep DEF vars
<1> QED BY <1>1, Invariance, PTL DEF Spec, EndReasonIsTrue

LEMMA SilentStep ==
  ASSUME IInv, Next PROVE (pc' = "opened" /\ pc # "opened" => ~quiet)
<1>1. CASE TurnSteps
  BY <1>1 DEF TurnSteps, TurnNotOpened, OpenTurn, FirstClaim, PreStepFails,
     PreStepRejects, PreStepEntersEmpty, PreStepEnters, CloseRejected,
     CloseEmptied, OpenStep, Raise, CloseTurn,
     Propose, DropBatch, IInv, PhaseInv, SilenceInv, Aborted
<1>2. CASE RequestSteps
  BY <1>2 DEF RequestSteps, StepFails, Configured, Admit, Launch, AttemptFails, Retry,
     GiveUp, ModelFinishes, ModelCallsTools, ToolsReturn, StepThrows,
     DropBatch, StepFact, TurnFact, StepReturns, Assistant, IInv, PhaseInv,
     SilenceInv, Aborted
<1>3. CASE BoundarySteps
  BY <1>3 DEF BoundarySteps, StepBoundary, Stopped, StoppingFails,
     CloseFailedTurn, TurnContinues, TurnLeaves, Retire, Raise, CloseTurn,
     Propose, IInv, PhaseInv, SilenceInv, Aborted
<1>4. CASE Unwind
  BY <1>4 DEF Unwind, SendEnd, CancelEnd, RetireEnd, MaintenanceEnd,
     WakeDriver, StartDriver, AbortActivity, Silences, IInv, PhaseInv, SilenceInv,
     Aborted
<1>5. CASE Callers
  BY <1>5 DEF Callers, SendBegin, SendReentrant, Inject, ReplacePending,
     RemovePending, CancelDirect, CancelBegin, CancelReentrant,
     StartMaintenance, Enqueue, WakingAfterAbort, WakeDriver,
     StartDriver, AbortActivity, Silences, ClearInbox, IInv, PhaseInv, SilenceInv,
     Aborted
<1> QED BY <1>1, <1>2, <1>3, <1>4, <1>5 DEF Next, Driver

\* After a cancel, no turn opens until waking input is sent again.
THEOREM CancelSilencesAlways == Spec => CancelSilences
<1>1. IInv /\ [Next]_vars => [pc' = "opened" /\ pc # "opened" => ~quiet]_vars
  <2> SUFFICES ASSUME IInv, [Next]_vars
               PROVE  [pc' = "opened" /\ pc # "opened" => ~quiet]_vars
    OBVIOUS
  <2> QED BY SilentStep DEF vars
<1> QED BY <1>1, Invariance, PTL DEF Spec, CancelSilences

-----------------------------------------------------------------------------
(* Where the messages are.                                                 *)

\* m is in the list s, and not twice.
Holds(s, m) == \E i \in DOMAIN s : s[i] = m
Once(s, m)  == \A i, j \in DOMAIN s : s[i] = m /\ s[j] = m => i = j

\* One message, the two pending lists, the batch still to be logged, how often
\* the message was logged, who was given up and who was sent: a message that
\* was sent is in one of these places, and in one only.
Placed(p, q, b, n, g, k, m) ==
  /\ Once(p, m) /\ Once(q, m) /\ Once(b, m) /\ n \in {0, 1}
  /\ Holds(p, m) => ~Holds(q, m) /\ ~Holds(b, m) /\ n = 0 /\ m \notin g
  /\ Holds(q, m) => ~Holds(b, m) /\ n = 0 /\ m \notin g
  /\ Holds(b, m) => n = 0 /\ m \notin g
  /\ n = 1 => m \notin g
  /\ m \in k <=> Holds(p, m) \/ Holds(q, m) \/ Holds(b, m) \/ n = 1 \/ m \in g

Unlogged == IF firstAttempt THEN batch ELSE <<>>
PlacedOne(m) ==
  Placed(inbox["next-turn"], inbox["next-step"], Unlogged, copies[m], spent, sent, m)

\* The claimed batch is to be logged until the first attempt has logged it.
BatchInv ==
  /\ firstAttempt => pc \in {"preStep", "entered", "request", "configured"}
  /\ pc \in {"preStep", "entered"} => firstAttempt
PlaceInv == BatchInv /\ \A m \in Messages : PlacedOne(m)

LEMMA HoldsNothing == ASSUME NEW m PROVE ~Holds(<<>>, m) /\ Once(<<>>, m)
BY DEF Holds, Once

LEMMA HoldsAppend ==
  ASSUME NEW S, NEW s \in Seq(S), NEW e \in S, NEW m
  PROVE  /\ Holds(Append(s, e), m) <=> Holds(s, m) \/ e = m
         /\ Once(s, m) /\ ~(Holds(s, m) /\ e = m) => Once(Append(s, e), m)
<1> DEFINE r == Append(s, e)
<1>1. /\ DOMAIN s = 1..Len(s) /\ DOMAIN r = 1..(Len(s) + 1) /\ Len(s) \in Nat
      /\ \A i \in 1..Len(s) : r[i] = s[i]
      /\ r[Len(s) + 1] = e
  OBVIOUS
<1> HIDE DEF r
<1>2. Holds(r, m) <=> Holds(s, m) \/ e = m
  BY <1>1 DEF Holds
<1>3. Once(s, m) /\ ~(Holds(s, m) /\ e = m) => Once(r, m)
  BY <1>1 DEF Holds, Once
<1> QED BY <1>2, <1>3 DEF r

LEMMA HoldsConcat ==
  ASSUME NEW S, NEW s \in Seq(S), NEW r \in Seq(S), NEW m
  PROVE  /\ Holds(s \o r, m) <=> Holds(s, m) \/ Holds(r, m)
         /\ Once(s, m) /\ Once(r, m) /\ ~(Holds(s, m) /\ Holds(r, m)) => Once(s \o r, m)
<1> DEFINE t == s \o r
<1>1. /\ DOMAIN s = 1..Len(s) /\ DOMAIN r = 1..Len(r) /\ DOMAIN t = 1..(Len(s) + Len(r))
      /\ Len(s) \in Nat /\ Len(r) \in Nat
      /\ \A i \in 1..Len(s) : t[i] = s[i]
      /\ \A i \in 1..(Len(s) + Len(r)) : i > Len(s) => t[i] = r[i - Len(s)]
  OBVIOUS
<1> HIDE DEF t
<1>2. \A i \in DOMAIN t : \/ i \in DOMAIN s /\ t[i] = s[i]
                          \/ i > Len(s) /\ i - Len(s) \in DOMAIN r /\ t[i] = r[i - Len(s)]
  BY <1>1
<1>3. \A i \in DOMAIN r : Len(s) + i \in DOMAIN t /\ t[Len(s) + i] = r[i]
  <2> TAKE i \in DOMAIN r
  <2>1. Len(s) + i \in 1..(Len(s) + Len(r)) /\ Len(s) + i > Len(s) /\ (Len(s) + i) - Len(s) = i
    BY <1>1
  <2> QED BY <1>1, <2>1
<1>4. \A i \in DOMAIN s : i \in DOMAIN t /\ t[i] = s[i]
  BY <1>1
<1>5. Holds(t, m) <=> Holds(s, m) \/ Holds(r, m)
  BY <1>2, <1>3, <1>4 DEF Holds
<1>6. ASSUME Once(s, m), Once(r, m), ~(Holds(s, m) /\ Holds(r, m)) PROVE Once(t, m)
  <2> SUFFICES ASSUME NEW i \in DOMAIN t, NEW j \in DOMAIN t, t[i] = m, t[j] = m PROVE i = j
    BY DEF Once
  <2>1. i \in Int /\ j \in Int
    BY <1>1
  <2>2. CASE i \in DOMAIN s /\ t[i] = s[i]
    BY <1>2, <1>6, <2>2 DEF Holds, Once
  <2>3. CASE i > Len(s) /\ i - Len(s) \in DOMAIN r /\ t[i] = r[i - Len(s)]
    <3>1. j - Len(s) \in DOMAIN r /\ t[j] = r[j - Len(s)]
      BY <1>2, <1>6, <2>3 DEF Holds
    <3>2. i - Len(s) = j - Len(s)
      BY <1>6, <2>3, <3>1 DEF Once
    <3> QED BY <1>1, <2>1, <3>2
  <2> QED BY <1>2, <2>2, <2>3
<1> QED BY <1>5, <1>6 DEF t

LEMMA HoldsTail ==
  ASSUME NEW S, NEW s \in Seq(S), s # <<>>, NEW m, Once(s, m)
  PROVE  /\ Holds(s, m) <=> Holds(<<Head(s)>>, m) \/ Holds(Tail(s), m)
         /\ Once(Tail(s), m) /\ Once(<<Head(s)>>, m)
         /\ ~(Holds(<<Head(s)>>, m) /\ Holds(Tail(s), m))
<1> DEFINE r == Tail(s)
<1> DEFINE h == <<Head(s)>>
<1>1. /\ DOMAIN s = 1..Len(s) /\ DOMAIN r = 1..(Len(s) - 1) /\ Len(s) \in Nat \ {0}
      /\ \A i \in 1..(Len(s) - 1) : r[i] = s[i + 1]
      /\ DOMAIN h = {1} /\ h[1] = s[1]
  OBVIOUS
<1> HIDE DEF r, h
<1>2. \A i \in DOMAIN r : i + 1 \in DOMAIN s /\ i + 1 # 1 /\ r[i] = s[i + 1] /\ i \in Int
  BY <1>1
<1>3. \A i \in DOMAIN s : i # 1 => i - 1 \in DOMAIN r /\ r[i - 1] = s[i]
  <2> SUFFICES ASSUME NEW i \in DOMAIN s, i # 1 PROVE i - 1 \in DOMAIN r /\ r[i - 1] = s[i]
    OBVIOUS
  <2>1. i - 1 \in 1..(Len(s) - 1) /\ (i - 1) + 1 = i
    BY <1>1
  <2> QED BY <1>1, <2>1
<1>4. Holds(s, m) <=> Holds(h, m) \/ Holds(r, m)
  <2>1. ASSUME NEW i \in DOMAIN s, s[i] = m PROVE Holds(h, m) \/ Holds(r, m)
    BY <1>1, <1>3, <2>1 DEF Holds
  <2>2. Holds(h, m) => Holds(s, m)
    <3>1. 1 \in DOMAIN s
      BY <1>1
    <3> QED BY <1>1, <3>1 DEF Holds
  <2>3. Holds(r, m) => Holds(s, m)
    BY <1>2 DEF Holds
  <2> QED BY <2>1, <2>2, <2>3 DEF Holds
<1>5. Once(r, m)
  <2> SUFFICES ASSUME NEW i \in DOMAIN r, NEW j \in DOMAIN r, r[i] = m, r[j] = m PROVE i = j
    BY DEF Once
  <2>1. i + 1 = j + 1 /\ i \in Int /\ j \in Int
    BY <1>2 DEF Once
  <2> QED BY <2>1
<1>6. Once(h, m)
  BY <1>1 DEF Once
<1>7. ~(Holds(h, m) /\ Holds(r, m))
  <2> SUFFICES ASSUME s[1] = m, NEW i \in DOMAIN r, r[i] = m PROVE FALSE
    BY <1>1 DEF Holds
  <2>1. 1 \in DOMAIN s
    BY <1>1
  <2> QED BY <1>2, <2>1 DEF Once
<1> QED BY <1>4, <1>5, <1>6, <1>7 DEF r, h

LEMMA HoldsRemoved ==
  ASSUME NEW S, NEW s \in Seq(S), NEW i \in DOMAIN s, NEW m, Once(s, m)
  PROVE  /\ Holds(RemoveAt(s, i), m) <=> Holds(s, m) /\ s[i] # m
         /\ Once(RemoveAt(s, i), m)
<1> DEFINE r == RemoveAt(s, i)
<1> DEFINE a == SubSeq(s, 1, i - 1)
<1> DEFINE b == SubSeq(s, i + 1, Len(s))
<1>0. i \in 1..Len(s) /\ Len(s) \in Nat /\ DOMAIN s = 1..Len(s)
  OBVIOUS
<1>1. /\ a \in Seq(S) /\ Len(a) = i - 1 /\ DOMAIN a = 1..(i - 1)
      /\ \A j \in 1..(i - 1) : a[j] = s[j]
  BY <1>0
<1>2. /\ b \in Seq(S) /\ Len(b) = Len(s) - i /\ DOMAIN b = 1..(Len(s) - i)
      /\ \A j \in 1..(Len(s) - i) : b[j] = s[i + j]
  BY <1>0
<1>3. r = a \o b
  BY DEF RemoveAt
<1> HIDE DEF a, b, r
<1>4. \A j \in DOMAIN a : j \in DOMAIN s /\ j < i /\ a[j] = s[j]
  BY <1>0, <1>1
<1>5. \A j \in DOMAIN b : i + j \in DOMAIN s /\ i + j > i /\ b[j] = s[i + j] /\ j \in Int
  BY <1>0, <1>2
<1>6. \A j \in DOMAIN s : \/ j = i
                          \/ j \in DOMAIN a /\ a[j] = s[j]
                          \/ j - i \in DOMAIN b /\ b[j - i] = s[j]
  <2> TAKE j \in DOMAIN s
  <2>1. CASE j < i
    BY <1>0, <1>1, <2>1
  <2>2. CASE j > i
    <3>1. j - i \in 1..(Len(s) - i) /\ i + (j - i) = j
      BY <1>0, <2>2
    <3> QED BY <1>2, <3>1
  <2> QED BY <1>0, <2>1, <2>2
<1>7. Once(a, m) /\ Once(b, m) /\ ~(Holds(a, m) /\ Holds(b, m))
  <2>1. Once(a, m)
    BY <1>4 DEF Once
  <2>2. Once(b, m)
    <3> SUFFICES ASSUME NEW j \in DOMAIN b, NEW k \in DOMAIN b, b[j] = m, b[k] = m PROVE j = k
      BY DEF Once
    <3>1. i + j = i + k /\ j \in Int /\ k \in Int
      BY <1>5 DEF Once
    <3> QED BY <1>0, <3>1
  <2>3. ~(Holds(a, m) /\ Holds(b, m))
    <3> SUFFICES ASSUME NEW j \in DOMAIN a, NEW k \in DOMAIN b, a[j] = m, b[k] = m PROVE FALSE
      BY DEF Holds
    <3>1. j = i + k
      BY <1>4, <1>5 DEF Once
    <3> QED BY <1>0, <1>1, <1>4, <1>5, <3>1
  <2> QED BY <2>1, <2>2, <2>3
<1>8. Holds(a, m) \/ Holds(b, m) <=> Holds(s, m) /\ s[i] # m
  <2>1. ASSUME NEW j \in DOMAIN a, a[j] = m PROVE Holds(s, m) /\ s[i] # m
    <3>1. j \in DOMAIN s /\ j # i /\ s[j] = m
      BY <1>0, <1>1, <1>4, <2>1
    <3> QED BY <3>1 DEF Holds, Once
  <2>2. ASSUME NEW j \in DOMAIN b, b[j] = m PROVE Holds(s, m) /\ s[i] # m
    <3>1. i + j \in DOMAIN s /\ i + j # i /\ s[i + j] = m
      BY <1>0, <1>5, <2>2
    <3> QED BY <3>1 DEF Holds, Once
  <2>3. ASSUME NEW j \in DOMAIN s, s[j] = m, s[i] # m PROVE Holds(a, m) \/ Holds(b, m)
    BY <1>6, <2>3 DEF Holds
  <2> QED BY <2>1, <2>2, <2>3 DEF Holds
<1>9. /\ Holds(r, m) <=> Holds(a, m) \/ Holds(b, m)
      /\ Once(r, m)
  BY <1>1, <1>2, <1>3, <1>7, HoldsConcat
<1> QED BY <1>8, <1>9 DEF r

LEMMA HoldsReplaced ==
  ASSUME NEW S, NEW s \in Seq(S), NEW i \in DOMAIN s, NEW e, NEW m, Once(s, m), ~Holds(s, e)
  PROVE  /\ Holds([s EXCEPT ![i] = e], m) <=> m = e \/ (Holds(s, m) /\ s[i] # m)
         /\ Once([s EXCEPT ![i] = e], m)
<1> DEFINE r == [s EXCEPT ![i] = e]
<1>1. DOMAIN r = DOMAIN s /\ r[i] = e /\ \A j \in DOMAIN s : j # i => r[j] = s[j]
  OBVIOUS
<1> HIDE DEF r
<1>2. Holds(r, m) <=> m = e \/ (Holds(s, m) /\ s[i] # m)
  BY <1>1 DEF Holds, Once
<1>3. Once(r, m)
  BY <1>1 DEF Holds, Once
<1> QED BY <1>2, <1>3 DEF r

\* A message that is placed counts once.
LEMMA PlacedCounts ==
  ASSUME NEW p, NEW q, NEW b, NEW n, NEW g, NEW k, NEW m, Placed(p, q, b, n, g, k, m)
  PROVE  Cardinality({i \in DOMAIN p : p[i] = m}) + Cardinality({i \in DOMAIN q : q[i] = m})
           + Cardinality({i \in DOMAIN b : b[i] = m}) + n + (IF m \in g THEN 1 ELSE 0)
           = IF m \in k THEN 1 ELSE 0
<1>1. ASSUME NEW s, Once(s, m)
      PROVE  Cardinality({i \in DOMAIN s : s[i] = m}) = IF Holds(s, m) THEN 1 ELSE 0
  <2>1. CASE ~Holds(s, m)
    <3>1. {i \in DOMAIN s : s[i] = m} = {}
      BY <2>1 DEF Holds
    <3> QED BY <2>1, <3>1, FS_EmptySet
  <2>2. CASE Holds(s, m)
    <3>1. PICK i \in DOMAIN s : s[i] = m
      BY <2>2 DEF Holds
    <3>2. {j \in DOMAIN s : s[j] = m} = {i}
      BY <1>1, <3>1 DEF Once
    <3> QED BY <2>2, <3>2, FS_Singleton
  <2> QED BY <2>1, <2>2
<1>2. /\ Cardinality({i \in DOMAIN p : p[i] = m}) = IF Holds(p, m) THEN 1 ELSE 0
      /\ Cardinality({i \in DOMAIN q : q[i] = m}) = IF Holds(q, m) THEN 1 ELSE 0
      /\ Cardinality({i \in DOMAIN b : b[i] = m}) = IF Holds(b, m) THEN 1 ELSE 0
  BY <1>1 DEF Placed
<1> HIDE DEF Holds
<1> QED BY <1>2 DEF Placed

\* What the helpers of the actions do to the place of one message.

LEMMA PlacesKept ==
  ASSUME NEW m \in Messages, PlacedOne(m),
         UNCHANGED <<inbox, batch, firstAttempt, copies, spent, sent>>
  PROVE  PlacedOne(m)'
BY DEF PlacedOne, Unlogged

LEMMA PlacesLists ==
  ASSUME TypeOK
  PROVE  /\ inbox["next-turn"] \in Seq(Messages) /\ inbox["next-step"] \in Seq(Messages)
         /\ batch \in Seq(Messages) /\ Unlogged \in Seq(Messages)
         /\ \A t \in Targets : inbox[t] \in Seq(Messages)
         /\ \A m \in Messages : /\ m \in ToSet(batch) <=> Holds(batch, m)
                                /\ m \in Pending <=> \/ Holds(inbox["next-turn"], m)
                                                     \/ Holds(inbox["next-step"], m)
<1>1. \A t \in Targets : inbox[t] \in Seq(Messages)
  BY DEF TypeOK, InboxOK
<1>2. batch \in Seq(Messages) /\ <<>> \in Seq(Messages)
  BY DEF TypeOK, InboxOK
<1> QED BY <1>1, <1>2 DEF Targets, Unlogged, Holds, ToSet, Pending

\* A claim moves what it takes from the lists into the batch.
LEMMA PlacesClaim ==
  ASSUME TypeOK, NEW m \in Messages, PlacedOne(m), ~firstAttempt,
         NEW t \in Targets, Propose(t), UNCHANGED <<copies, spent, sent>>
  PROVE  PlacedOne(m)'
<1> DEFINE p == inbox["next-turn"]
<1> DEFINE q == inbox["next-step"]
<1> DEFINE taken == IF t = "next-turn" /\ p # <<>> THEN <<Head(p)>> ELSE <<>>
<1> DEFINE rest == IF taken = <<>> THEN p ELSE Tail(p)
<1>1. p \in Seq(Messages) /\ q \in Seq(Messages)
  BY PlacesLists
<1>2. Placed(p, q, <<>>, copies[m], spent, sent, m)
  BY DEF PlacedOne, Unlogged
<1>3. /\ batch' = q \o taken /\ firstAttempt'
      /\ inbox'["next-step"] = <<>> /\ inbox'["next-turn"] = rest
  BY DEF Propose, TypeOK, InboxOK, Targets
<1>4. /\ taken \in Seq(Messages) /\ rest \in Seq(Messages)
      /\ Holds(p, m) <=> Holds(taken, m) \/ Holds(rest, m)
      /\ Once(taken, m) /\ Once(rest, m) /\ ~(Holds(taken, m) /\ Holds(rest, m))
  <2>1. CASE t = "next-turn" /\ p # <<>>
    <3>1. taken = <<Head(p)>> /\ <<Head(p)>> # <<>> /\ Head(p) \in Messages
          /\ Tail(p) \in Seq(Messages)
      BY <1>1, <2>1
    <3>2. rest = Tail(p) /\ taken \in Seq(Messages)
      BY <3>1
    <3> QED BY <1>1, <1>2, <2>1, <3>1, <3>2, HoldsTail DEF Placed
  <2>2. CASE ~(t = "next-turn" /\ p # <<>>)
    <3>1. taken = <<>> /\ rest = p
      BY <2>2
    <3> QED BY <1>1, <1>2, <3>1, HoldsNothing DEF Placed
  <2> QED BY <2>1, <2>2
<1> HIDE DEF p, q, taken, rest
<1>5. /\ Holds(q \o taken, m) <=> Holds(q, m) \/ Holds(taken, m)
      /\ ~(Holds(q, m) /\ Holds(taken, m)) => Once(q \o taken, m)
  BY <1>1, <1>2, <1>4, HoldsConcat DEF Placed
<1>6. Placed(rest, <<>>, q \o taken, copies[m], spent, sent, m)
  BY <1>2, <1>4, <1>5, HoldsNothing DEF Placed
<1> QED BY <1>3, <1>6 DEF PlacedOne, Unlogged

\* What is dropped before it was logged is given up.
LEMMA PlacesDropped ==
  ASSUME TypeOK, NEW m \in Messages, PlacedOne(m), DropBatch,
         UNCHANGED <<inbox, copies, sent>>
  PROVE  PlacedOne(m)'
<1> DEFINE p == inbox["next-turn"]
<1> DEFINE q == inbox["next-step"]
<1>1. Placed(p, q, Unlogged, copies[m], spent, sent, m)
  BY DEF PlacedOne
<1>2. /\ Unlogged' = <<>>
      /\ m \in spent' <=> m \in spent \/ Holds(Unlogged, m)
  BY PlacesLists, HoldsNothing DEF DropBatch, Unlogged
<1> HIDE DEF p, q
<1>3. Placed(p, q, <<>>, copies[m], spent', sent, m)
  BY <1>1, <1>2, HoldsNothing DEF Placed
<1> QED BY <1>2, <1>3 DEF PlacedOne, p, q

\* Once the batch is logged the driver may forget it.
LEMMA PlacesLogged ==
  ASSUME NEW m \in Messages, PlacedOne(m), ~firstAttempt, ~firstAttempt',
         UNCHANGED <<inbox, copies, spent, sent>>
  PROVE  PlacedOne(m)'
BY DEF PlacedOne, Unlogged

LEMMA PlacesEntered ==
  ASSUME TypeOK, NEW m \in Messages, PlacedOne(m), firstAttempt, NEW kept \in BOOLEAN,
         PreStepEnters(kept)
  PROVE  PlacedOne(m)'
<1> DEFINE p == inbox["next-turn"]
<1> DEFINE q == inbox["next-step"]
<1>1. Placed(p, q, batch, copies[m], spent, sent, m)
  BY DEF PlacedOne, Unlogged
<1>2. /\ Unlogged' = IF kept THEN batch ELSE <<>>
      /\ m \in spent' <=> m \in spent \/ (~kept /\ Holds(batch, m))
      /\ UNCHANGED <<inbox, copies, sent>>
  BY PlacesLists DEF PreStepEnters, Unlogged
<1> HIDE DEF p, q
<1>3. Placed(p, q, IF kept THEN batch ELSE <<>>, copies[m], spent', sent, m)
  <2>1. CASE kept
    BY <1>1, <1>2, <2>1 DEF Placed
  <2>2. CASE ~kept
    BY <1>1, <1>2, <2>2, HoldsNothing DEF Placed
  <2> QED BY <2>1, <2>2
<1> QED BY <1>2, <1>3 DEF PlacedOne, p, q

\* The first attempt logs the batch, a retried one does not.
LEMMA PlacesAdmitted ==
  ASSUME TypeOK, NEW m \in Messages, PlacedOne(m), Admit
  PROVE  PlacedOne(m)'
<1> DEFINE p == inbox["next-turn"]
<1> DEFINE q == inbox["next-step"]
<1>1. Placed(p, q, Unlogged, copies[m], spent, sent, m) /\ copies[m] \in Nat
  BY DEF PlacedOne, TypeOK, HistoryOK
<1>2. /\ Unlogged' = <<>> /\ UNCHANGED <<inbox, spent, sent>>
      /\ copies'[m] = IF firstAttempt /\ m \in ToSet(batch) THEN copies[m] + 1 ELSE copies[m]
  BY DEF Admit, Unlogged
<1>3. copies'[m] = IF Holds(Unlogged, m) THEN copies[m] + 1 ELSE copies[m]
  BY <1>2, PlacesLists, HoldsNothing DEF Unlogged
<1> HIDE DEF p, q
<1>4. Placed(p, q, <<>>, copies'[m], spent, sent, m)
  BY <1>1, <1>3, HoldsNothing DEF Placed
<1> QED BY <1>2, <1>4 DEF PlacedOne, p, q

LEMMA PlacesEnqueued ==
  ASSUME TypeOK, NEW m \in Messages, PlacedOne(m), NEW e \in Messages, NEW t \in Targets,
         NEW wakeup \in BOOLEAN, Enqueue(e, t, wakeup)
  PROVE  PlacedOne(m)'
<1> DEFINE p == inbox["next-turn"]
<1> DEFINE q == inbox["next-step"]
<1> DEFINE u == IF WakingAfterAbort(wakeup) THEN "next-turn" ELSE t
<1>1. Placed(p, q, Unlogged, copies[m], spent, sent, m) /\ e \notin sent
  BY DEF PlacedOne, Enqueue
<1>2. p \in Seq(Messages) /\ q \in Seq(Messages) /\ inbox \in [Targets -> Seq(Messages)]
  BY PlacesLists DEF TypeOK, InboxOK
<1>3. /\ Unlogged' = Unlogged /\ UNCHANGED <<copies, spent>> /\ sent' = sent \cup {e}
      /\ inbox' = [inbox EXCEPT ![u] = Append(inbox[u], e)]
  BY DEF Enqueue, Unlogged
<1>4. u \in Targets
  BY DEF Targets
<1>5. /\ Holds(Append(p, e), m) <=> Holds(p, m) \/ e = m
      /\ Once(p, m) /\ ~(Holds(p, m) /\ e = m) => Once(Append(p, e), m)
      /\ Holds(Append(q, e), m) <=> Holds(q, m) \/ e = m
      /\ Once(q, m) /\ ~(Holds(q, m) /\ e = m) => Once(Append(q, e), m)
  <2> HIDE DEF p, q
  <2> QED BY <1>2, HoldsAppend
<1> HIDE DEF u
<1>6. CASE u = "next-turn"
  <2>1. inbox'["next-turn"] = Append(p, e) /\ inbox'["next-step"] = q
    BY <1>2, <1>3, <1>6 DEF Targets
  <2> HIDE DEF p, q
  <2>2. Placed(Append(p, e), q, Unlogged, copies[m], spent, sent \cup {e}, m)
    BY <1>1, <1>5 DEF Placed
  <2> QED BY <1>3, <2>1, <2>2 DEF PlacedOne
<1>7. CASE u = "next-step"
  <2>1. inbox'["next-step"] = Append(q, e) /\ inbox'["next-turn"] = p
    BY <1>2, <1>3, <1>7 DEF Targets
  <2> HIDE DEF p, q
  <2>2. Placed(p, Append(q, e), Unlogged, copies[m], spent, sent \cup {e}, m)
    BY <1>1, <1>5 DEF Placed
  <2> QED BY <1>3, <2>1, <2>2 DEF PlacedOne
<1> QED BY <1>4, <1>6, <1>7 DEF Targets

LEMMA PlacesCleared ==
  ASSUME TypeOK, NEW m \in Messages, PlacedOne(m), ClearInbox,
         UNCHANGED <<batch, firstAttempt, copies, sent>>
  PROVE  PlacedOne(m)'
<1> DEFINE p == inbox["next-turn"]
<1> DEFINE q == inbox["next-step"]
<1>1. Placed(p, q, Unlogged, copies[m], spent, sent, m)
  BY DEF PlacedOne
<1>2. /\ Unlogged' = Unlogged /\ inbox'["next-turn"] = <<>> /\ inbox'["next-step"] = <<>>
      /\ m \in spent' <=> m \in spent \/ Holds(p, m) \/ Holds(q, m)
  BY PlacesLists DEF ClearInbox, Unlogged, Targets
<1> HIDE DEF p, q
<1>3. Placed(<<>>, <<>>, Unlogged, copies[m], spent', sent, m)
  BY <1>1, <1>2, HoldsNothing DEF Placed
<1> QED BY <1>2, <1>3 DEF PlacedOne

LEMMA PlacesRemoved ==
  ASSUME TypeOK, NEW m \in Messages, PlacedOne(m), RemovePending
  PROVE  PlacedOne(m)'
<1> DEFINE p == inbox["next-turn"]
<1> DEFINE q == inbox["next-step"]
<1>0. PICK t \in Targets : \E i \in DOMAIN inbox[t] :
        /\ inbox' = [inbox EXCEPT ![t] = RemoveAt(inbox[t], i)]
        /\ spent' = spent \cup {inbox[t][i]}
  BY DEF RemovePending
<1>1. PICK i \in DOMAIN inbox[t] :
        /\ inbox' = [inbox EXCEPT ![t] = RemoveAt(inbox[t], i)]
        /\ spent' = spent \cup {inbox[t][i]}
  BY <1>0
<1>2. Placed(p, q, Unlogged, copies[m], spent, sent, m)
  BY DEF PlacedOne
<1>3. p \in Seq(Messages) /\ q \in Seq(Messages) /\ inbox \in [Targets -> Seq(Messages)]
  BY PlacesLists DEF TypeOK, InboxOK
<1>4. Unlogged' = Unlogged /\ UNCHANGED <<copies, sent>>
  BY DEF RemovePending, Unlogged
<1>5. CASE t = "next-turn"
  <2>1. /\ i \in DOMAIN p /\ spent' = spent \cup {p[i]}
        /\ inbox'["next-turn"] = RemoveAt(p, i) /\ inbox'["next-step"] = q
    BY <1>1, <1>3, <1>5 DEF Targets
  <2> HIDE DEF p, q
  <2>2. /\ Holds(RemoveAt(p, i), m) <=> Holds(p, m) /\ p[i] # m
        /\ Once(RemoveAt(p, i), m) /\ (p[i] = m => Holds(p, m))
    <3>1. /\ Once(p, m) /\ (p[i] = m => Holds(p, m))
          /\ i \in DOMAIN p /\ p \in Seq(Messages)
      BY <1>2, <1>3, <2>1 DEF Placed, Holds
    <3> QED BY <3>1, HoldsRemoved
  <2>3. Placed(RemoveAt(p, i), q, Unlogged, copies[m], spent \cup {p[i]}, sent, m)
    BY <1>2, <2>2 DEF Placed
  <2> QED BY <1>4, <2>1, <2>3 DEF PlacedOne
<1>6. CASE t = "next-step"
  <2>1. /\ i \in DOMAIN q /\ spent' = spent \cup {q[i]}
        /\ inbox'["next-step"] = RemoveAt(q, i) /\ inbox'["next-turn"] = p
    BY <1>1, <1>3, <1>6 DEF Targets
  <2> HIDE DEF p, q
  <2>2. /\ Holds(RemoveAt(q, i), m) <=> Holds(q, m) /\ q[i] # m
        /\ Once(RemoveAt(q, i), m) /\ (q[i] = m => Holds(q, m))
    <3>1. /\ Once(q, m) /\ (q[i] = m => Holds(q, m))
          /\ i \in DOMAIN q /\ q \in Seq(Messages)
      BY <1>2, <1>3, <2>1 DEF Placed, Holds
    <3> QED BY <3>1, HoldsRemoved
  <2>3. Placed(p, RemoveAt(q, i), Unlogged, copies[m], spent \cup {q[i]}, sent, m)
    BY <1>2, <2>2 DEF Placed
  <2> QED BY <1>4, <2>1, <2>3 DEF PlacedOne
<1> QED BY <1>0, <1>5, <1>6 DEF Targets

LEMMA PlacesReplaced ==
  ASSUME TypeOK, NEW m \in Messages, \A d \in Messages : PlacedOne(d), NEW e \in Messages,
         ReplacePending(e)
  PROVE  PlacedOne(m)'
<1> DEFINE p == inbox["next-turn"]
<1> DEFINE q == inbox["next-step"]
<1>0. PICK t \in Targets : \E i \in DOMAIN inbox[t] :
        /\ inbox' = [inbox EXCEPT ![t] = [inbox[t] EXCEPT ![i] = e]]
        /\ spent' = spent \cup {inbox[t][i]} /\ sent' = sent \cup {e}
  BY DEF ReplacePending
<1>1. PICK i \in DOMAIN inbox[t] :
        /\ inbox' = [inbox EXCEPT ![t] = [inbox[t] EXCEPT ![i] = e]]
        /\ spent' = spent \cup {inbox[t][i]} /\ sent' = sent \cup {e}
  BY <1>0
<1>2. /\ Placed(p, q, Unlogged, copies[m], spent, sent, m)
      /\ Placed(p, q, Unlogged, copies[e], spent, sent, e) /\ e \notin sent
  BY DEF PlacedOne, ReplacePending
<1>3. p \in Seq(Messages) /\ q \in Seq(Messages) /\ inbox \in [Targets -> Seq(Messages)]
  BY PlacesLists DEF TypeOK, InboxOK
<1>4. Unlogged' = Unlogged /\ UNCHANGED copies
  BY DEF ReplacePending, Unlogged
<1>5. ~Holds(p, e) /\ ~Holds(q, e) /\ ~Holds(Unlogged, e) /\ copies[e] = 0 /\ e \notin spent
  BY <1>2 DEF Placed
<1>6. CASE t = "next-turn"
  <2>1. /\ i \in DOMAIN p /\ spent' = spent \cup {p[i]}
        /\ inbox'["next-turn"] = [p EXCEPT ![i] = e] /\ inbox'["next-step"] = q
    BY <1>1, <1>3, <1>6 DEF Targets
  <2> HIDE DEF p, q
  <2>2. /\ Holds([p EXCEPT ![i] = e], m) <=> m = e \/ (Holds(p, m) /\ p[i] # m)
        /\ Once([p EXCEPT ![i] = e], m) /\ (p[i] = m => Holds(p, m))
    <3>1. Once(p, m) /\ (p[i] = m => Holds(p, m)) /\ i \in DOMAIN p /\ p \in Seq(Messages)
      BY <1>2, <1>3, <2>1 DEF Placed, Holds
    <3> QED BY <1>5, <3>1, HoldsReplaced
  <2>3. Placed([p EXCEPT ![i] = e], q, Unlogged, copies[m], spent \cup {p[i]}, sent \cup {e}, m)
    BY <1>2, <1>5, <2>2 DEF Placed
  <2> QED BY <1>1, <1>4, <2>1, <2>3 DEF PlacedOne
<1>7. CASE t = "next-step"
  <2>1. /\ i \in DOMAIN q /\ spent' = spent \cup {q[i]}
        /\ inbox'["next-step"] = [q EXCEPT ![i] = e] /\ inbox'["next-turn"] = p
    BY <1>1, <1>3, <1>7 DEF Targets
  <2> HIDE DEF p, q
  <2>2. /\ Holds([q EXCEPT ![i] = e], m) <=> m = e \/ (Holds(q, m) /\ q[i] # m)
        /\ Once([q EXCEPT ![i] = e], m) /\ (q[i] = m => Holds(q, m))
    <3>1. Once(q, m) /\ (q[i] = m => Holds(q, m)) /\ i \in DOMAIN q /\ q \in Seq(Messages)
      BY <1>2, <1>3, <2>1 DEF Placed, Holds
    <3> QED BY <1>5, <3>1, HoldsReplaced
  <2>3. Placed(p, [q EXCEPT ![i] = e], Unlogged, copies[m], spent \cup {q[i]}, sent \cup {e}, m)
    BY <1>2, <1>5, <2>2 DEF Placed
  <2> QED BY <1>1, <1>4, <2>1, <2>3 DEF PlacedOne
<1> QED BY <1>0, <1>6, <1>7 DEF Targets

LEMMA BatchInvPreserved ==
  ASSUME IInv, BatchInv, Next PROVE BatchInv'
<1>1. CASE TurnSteps
  <2>1. CASE TurnNotOpened \/ OpenTurn
    BY <2>1 DEF TurnNotOpened, OpenTurn, BatchInv
  <2>2. CASE FirstClaim
    BY <2>2 DEF FirstClaim, Raise, CloseTurn, Propose, BatchInv
  <2>3. CASE PreStepFails \/ PreStepRejects \/ PreStepEntersEmpty
    BY <2>3 DEF PreStepFails, PreStepRejects, PreStepEntersEmpty, Raise,
       CloseTurn, DropBatch, BatchInv
  <2>4. ASSUME NEW kept \in BOOLEAN, PreStepEnters(kept)
        PROVE  BatchInv'
    BY <2>4 DEF PreStepEnters, BatchInv
  <2>5. CASE CloseRejected \/ CloseEmptied
    BY <2>5 DEF CloseRejected, CloseEmptied, CloseTurn, BatchInv
  <2>6. CASE OpenStep
    BY <2>6 DEF OpenStep, BatchInv
  <2> QED BY <1>1, <2>1, <2>2, <2>3, <2>4, <2>5, <2>6 DEF TurnSteps
<1>2. CASE RequestSteps
  BY <1>2 DEF RequestSteps, StepFails, Configured, Admit, Launch, AttemptFails, Retry,
     GiveUp, ModelFinishes, ModelCallsTools, ToolsReturn, StepThrows,
     DropBatch, StepReturns, BatchInv
<1>3. CASE BoundarySteps
  BY <1>3 DEF BoundarySteps, StepBoundary, Stopped, StoppingFails,
     CloseFailedTurn, TurnContinues, TurnLeaves, Retire, Raise, CloseTurn,
     Propose, BatchInv
<1>4. CASE Unwind
  <2>1. ASSUME NEW waking \in BOOLEAN, WakeDriver(waking), UNCHANGED firstAttempt
        PROVE  BatchInv'
    BY <2>1 DEF WakeDriver, StartDriver, IInv, PhaseInv, BatchInv
  <2>2. CASE SendEnd
    BY <2>1, <2>2 DEF SendEnd, IInv, TypeOK, DriverOK, Frames
  <2>3. CASE CancelEnd
    BY <2>3 DEF CancelEnd, AbortActivity, Silences, BatchInv
  <2>4. CASE RetireEnd
    BY <2>1, <2>4 DEF RetireEnd, BatchInv
  <2>5. CASE MaintenanceEnd
    BY <2>5 DEF MaintenanceEnd, StartDriver, IInv, PhaseInv, BatchInv
  <2> QED BY <1>4, <2>2, <2>3, <2>4, <2>5 DEF Unwind
<1>5. CASE Callers
  <2>1. ASSUME NEW m \in Messages, NEW t \in Targets, SendBegin(m, t)
        PROVE  BatchInv'
    BY <2>1 DEF SendBegin, Enqueue, BatchInv
  <2>2. ASSUME NEW m \in Messages, NEW t \in Targets, SendReentrant(m, t)
        PROVE  BatchInv'
    BY <2>2 DEF SendReentrant, Enqueue, WakeDriver, StartDriver, IInv,
       PhaseInv, BatchInv
  <2>3. ASSUME NEW m \in Messages, Inject(m) \/ ReplacePending(m)
        PROVE  BatchInv'
    <3>1. UNCHANGED <<pc, firstAttempt>>
      BY <2>3, Zenon DEF Inject, ReplacePending, Enqueue
    <3> QED BY <3>1 DEF BatchInv
  <2>4. CASE RemovePending \/ StartMaintenance
    BY <2>4 DEF RemovePending, StartMaintenance, BatchInv
  <2>5. ASSUME NEW c \in Causes, NEW keep \in BOOLEAN, CancelDirect(c, keep)
        PROVE  BatchInv'
    BY <2>5 DEF CancelDirect, AbortActivity, Silences, BatchInv
  <2>6. ASSUME NEW c \in Causes, CancelBegin(c) \/ CancelReentrant(c)
        PROVE  BatchInv'
    BY <2>6 DEF CancelBegin, CancelReentrant, AbortActivity, Silences, BatchInv
  <2> QED BY <1>5, <2>1, <2>2, <2>3, <2>4, <2>5, <2>6 DEF Callers
<1> QED BY <1>1, <1>2, <1>3, <1>4, <1>5 DEF Next, Driver

\* Each action treats a message as one of the cases above.
LEMMA PlacePreserved ==
  ASSUME IInv, PlaceInv, Next, NEW m \in Messages PROVE PlacedOne(m)'
<1>1. TypeOK /\ BatchInv /\ PlacedOne(m) /\ \A d \in Messages : PlacedOne(d)
  BY DEF IInv, PlaceInv
<1>2. ASSUME NEW t \in Targets, Propose(t), UNCHANGED <<copies, spent, sent>>,
             pc \in {"opened", "stepClosed", "stopping"}
      PROVE  PlacedOne(m)'
  BY <1>1, <1>2, PlacesClaim DEF BatchInv
<1>3. CASE TurnSteps
  <2>1. CASE TurnNotOpened \/ OpenTurn
    BY <1>1, <2>1, PlacesKept DEF TurnNotOpened, OpenTurn
  <2>2. CASE FirstClaim
    BY <1>1, <1>2, <2>2, PlacesKept DEF FirstClaim, Targets
  <2>3. CASE PreStepFails \/ PreStepRejects \/ PreStepEntersEmpty
    BY <1>1, <2>3, PlacesDropped DEF PreStepFails, PreStepRejects, PreStepEntersEmpty
  <2>4. ASSUME NEW kept \in BOOLEAN, PreStepEnters(kept) PROVE PlacedOne(m)'
    <3>1. firstAttempt
      BY <1>1, <2>4 DEF PreStepEnters, BatchInv
    <3> QED BY <1>1, <2>4, <3>1, PlacesEntered
  <2>5. CASE CloseRejected \/ CloseEmptied \/ OpenStep
    BY <1>1, <2>5, PlacesKept DEF CloseRejected, CloseEmptied, OpenStep
  <2> QED BY <1>3, <2>1, <2>2, <2>3, <2>4, <2>5 DEF TurnSteps
<1>4. CASE RequestSteps
  <2>1. CASE StepFails \/ GiveUp
    BY <1>1, <2>1, PlacesDropped DEF StepFails, GiveUp, StepThrows
  <2>2. CASE Admit
    BY <1>1, <2>2, PlacesAdmitted
  <2>3. CASE Configured \/ Launch \/ AttemptFails \/ Retry \/ ModelCallsTools
    BY <1>1, <2>3, PlacesKept DEF Configured, Launch, AttemptFails, Retry, ModelCallsTools
  <2>4. ASSUME NEW end \in {"completed", "max-tokens", "none"},
               ModelFinishes(end) \/ ToolsReturn(end)
        PROVE  PlacedOne(m)'
    <3>1. ~firstAttempt /\ UNCHANGED <<firstAttempt, inbox, copies, spent, sent>>
      BY <1>1, <2>4 DEF ModelFinishes, ToolsReturn, StepReturns, BatchInv
    <3> QED BY <1>1, <3>1, PlacesLogged
  <2> QED BY <1>4, <2>1, <2>2, <2>3, <2>4 DEF RequestSteps
<1>5. CASE BoundarySteps
  <2>1. CASE StepBoundary
    BY <1>1, <1>2, <2>1, PlacesKept DEF StepBoundary, Targets
  <2>2. CASE Stopped
    BY <1>1, <1>2, <2>2, PlacesKept DEF Stopped, Targets
  <2>3. CASE StoppingFails \/ CloseFailedTurn
    BY <1>1, <2>3, PlacesKept DEF StoppingFails, CloseFailedTurn
  <2>4. CASE TurnContinues \/ TurnLeaves \/ Retire
    BY <1>1, <2>4, PlacesKept DEF TurnContinues, TurnLeaves, Retire
  <2> QED BY <1>5, <2>1, <2>2, <2>3, <2>4 DEF BoundarySteps
<1>6. CASE Unwind
  BY <1>1, <1>6, PlacesKept DEF Unwind, SendEnd, CancelEnd, RetireEnd, MaintenanceEnd
<1>7. CASE Callers
  <2>1. ASSUME NEW e \in Messages, NEW t \in Targets, SendBegin(e, t) \/ SendReentrant(e, t)
        PROVE  PlacedOne(m)'
    BY <1>1, <2>1, PlacesEnqueued DEF SendBegin, SendReentrant
  <2>2. ASSUME NEW e \in Messages, Inject(e) PROVE PlacedOne(m)'
    BY <1>1, <2>2, PlacesEnqueued DEF Inject, Targets
  <2>3. ASSUME NEW e \in Messages, ReplacePending(e) PROVE PlacedOne(m)'
    BY <1>1, <2>3, PlacesReplaced
  <2>4. CASE RemovePending
    BY <1>1, <2>4, PlacesRemoved
  <2>5. ASSUME NEW c \in Causes, NEW keep \in BOOLEAN, CancelDirect(c, keep)
        PROVE  PlacedOne(m)'
    BY <1>1, <2>5, PlacesKept DEF CancelDirect
  <2>6. ASSUME NEW c \in Causes, CancelBegin(c) \/ CancelReentrant(c) PROVE PlacedOne(m)'
    BY <1>1, <2>6, PlacesCleared DEF CancelBegin, CancelReentrant
  <2>7. CASE StartMaintenance
    BY <1>1, <2>7, PlacesKept DEF StartMaintenance
  <2> QED BY <1>7, <2>1, <2>2, <2>3, <2>4, <2>5, <2>6, <2>7 DEF Callers
<1> QED BY <1>3, <1>4, <1>5, <1>6, <1>7 DEF Next, Driver

LEMMA PlaceInvPreserved == IInv /\ PlaceInv /\ [Next]_vars => PlaceInv'
<1> SUFFICES ASSUME IInv, PlaceInv, [Next]_vars PROVE PlaceInv'
  OBVIOUS
<1>1. CASE Next
  <2>1. BatchInv'
    BY <1>1, BatchInvPreserved DEF PlaceInv
  <2>2. ASSUME NEW m \in Messages PROVE PlacedOne(m)'
    BY <1>1, PlacePreserved
  <2> QED BY <2>1, <2>2 DEF PlaceInv
<1>2. CASE UNCHANGED vars
  <2>1. BatchInv'
    BY <1>2 DEF vars, PlaceInv, BatchInv
  <2>2. ASSUME NEW m \in Messages PROVE PlacedOne(m)'
    BY <1>2, PlacesKept DEF vars, PlaceInv
  <2> QED BY <2>1, <2>2 DEF PlaceInv
<1> QED BY <1>1, <1>2

LEMMA InitPlaceInv == Init => PlaceInv
<1> SUFFICES ASSUME Init PROVE PlaceInv
  OBVIOUS
<1>1. BatchInv
  BY DEF Init, BatchInv
<1>2. ASSUME NEW m \in Messages PROVE PlacedOne(m)
  <2>1. /\ inbox["next-turn"] = <<>> /\ inbox["next-step"] = <<>> /\ Unlogged = <<>>
        /\ copies[m] = 0 /\ spent = {} /\ sent = {}
    BY DEF Init, Targets, Unlogged
  <2> QED BY <2>1, HoldsNothing DEF PlacedOne, Placed
<1> QED BY <1>1, <1>2 DEF PlaceInv

\* Every message that was sent is in exactly one place (see MessageConserved),
\* whoever sends, removes, replaces, cancels or fails, for any set of messages.
THEOREM MessageConservedAlways == Spec => []MessageConserved
<1>1. PlaceInv => MessageConserved
  <2> SUFFICES ASSUME PlaceInv, NEW m \in Messages
               PROVE  LET places(s) == Cardinality({i \in DOMAIN s : s[i] = m})
                      IN  places(inbox["next-turn"]) + places(inbox["next-step"])
                            + (IF firstAttempt THEN places(batch) ELSE 0)
                            + copies[m] + (IF m \in spent THEN 1 ELSE 0)
                          = IF m \in sent THEN 1 ELSE 0
    BY DEF MessageConserved
  <2> DEFINE places(s) == Cardinality({i \in DOMAIN s : s[i] = m})
  <2>1. Placed(inbox["next-turn"], inbox["next-step"], Unlogged, copies[m], spent, sent, m)
    BY DEF PlaceInv, PlacedOne
  <2>2. places(inbox["next-turn"]) + places(inbox["next-step"]) + places(Unlogged)
          + copies[m] + (IF m \in spent THEN 1 ELSE 0) = IF m \in sent THEN 1 ELSE 0
    BY <2>1, PlacedCounts
  <2>3. places(Unlogged) = IF firstAttempt THEN places(batch) ELSE 0
    <3>1. {i \in DOMAIN <<>> : <<>>[i] = m} = {}
      OBVIOUS
    <3> QED BY <3>1, FS_EmptySet DEF Unlogged
  <2> HIDE DEF places
  <2>4. places(inbox["next-turn"]) + places(inbox["next-step"])
          + (IF firstAttempt THEN places(batch) ELSE 0)
          + copies[m] + (IF m \in spent THEN 1 ELSE 0) = IF m \in sent THEN 1 ELSE 0
    BY <2>2, <2>3
  <2> QED BY <2>4 DEF places
<1> QED BY <1>1, Invariance, InitPlaceInv, PlaceInvPreserved, PTL DEF Spec
=============================================================================
