--------------------------- MODULE ToolCalls_proofs ---------------------------
(***************************************************************************)
(* Proofs about ToolCalls, for any number of calls and any size of the     *)
(* pool.                                                                   *)
(*                                                                         *)
(* The argument is one inductive invariant:                                *)
(*   PlainTypes  the types of everything but the log's trace;              *)
(*   PlaceInv    where the group's counters stand at each place of the     *)
(*               scheduler, and what its own flags are worth there;        *)
(*   PoolInv     a running dispatch is in the pool, the pool is within     *)
(*               its limit and an exclusive call is alone in it;           *)
(*   CallInv     what is known of a call from its stage and its slot;      *)
(*   LogInv      the answers are the calls 1, 2, 3 and so on, as far as    *)
(*               the scheduler has come, and the trace agrees.             *)
(* HonestInv, on top of them, needs wrappers that ask for one body.        *)
(***************************************************************************)
EXTENDS ToolCalls, TLAPS, FiniteSetTheorems, SequenceTheorems

Preparing == {"prepare"} \cup Returned
InGroup == Preparing \cup {"fill", "started", "commit", "finalize", "race"}
Busy    == {"wrapper", "body"}

PlainTypes ==
  /\ pc \in Awaits \cup Sync
  /\ mode \in Modes
  /\ first \in 1..(NCalls + 1) /\ index \in 1..(NCalls + 1)
  /\ committed \in 0..NCalls
  /\ aborted \in BOOLEAN /\ failed \in BOOLEAN /\ signal \in BOOLEAN
  /\ inFlight \subseteq Calls
  /\ stage \in [Calls -> {"none", "settled"} \cup Busy]
  /\ tries \in [Calls -> 0..MaxTries]
  /\ got \in [Calls -> Outcomes \cup {"none"}]
  /\ invoked \in [Calls -> BOOLEAN]
  /\ slots \in [Calls -> Slots]
  /\ called \subseteq Calls
  /\ answers \in Seq(Calls)
  /\ disowned \subseteq Calls

PlaceInv ==
  /\ aborted => signal
  /\ pc \in InGroup => /\ first <= NCalls /\ first <= index /\ index <= Last + 1
                       /\ committed < index
  /\ pc \in Preparing => index <= Last
  /\ pc = "fill" => ~failed /\ (aborted <=> signal) /\ ~Ready
  /\ pc = "finalize" => Ready
  /\ pc = "classify" => ~failed /\ committed + 1 = index
  /\ pc \in {"classify", "skip"} => inFlight = {}

PoolInv ==
  /\ \A c \in Calls : stage[c] \in Busy => c \in inFlight
  /\ \A c \in inFlight : c < index
  /\ ExclusiveAlone
  /\ Cardinality(inFlight) <= MaxParallel
  /\ pc \in Preparing => Cardinality(inFlight) < MaxParallel
  /\ pc \in {"recover", "closed"} => \A c \in Calls : stage[c] \notin Busy

CallInv ==
  /\ \A c \in Calls : c >= index => stage[c] = "none" /\ slots[c] = Empty /\ ~invoked[c]
  /\ \A c \in Calls : slots[c].result # "none" => stage[c] \notin Busy
  /\ pc \notin {"skip", "closed"} => \A c \in Calls :
       c < index => slots[c].result # "none" \/ stage[c] \in Busy \/ failed

Answered == Len(answers)

\* The trace of a log whose step is open, with these calls unanswered.
OpenTrace(P) ==
  [openTurn |-> 1, openStep |-> 1, nextTurn |-> 1, nextStep |-> 1, pending |-> P]
ClosedTrace ==
  [openTurn |-> 1, openStep |-> Closed, nextTurn |-> 1, nextStep |-> 2, pending |-> {}]

LogInv ==
  /\ refused = FALSE
  /\ \A i \in 1..Answered : answers[i] = i
  /\ Answered <= NCalls
  /\ pc \in InGroup \cup {"classify"} => Answered = committed
  /\ pc = "skip" => Answered + 1 = index
  /\ pc = "closed" => Answered = NCalls
  /\ \/ called = 1..(index - 1) /\ pc \notin Preparing
     \/ called = 1..index /\ pc \in Preparing \cup {"draining", "recover", "closed"}
  /\ trace = IF pc = "closed" THEN ClosedTrace ELSE OpenTrace(called \ 1..Answered)

IInv == PlainTypes /\ PlaceInv /\ PoolInv /\ CallInv /\ LogInv

HonestInv ==
  /\ \A c \in Calls : stage[c] \notin Busy => tries[c] = 0 /\ got[c] = "none"
  /\ \A c \in Calls : stage[c] = "body" => invoked[c] /\ tries[c] = 1
  /\ \A c \in Calls : stage[c] = "wrapper" /\ tries[c] = 0 => ~invoked[c] /\ got[c] = "none"
  /\ \A c \in Calls : got[c] = "undispatched" => ~invoked[c]
  /\ \A c \in Calls : slots[c].result = "undispatched" => ~invoked[c]
  /\ \A c \in disowned : ~invoked[c] /\ stage[c] \notin Busy
  /\ pc # "closed" /\ pc # "recover" => \A c \in disowned : c <= Answered

USE SizesAssumption
USE DEF groupVars, pipelineVars, logVars, Preparing, Returned

-----------------------------------------------------------------------------
(* What an accepted event does to the log.                                 *)

LEMMA RecordCall ==
  ASSUME NEW P, NEW c, trace = OpenTrace(P), refused = FALSE, Record(ToolCall(1, 1, c))
  PROVE  trace' = OpenTrace(P \cup {c}) /\ refused' = FALSE
<1>1. Accepts(trace, ToolCall(1, 1, c))
  BY DEF Accepts, ToolCall, InOpenStep, OpenTrace
<1>2. Advance(trace, ToolCall(1, 1, c)) = OpenTrace(P \cup {c})
  BY DEF Advance, ToolCall, OpenTrace
<1> QED BY <1>1, <1>2 DEF Record

LEMMA RecordResult ==
  ASSUME NEW P, NEW c, NEW ns, trace = OpenTrace(P), refused = FALSE, c \in P \/ ns,
         Record(ToolResult(1, 1, c, ns))
  PROVE  trace' = OpenTrace(P \ {c}) /\ refused' = FALSE
<1>1. Accepts(trace, ToolResult(1, 1, c, ns))
  BY DEF Accepts, ToolResult, InOpenStep, OpenTrace
<1>2. Advance(trace, ToolResult(1, 1, c, ns)) = OpenTrace(P \ {c})
  BY DEF Advance, ToolResult, OpenTrace
<1> QED BY <1>1, <1>2 DEF Record

LEMMA RecordEnd ==
  ASSUME NEW P, trace = OpenTrace(P), refused = FALSE, Record(StepEnd(1, 1))
  PROVE  trace' = ClosedTrace /\ refused' = FALSE
<1>1. Accepts(trace, StepEnd(1, 1))
  BY DEF Accepts, StepEnd, InOpenStep, OpenTrace
<1>2. Advance(trace, StepEnd(1, 1)) = ClosedTrace
  <2>1. Advance(trace, StepEnd(1, 1))
          = [trace EXCEPT !.openStep = Closed, !.nextStep = @ + 1, !.pending = {}]
    BY DEF Advance, StepEnd
  <2>2. trace.nextStep + 1 = 2
    BY DEF OpenTrace
  <2> QED BY <2>1, <2>2 DEF OpenTrace, ClosedTrace, Closed
<1> QED BY <1>1, <1>2 DEF Record

LEMMA SlotTyped ==
  ASSUME NEW post \in BOOLEAN, NEW r \in Outcomes
  PROVE  /\ [needsPost |-> post, result |-> r] \in Slots
         /\ [needsPost |-> post, result |-> r].result = r
BY DEF Slots

\* What a dispatch leaves in its slot.
LEMMA ReturnedSlot ==
  ASSUME PlainTypes, NEW c \in Calls, DispatchReturns(c)
  PROVE  \E post \in BOOLEAN, r \in Outcomes :
           slots' = [slots EXCEPT ![c] = [needsPost |-> post, result |-> r]]
<1>1. got[c] \in Outcomes \cup {"none"}
  BY DEF PlainTypes
<1>2. \A r \in WrapperResults(c) : Cancelled(c, r) \in Outcomes
  BY <1>1 DEF WrapperResults, Cancelled, Outcomes
<1> QED BY <1>2 DEF DispatchReturns, Outcomes

LEMMA SlotResult ==
  PlainTypes => \A c \in Calls : slots[c].result \in Outcomes \cup {"none"}
BY DEF PlainTypes, Slots

\* Where the last call of the group is.
LEMMA LastInMessage ==
  ASSUME PlainTypes, first <= NCalls PROVE Last \in Nat /\ Last <= NCalls /\ first <= Last
BY DEF PlainTypes, Last

\* Recovery answers the calls in order.
LEMMA PendingIs ==
  ASSUME PlainTypes, LogInv PROVE Pending = (Answered + 1)..NCalls
<1>1. DOMAIN answers = 1..Answered /\ Answered \in Nat
  BY DEF PlainTypes, Answered
<1>2. {answers[i] : i \in DOMAIN answers} = 1..Answered
  BY <1>1 DEF LogInv
<1> QED BY <1>1, <1>2 DEF Pending, Calls, LogInv

LEMMA RecoverEffect ==
  ASSUME PlainTypes, LogInv, RecoverCall
  PROVE  /\ Answered + 1 \in Calls
         /\ answers' = Append(answers, Answered + 1)
         /\ disowned' = disowned \cup ({Answered + 1} \ called)
         /\ Record(ToolResult(1, 1, Answered + 1, Answered + 1 \notin called))
<1> DEFINE c == CHOOSE c \in Pending : \A d \in Pending : c <= d
<1>1. Answered \in Nat /\ Pending # {}
  BY DEF PlainTypes, Answered, RecoverCall
<1>2. Answered + 1 \in Pending /\ \A d \in Pending : Answered + 1 <= d
  BY <1>1, PendingIs
<1>3. c \in Pending /\ \A d \in Pending : c <= d
  BY <1>2
<1>4. c = Answered + 1
  BY <1>1, <1>2, <1>3, PendingIs
<1>5. /\ answers' = Append(answers, c) /\ disowned' = disowned \cup ({c} \ called)
      /\ Record(ToolResult(1, 1, c, c \notin called))
  BY DEF RecoverCall
<1> QED BY <1>1, <1>2, <1>4, <1>5, PendingIs DEF Calls

-----------------------------------------------------------------------------
(* The types.                                                              *)

LEMMA PlainStep == IInv /\ [Next]_vars => PlainTypes'
<1> SUFFICES ASSUME IInv, [Next]_vars PROVE PlainTypes'
  OBVIOUS
<1> USE DEF PlainTypes, IInv, PlaceInv, Calls, Modes, Awaits, Sync, Outcomes, Busy, Last, InGroup
<1>1. CASE Classify
  BY <1>1 DEF Classify, AppendCall
<1>2. CASE StartCall
  BY <1>2 DEF StartCall, AppendCall, MayStart
<1>3. CASE PoolWaits
  BY <1>3 DEF PoolWaits, MayStart, MayBarrier
<1>4. CASE GroupEnds
  BY <1>4 DEF GroupEnds, MayStart, MayBarrier
<1>5. CASE Prepared
  <2>0. UNCHANGED <<mode, first, committed, aborted, signal, tries, got, invoked, logVars>>
    BY <1>5 DEF Prepared, TakeAnswer
  <2>1. CASE Fail /\ UNCHANGED <<index, inFlight, stage, slots>>
    BY <2>0, <2>1 DEF Fail
  <2>2. CASE /\ inFlight' = inFlight \cup {index} /\ stage' = [stage EXCEPT ![index] = "wrapper"]
             /\ index' = index + 1 /\ pc' = "started" /\ UNCHANGED <<failed, slots>>
    <3>1. index \in Calls
      BY <1>5, LastInMessage DEF Prepared, TakeAnswer
    <3> QED BY <2>0, <2>2, <3>1
  <2>3. ASSUME NEW post \in BOOLEAN, NEW r \in {"error", "undispatched"},
               slots' = [slots EXCEPT ![index] = [needsPost |-> post, result |-> r]],
               index' = index + 1, pc' = "started", UNCHANGED <<failed, inFlight, stage>>
        PROVE  PlainTypes'
    <3>1. slots' \in [Calls -> Slots]
      BY <2>3, SlotTyped
    <3> QED BY <1>5, <2>3, <3>1, LastInMessage DEF Prepared, TakeAnswer
  <2> QED BY <1>5, <2>1, <2>2, <2>3 DEF Prepared, TakeAnswer
<1>6. CASE StageRejects
  BY <1>6 DEF StageRejects, Fail
<1>7. CASE Started
  BY <1>7 DEF Started, Fail
<1>8. CASE RaceSettles
  BY <1>8 DEF RaceSettles, Fail, Running
<1>9. CASE Finalize
  BY <1>9 DEF Finalize, Ready
<1>10. ASSUME NEW throws \in BOOLEAN, CommitFinal(throws) PROVE PlainTypes'
  <2>1. committed + 1 \in Calls
    BY <1>10, LastInMessage DEF CommitFinal, CommitPost, Ready
  <2>2. \E r : Commit(r, throws)
    BY <1>10 DEF CommitFinal, CommitPost
  <2>3. PICK r : Commit(r, throws)
    BY <2>2
  <2>4. answers' \in Seq(Calls) /\ called' = called
    BY <2>1, <2>3 DEF Commit, AppendResult
  <2>6. disowned' \subseteq Calls
    BY <2>1, <2>3 DEF Commit, AppendResult
  <2>5. committed' \in 0..NCalls /\ failed' \in BOOLEAN /\ pc' \in Awaits
    <3>1. CASE throws
      BY <2>3, <3>1 DEF Commit, Fail
    <3>2. CASE ~throws
      BY <2>1, <2>3, <3>2 DEF Commit
    <3> QED BY <3>1, <3>2
  <2> QED BY <2>3, <2>4, <2>5, <2>6 DEF Commit
<1>11. ASSUME NEW throws \in BOOLEAN, CommitPost(throws) PROVE PlainTypes'
  <2>1. committed + 1 \in Calls
    BY <1>11, LastInMessage DEF CommitFinal, CommitPost, Ready
  <2>2. \E r : Commit(r, throws)
    BY <1>11 DEF CommitFinal, CommitPost
  <2>3. PICK r : Commit(r, throws)
    BY <2>2
  <2>4. answers' \in Seq(Calls) /\ called' = called
    BY <2>1, <2>3 DEF Commit, AppendResult
  <2>6. disowned' \subseteq Calls
    BY <2>1, <2>3 DEF Commit, AppendResult
  <2>5. committed' \in 0..NCalls /\ failed' \in BOOLEAN /\ pc' \in Awaits
    <3>1. CASE throws
      BY <2>3, <3>1 DEF Commit, Fail
    <3>2. CASE ~throws
      BY <2>1, <2>3, <3>2 DEF Commit
    <3> QED BY <3>1, <3>2
  <2> QED BY <2>3, <2>4, <2>5, <2>6 DEF Commit
<1>12. CASE CommitEnds
  BY <1>12 DEF CommitEnds, Fail
<1>13. CASE SkipCall
  BY <1>13 DEF SkipCall
<1>14. CASE SkipEnds
  BY <1>14 DEF SkipEnds
<1>15. CASE Drained
  BY <1>15 DEF Drained, Running
<1>16. CASE RecoverCall
  <2>1. /\ Answered + 1 \in Calls /\ answers' = Append(answers, Answered + 1)
        /\ disowned' = disowned \cup ({Answered + 1} \ called)
    BY <1>16, RecoverEffect
  <2>2. UNCHANGED <<pc, groupVars, failed, signal, pipelineVars, slots, called>>
    BY <1>16 DEF RecoverCall
  <2>3. answers' \in Seq(Calls)
    BY <2>1
  <2>4. disowned' \subseteq Calls
    BY <2>1
  <2> QED BY <2>2, <2>3, <2>4
<1>17. CASE RecoverEnds
  BY <1>17 DEF RecoverEnds
<1>18. ASSUME NEW c \in Calls, AskBody(c) PROVE PlainTypes'
  <2>1. tries' \in [Calls -> 0..MaxTries]
    BY <1>18 DEF AskBody
  <2> QED BY <1>18, <2>1 DEF AskBody
<1>19. ASSUME NEW c \in Calls, BodyReturns(c) PROVE PlainTypes'
  BY <1>19 DEF BodyReturns, Cancelled
<1>20. ASSUME NEW c \in Calls, DispatchReturns(c) PROVE PlainTypes'
  <2>1. PICK post \in BOOLEAN, r \in Outcomes :
           slots' = [slots EXCEPT ![c] = [needsPost |-> post, result |-> r]]
    BY <1>20, ReturnedSlot
  <2>2. slots' \in [Calls -> Slots]
    BY <2>1, SlotTyped
  <2> QED BY <1>20, <2>2 DEF DispatchReturns, Settle
<1>21. ASSUME NEW c \in Calls, DispatchRejects(c) PROVE PlainTypes'
  BY <1>21 DEF DispatchRejects, Settle
<1>22. CASE Abort
  BY <1>22 DEF Abort
<1>23. CASE UNCHANGED vars
  BY <1>23 DEF vars, groupVars, pipelineVars, logVars, Ready
<1>24. CASE PrepareAnswers
  BY <1>24 DEF PrepareAnswers, Answered
<1> QED
  BY <1>1, <1>2, <1>3, <1>4, <1>5, <1>6, <1>7, <1>8, <1>9, <1>10, <1>11,
     <1>12, <1>13, <1>14, <1>15, <1>16, <1>17, <1>18, <1>19, <1>20, <1>21,
     <1>22, <1>23, <1>24 DEF Next, Scheduler, Dispatches, Terminated

-----------------------------------------------------------------------------
(* The places.                                                             *)

\* A call that is ready to commit has been started.
LEMMA ReadyStarted ==
  ASSUME PlainTypes, PlaceInv, CallInv, Ready, pc \in {"commit", "finalize"}
  PROVE  committed + 1 \in Calls /\ committed + 1 < index /\ committed + 1 <= Last
<1>1. first <= NCalls /\ Last \in Nat /\ Last <= NCalls
  BY LastInMessage DEF PlaceInv, InGroup
<1>2. committed < Last /\ slots[committed + 1].result # "none"
  BY DEF Ready
<1>3. committed + 1 \in Calls
  BY <1>1, <1>2 DEF PlainTypes, Calls
<1>4. ~(committed + 1 >= index)
  BY <1>2, <1>3 DEF CallInv, Empty
<1> QED BY <1>1, <1>2, <1>3, <1>4 DEF PlainTypes

\* With the pool empty and nothing to commit, all that was started is committed.
LEMMA AllCommitted ==
  ASSUME IInv, pc = "fill", inFlight = {}
  PROVE  committed + 1 = index
<1>1. first <= NCalls /\ Last \in Nat /\ Last <= NCalls /\ index <= Last + 1 /\ committed < index
      /\ ~failed /\ ~Ready /\ committed \in Nat /\ index \in Nat
  BY LastInMessage DEF IInv, PlainTypes, PlaceInv, InGroup
<1>2. SUFFICES ASSUME committed + 1 < index PROVE FALSE
  BY <1>1
<1>3. committed + 1 \in Calls /\ committed < Last
  BY <1>1, <1>2 DEF Calls
<1>4. stage[committed + 1] \notin Busy
  BY <1>3 DEF IInv, PoolInv
<1>5. slots[committed + 1].result # "none"
  BY <1>1, <1>2, <1>3, <1>4 DEF IInv, CallInv
<1> QED BY <1>1, <1>3, <1>5 DEF Ready

LEMMA PlaceStep == IInv /\ [Next]_vars => PlaceInv'
<1> SUFFICES ASSUME IInv, [Next]_vars PROVE PlaceInv'
  OBVIOUS
<1> USE DEF PlainTypes, IInv, PlaceInv, Calls, Last, Ready, Modes, InGroup
<1>1. CASE Classify
  <2>1. CASE index > NCalls
    BY <1>1, <2>1 DEF Classify
  <2>2. CASE index <= NCalls
    <3>1. /\ mode' \in Modes /\ first' = index /\ aborted' = signal /\ pc' = "fill"
          /\ UNCHANGED <<index, committed, failed, signal, slots, inFlight>>
      BY <1>1, <2>2 DEF Classify
    <3>2. slots[committed + 1].result = "none" /\ committed + 1 = index
      BY <1>1, <2>2 DEF Classify, CallInv, Empty
    <3>3. ~Ready'
      BY <3>1, <3>2
    <3>4. Last' = NCalls \/ Last' = index
      BY <3>1
    <3>5. index' <= Last' + 1
      BY <3>1, <3>4, <2>2
    <3> QED BY <1>1, <2>2, <3>1, <3>2, <3>3, <3>5 DEF Classify
  <2> QED BY <2>1, <2>2
<1>2. CASE StartCall
  BY <1>2 DEF StartCall, AppendCall, MayStart
<1>3. CASE PoolWaits
  BY <1>3 DEF PoolWaits, MayStart, MayBarrier
<1>4. CASE GroupEnds
  <2>1. committed + 1 = index
    BY <1>4, AllCommitted DEF GroupEnds
  <2>2. pc' \in {"skip", "classify"} /\ pc = "fill" /\ inFlight = {}
        /\ UNCHANGED <<groupVars, failed, signal, inFlight>>
    BY <1>4 DEF GroupEnds
  <2> QED BY <2>1, <2>2
<1>5. CASE Prepared
  BY <1>5 DEF Prepared, TakeAnswer, Fail
<1>6. CASE StageRejects
  BY <1>6 DEF StageRejects, Fail
<1>7. CASE Started
  BY <1>7 DEF Started, Fail
<1>8. CASE RaceSettles
  BY <1>8 DEF RaceSettles, Fail, Running
<1>9. CASE Finalize
  BY <1>9 DEF Finalize, Ready
<1>10. ASSUME NEW throws \in BOOLEAN, CommitFinal(throws) PROVE PlaceInv'
  <2>1. pc \in {"commit", "finalize"} /\ Ready
    BY <1>10 DEF CommitFinal, CommitPost
  <2>2. committed + 1 < index
    BY <2>1, ReadyStarted
  <2>3. PICK r : Commit(r, throws)
    BY <1>10 DEF CommitFinal, CommitPost
  <2>4. UNCHANGED <<mode, first, index, aborted, signal, inFlight>>
    BY <2>3 DEF Commit
  <2>5. \/ pc' = "draining"
        \/ pc' = "commit" /\ committed' = committed + 1
    BY <2>3 DEF Commit, Fail
  <2> QED BY <2>1, <2>2, <2>4, <2>5
<1>11. ASSUME NEW throws \in BOOLEAN, CommitPost(throws) PROVE PlaceInv'
  <2>1. pc \in {"commit", "finalize"} /\ Ready
    BY <1>11 DEF CommitFinal, CommitPost
  <2>2. committed + 1 < index
    BY <2>1, ReadyStarted
  <2>3. PICK r : Commit(r, throws)
    BY <1>11 DEF CommitFinal, CommitPost
  <2>4. UNCHANGED <<mode, first, index, aborted, signal, inFlight>>
    BY <2>3 DEF Commit
  <2>5. \/ pc' = "draining"
        \/ pc' = "commit" /\ committed' = committed + 1
    BY <2>3 DEF Commit, Fail
  <2> QED BY <2>1, <2>2, <2>4, <2>5
<1>12. CASE CommitEnds
  BY <1>12 DEF CommitEnds, Fail
<1>13. CASE SkipCall
  BY <1>13 DEF SkipCall
<1>14. CASE SkipEnds
  BY <1>14 DEF SkipEnds
<1>15. CASE Drained
  BY <1>15 DEF Drained, Running
<1>16. CASE RecoverCall
  BY <1>16 DEF RecoverCall
<1>17. CASE RecoverEnds
  BY <1>17 DEF RecoverEnds
<1>18. ASSUME NEW c \in Calls, AskBody(c) PROVE PlaceInv'
  BY <1>18 DEF AskBody
<1>19. ASSUME NEW c \in Calls, BodyReturns(c) PROVE PlaceInv'
  BY <1>19 DEF BodyReturns, Cancelled
<1>20. ASSUME NEW c \in Calls, DispatchReturns(c) PROVE PlaceInv'
  <2>1. /\ pc \in Awaits /\ pc' = pc
        /\ UNCHANGED <<groupVars, failed, signal, inFlight>>
    BY <1>20 DEF DispatchReturns
  <2>2. PICK post \in BOOLEAN, r \in Outcomes :
           slots' = [slots EXCEPT ![c] = [needsPost |-> post, result |-> r]]
    BY <1>20, ReturnedSlot
  <2>3. Ready => Ready'
    BY <2>1, <2>2 DEF Slots, Outcomes
  <2> QED BY <2>1, <2>3 DEF Awaits
<1>21. ASSUME NEW c \in Calls, DispatchRejects(c) PROVE PlaceInv'
  <2>1. /\ pc \in Awaits /\ pc' = pc /\ stage[c] = "wrapper"
        /\ UNCHANGED <<groupVars, signal, inFlight, slots>>
    BY <1>21 DEF DispatchRejects
  <2>2. pc # "classify"
    BY <2>1 DEF PoolInv, Busy
  <2> QED BY <2>1, <2>2 DEF Awaits
<1>22. CASE Abort
  <2>1. pc \in Awaits /\ signal' /\ UNCHANGED <<pc, groupVars, failed, inFlight, slots>>
    BY <1>22 DEF Abort
  <2> QED BY <2>1 DEF Awaits
<1>23. CASE UNCHANGED vars
  BY <1>23 DEF vars, groupVars, pipelineVars, logVars, Ready
<1>24. CASE PrepareAnswers
  BY <1>24 DEF PrepareAnswers, Answered
<1> QED
  BY <1>1, <1>2, <1>3, <1>4, <1>5, <1>6, <1>7, <1>8, <1>9, <1>10, <1>11,
     <1>12, <1>13, <1>14, <1>15, <1>16, <1>17, <1>18, <1>19, <1>20, <1>21,
     <1>22, <1>23, <1>24 DEF Next, Scheduler, Dispatches, Terminated

-----------------------------------------------------------------------------
(* The pool.                                                               *)

LEMMA PoolFinite ==
  ASSUME PlainTypes PROVE IsFiniteSet(inFlight) /\ Cardinality(inFlight) \in Nat
<1>1. IsFiniteSet(1..NCalls)
  BY FS_Interval
<1>2. inFlight \subseteq 1..NCalls
  BY DEF PlainTypes, Calls
<1>3. IsFiniteSet(inFlight)
  BY <1>1, <1>2, FS_Subset
<1> QED BY <1>3, FS_CardinalityType

LEMMA PoolStep == IInv /\ [Next]_vars => PoolInv'
<1> SUFFICES ASSUME IInv, [Next]_vars PROVE PoolInv'
  OBVIOUS
<1> USE DEF PlainTypes, IInv, PlaceInv, PoolInv, CallInv, Calls, Last, Busy, ExclusiveAlone
<1>1. CASE Classify
  BY <1>1 DEF Classify, AppendCall
<1>2. CASE StartCall
  BY <1>2 DEF StartCall, AppendCall, MayStart
<1>3. CASE PoolWaits
  BY <1>3 DEF PoolWaits, MayStart, MayBarrier
<1>4. CASE GroupEnds
  BY <1>4 DEF GroupEnds, MayStart, MayBarrier
<1>5. CASE Prepared
  <2>0. pc \in Returned /\ UNCHANGED <<mode, first, committed, invoked>>
        /\ index <= Last /\ first <= index /\ index \in Calls
    BY <1>5, LastInMessage DEF Prepared, TakeAnswer, InGroup
  <2>1. CASE pc' = "draining" /\ UNCHANGED <<index, inFlight, stage>>
    BY <2>0, <2>1
  <2>2. CASE /\ inFlight' = inFlight \cup {index} /\ stage' = [stage EXCEPT ![index] = "wrapper"]
             /\ index' = index + 1 /\ pc' = "started"
    <3>1. index \notin inFlight
      BY <2>0
    <3>2. Cardinality(inFlight') = Cardinality(inFlight) + 1
      BY <2>2, <3>1, PoolFinite, FS_AddElement
    <3>3. Cardinality(inFlight') <= MaxParallel
      BY <2>0, <3>2, PoolFinite
    <3>4. ExclusiveAlone'
      BY <2>0, <2>2
    <3>5. \A c \in Calls : stage'[c] \in Busy => c \in inFlight'
      BY <2>2
    <3>6. \A c \in inFlight' : c < index'
      BY <2>0, <2>2
    <3> QED BY <2>2, <3>3, <3>4, <3>5, <3>6
  <2>3. CASE index' = index + 1 /\ pc' = "started" /\ UNCHANGED <<inFlight, stage>>
    BY <2>0, <2>3
  <2> QED BY <1>5, <2>1, <2>2, <2>3 DEF Prepared, TakeAnswer, Fail
<1>6. CASE StageRejects
  BY <1>6 DEF StageRejects, Fail
<1>7. CASE Started
  BY <1>7 DEF Started, Fail
<1>8. CASE RaceSettles
  <2>1. PICK c \in inFlight : stage[c] \notin Busy /\ inFlight' = inFlight \ {c}
    BY <1>8 DEF RaceSettles, Running
  <2>2. pc' \in {"draining", "commit"} /\ UNCHANGED <<mode, first, index, stage>>
    BY <1>8 DEF RaceSettles, Fail
  <2>3. IsFiniteSet(inFlight) /\ Cardinality(inFlight) \in Nat
    BY PoolFinite
  <2>4. Cardinality(inFlight \ {c}) = Cardinality(inFlight) - 1
    BY <2>1, <2>3, FS_RemoveElement
  <2>5. Cardinality(inFlight) <= MaxParallel
    OBVIOUS
  <2>6. Cardinality(inFlight') <= MaxParallel
    BY <2>1, <2>3, <2>4, <2>5
  <2> QED BY <2>1, <2>2, <2>6
<1>9. CASE Finalize
  BY <1>9 DEF Finalize, Ready
<1>10. ASSUME NEW throws \in BOOLEAN, CommitFinal(throws) PROVE PoolInv'
  BY <1>10 DEF CommitFinal, Commit, AppendResult, Fail, Ready
<1>11. ASSUME NEW throws \in BOOLEAN, CommitPost(throws) PROVE PoolInv'
  BY <1>11 DEF CommitPost, Commit, AppendResult, Fail, Cancelled
<1>12. CASE CommitEnds
  BY <1>12 DEF CommitEnds, Fail
<1>13. CASE SkipCall
  BY <1>13 DEF SkipCall
<1>14. CASE SkipEnds
  BY <1>14 DEF SkipEnds
<1>15. CASE Drained
  BY <1>15 DEF Drained, Running
<1>16. CASE RecoverCall
  BY <1>16 DEF RecoverCall
<1>17. CASE RecoverEnds
  BY <1>17 DEF RecoverEnds
<1>18. ASSUME NEW c \in Calls, AskBody(c) PROVE PoolInv'
  BY <1>18 DEF AskBody
<1>19. ASSUME NEW c \in Calls, BodyReturns(c) PROVE PoolInv'
  BY <1>19 DEF BodyReturns, Cancelled
<1>20. ASSUME NEW c \in Calls, DispatchReturns(c) PROVE PoolInv'
  BY <1>20 DEF DispatchReturns, Settle
<1>21. ASSUME NEW c \in Calls, DispatchRejects(c) PROVE PoolInv'
  BY <1>21 DEF DispatchRejects, Settle
<1>22. CASE Abort
  BY <1>22 DEF Abort
<1>23. CASE UNCHANGED vars
  BY <1>23 DEF vars, groupVars, pipelineVars, logVars, Ready
<1>24. CASE PrepareAnswers
  BY <1>24 DEF PrepareAnswers, Answered
<1> QED
  BY <1>1, <1>2, <1>3, <1>4, <1>5, <1>6, <1>7, <1>8, <1>9, <1>10, <1>11,
     <1>12, <1>13, <1>14, <1>15, <1>16, <1>17, <1>18, <1>19, <1>20, <1>21,
     <1>22, <1>23, <1>24 DEF Next, Scheduler, Dispatches, Terminated

-----------------------------------------------------------------------------
(* The calls.                                                              *)

LEMMA CallStep == IInv /\ [Next]_vars => CallInv'
<1> SUFFICES ASSUME IInv, [Next]_vars PROVE CallInv'
  OBVIOUS
<1> USE DEF PlainTypes, IInv, PlaceInv, PoolInv, CallInv, Calls, Last, Busy, Empty
<1>1. CASE Classify
  BY <1>1 DEF Classify, AppendCall
<1>2. CASE StartCall
  BY <1>2 DEF StartCall, AppendCall, MayStart
<1>3. CASE PoolWaits
  BY <1>3 DEF PoolWaits, MayStart, MayBarrier
<1>4. CASE GroupEnds
  BY <1>4 DEF GroupEnds, MayStart, MayBarrier
<1>5. CASE Prepared
  <2>0. pc \in Returned /\ UNCHANGED <<committed, invoked>> /\ index \in Calls
    BY <1>5, LastInMessage DEF Prepared, TakeAnswer, InGroup
  <2>1. CASE pc' = "draining" /\ failed' /\ UNCHANGED <<index, stage, slots>>
    BY <2>0, <2>1
  <2>2. CASE /\ stage' = [stage EXCEPT ![index] = "wrapper"]
             /\ index' = index + 1 /\ pc' = "started" /\ UNCHANGED <<failed, slots>>
    BY <2>0, <2>2
  <2>3. ASSUME NEW post \in BOOLEAN, NEW r \in {"error", "undispatched"},
               slots' = [slots EXCEPT ![index] = [needsPost |-> post, result |-> r]],
               index' = index + 1, pc' = "started", UNCHANGED <<failed, stage>>
        PROVE  CallInv'
    <3>1. slots'[index].result = r /\ \A d \in Calls \ {index} : slots'[d] = slots[d]
      BY <2>0, <2>3
    <3>2. \A d \in Calls : d >= index' => d >= index /\ d # index
      BY <2>0, <2>3
    <3>3. \A d \in Calls : d < index' => d < index \/ d = index
      BY <2>0, <2>3
    <3>4. stage'[index] = "none" /\ r # "none"
      BY <2>0, <2>3
    <3> QED BY <2>0, <2>3, <3>1, <3>2, <3>3, <3>4
  <2> QED BY <1>5, <2>1, <2>2, <2>3 DEF Prepared, TakeAnswer, Fail
<1>6. CASE StageRejects
  BY <1>6 DEF StageRejects, Fail
<1>7. CASE Started
  BY <1>7 DEF Started, Fail
<1>8. CASE RaceSettles
  BY <1>8 DEF RaceSettles, Fail, Running
<1>9. CASE Finalize
  BY <1>9 DEF Finalize, Ready
<1>10. ASSUME NEW throws \in BOOLEAN, CommitFinal(throws) PROVE CallInv'
  BY <1>10 DEF CommitFinal, Commit, AppendResult, Fail, Ready
<1>11. ASSUME NEW throws \in BOOLEAN, CommitPost(throws) PROVE CallInv'
  BY <1>11 DEF CommitPost, Commit, AppendResult, Fail, Cancelled
<1>12. CASE CommitEnds
  BY <1>12 DEF CommitEnds, Fail
<1>13. CASE SkipCall
  BY <1>13 DEF SkipCall
<1>14. CASE SkipEnds
  BY <1>14 DEF SkipEnds
<1>15. CASE Drained
  BY <1>15 DEF Drained, Running
<1>16. CASE RecoverCall
  BY <1>16 DEF RecoverCall
<1>17. CASE RecoverEnds
  BY <1>17 DEF RecoverEnds
<1>18. ASSUME NEW c \in Calls, AskBody(c) PROVE CallInv'
  <2>1. /\ stage[c] = "wrapper" /\ UNCHANGED <<pc, index, failed, slots>>
        /\ stage'[c] \in Busy /\ \A d \in Calls \ {c} : stage'[d] = stage[d] /\ invoked'[d] = invoked[d]
    BY <1>18 DEF AskBody
  <2>2. c < index
    BY <2>1
  <2> QED BY <2>1, <2>2
<1>19. ASSUME NEW c \in Calls, BodyReturns(c) PROVE CallInv'
  BY <1>19 DEF BodyReturns, Cancelled
<1>20. ASSUME NEW c \in Calls, DispatchReturns(c) PROVE CallInv'
  <2>1. /\ stage[c] = "wrapper" /\ UNCHANGED <<pc, index, failed, invoked>>
        /\ stage' = [stage EXCEPT ![c] = "settled"]
    BY <1>20 DEF DispatchReturns, Settle
  <2>2. PICK post \in BOOLEAN, r \in Outcomes :
           slots' = [slots EXCEPT ![c] = [needsPost |-> post, result |-> r]]
    BY <1>20, ReturnedSlot
  <2>3. slots'[c].result = r /\ r # "none" /\ \A d \in Calls \ {c} : slots'[d] = slots[d]
    BY <2>2 DEF Outcomes
  <2>4. c < index
    BY <2>1
  <2> QED BY <2>1, <2>3, <2>4
<1>21. ASSUME NEW c \in Calls, DispatchRejects(c) PROVE CallInv'
  BY <1>21 DEF DispatchRejects, Settle
<1>22. CASE Abort
  BY <1>22 DEF Abort
<1>23. CASE UNCHANGED vars
  BY <1>23 DEF vars, groupVars, pipelineVars, logVars, Ready
<1>24. CASE PrepareAnswers
  BY <1>24 DEF PrepareAnswers, Answered
<1> QED
  BY <1>1, <1>2, <1>3, <1>4, <1>5, <1>6, <1>7, <1>8, <1>9, <1>10, <1>11,
     <1>12, <1>13, <1>14, <1>15, <1>16, <1>17, <1>18, <1>19, <1>20, <1>21,
     <1>22, <1>23, <1>24 DEF Next, Scheduler, Dispatches, Terminated

-----------------------------------------------------------------------------
(* The log.                                                                *)

LEMMA AnswerNext ==
  ASSUME PlainTypes, LogInv, answers' = Append(answers, Answered + 1)
  PROVE  /\ Answered \in Nat /\ Answered' = Answered + 1
         /\ \A i \in 1..Answered' : answers'[i] = i
<1>1. answers \in Seq(Calls) /\ Answered \in Nat
  BY DEF PlainTypes, Answered
<1>2. Answered' = Answered + 1
  BY <1>1 DEF Answered
<1>3. \A i \in 1..Answered' : answers'[i] = IF i = Answered + 1 THEN Answered + 1 ELSE answers[i]
  BY <1>1, <1>2 DEF Answered
<1> QED BY <1>1, <1>2, <1>3 DEF LogInv

LEMMA CountersTyped ==
  ASSUME PlainTypes
  PROVE  Answered \in Nat /\ index \in Nat /\ committed \in Nat /\ index <= NCalls + 1
BY DEF PlainTypes, Answered


LEMMA LogStep == IInv /\ [Next]_vars => LogInv'
<1> SUFFICES ASSUME IInv, [Next]_vars PROVE LogInv'
  OBVIOUS
<1> USE DEF IInv
<1>1. CASE Classify
  <2>0. trace = OpenTrace(called \ 1..Answered) /\ refused = FALSE /\ called = 1..(index - 1)
        /\ Answered = committed /\ committed + 1 = index /\ Answered \in Nat
    BY <1>1, CountersTyped DEF Classify, LogInv, PlaceInv
  <2>1. CASE index > NCalls
    <3>1. pc' = "closed" /\ Record(StepEnd(1, 1)) /\ UNCHANGED <<index, called, answers>>
      BY <1>1, <2>1 DEF Classify
    <3>2. trace' = ClosedTrace /\ refused' = FALSE
      BY <2>0, <3>1, RecordEnd
    <3>3. Answered' = Answered /\ Answered = NCalls
      BY <2>0, <2>1, <3>1, CountersTyped DEF Answered
    <3> QED BY <2>0, <3>1, <3>2, <3>3 DEF LogInv, InGroup, Answered
  <2>2. CASE index <= NCalls
    <3>1. pc' = "fill" /\ UNCHANGED <<index, committed, logVars>>
      BY <1>1, <2>2, CountersTyped DEF Classify
    <3> QED BY <2>0, <3>1 DEF LogInv, InGroup, Answered
  <2> QED BY <2>1, <2>2, CountersTyped
<1>2. CASE StartCall
  <2>1. /\ Record(ToolCall(1, 1, index)) /\ called' = called \cup {index} /\ pc' = "prepare"
        /\ UNCHANGED <<answers, index, committed>> /\ pc = "fill" /\ index <= Last
    BY <1>2 DEF StartCall, AppendCall, MayStart
  <2>2. /\ trace = OpenTrace(called \ 1..Answered) /\ refused = FALSE /\ called = 1..(index - 1)
        /\ Answered = committed /\ committed < index /\ index \in Nat /\ Answered \in Nat
    BY <2>1, CountersTyped DEF LogInv, PlaceInv, InGroup
  <2>3. trace' = OpenTrace((called \ 1..Answered) \cup {index}) /\ refused' = FALSE
    BY <2>1, <2>2, RecordCall
  <2>4. called' = 1..index
    BY <2>1, <2>2
  <2>5. (called \ 1..Answered) \cup {index} = called' \ 1..Answered
    BY <2>1, <2>2
  <2>6. Answered' = Answered
    BY <2>1 DEF Answered
  <2> QED BY <2>1, <2>2, <2>3, <2>4, <2>5, <2>6 DEF LogInv, InGroup
<1>3. CASE PoolWaits
  BY <1>3 DEF PoolWaits, MayStart, MayBarrier, LogInv, InGroup, Answered, Awaits
<1>4. CASE GroupEnds
  <2>1. committed + 1 = index
    BY <1>4, AllCommitted DEF GroupEnds
  <2>2. pc' \in {"skip", "classify"} /\ pc = "fill" /\ UNCHANGED <<groupVars, logVars>>
    BY <1>4 DEF GroupEnds
  <2> QED BY <2>1, <2>2 DEF LogInv, InGroup, Answered
<1>5. CASE Prepared
  <2>1. /\ pc \in Returned /\ UNCHANGED <<committed, logVars>>
        /\ (pc' = "draining" /\ index' = index) \/ (pc' = "started" /\ index' = index + 1)
    BY <1>5 DEF Prepared, TakeAnswer, Fail
  <2>2. called = 1..index /\ Answered = committed /\ index \in Nat
    BY <2>1, CountersTyped DEF LogInv, InGroup
  <2>3. Answered' = Answered
    BY <2>1 DEF Answered
  <2> QED BY <2>1, <2>2, <2>3 DEF LogInv, InGroup
<1>6. CASE StageRejects
  BY <1>6 DEF StageRejects, Fail, LogInv, InGroup, Answered, Awaits
<1>7. CASE Started
  BY <1>7 DEF Started, Fail, LogInv, InGroup, Answered, Awaits
<1>8. CASE RaceSettles
  BY <1>8 DEF RaceSettles, Fail, LogInv, InGroup, Answered, Awaits
<1>9. CASE Finalize
  BY <1>9 DEF Finalize, Ready, LogInv, InGroup, Answered, Awaits
<1>10. ASSUME NEW throws \in BOOLEAN, CommitFinal(throws) PROVE LogInv'
  <2>1. pc \in {"commit", "finalize"} /\ Ready
    BY <1>10 DEF CommitFinal, CommitPost, PlaceInv
  <2>2. committed + 1 \in Calls /\ committed + 1 < index
    BY <2>1, ReadyStarted
  <2>3. PICK r : Commit(r, throws)
    BY <1>10 DEF CommitFinal, CommitPost
  <2>4. /\ Record(ToolResult(1, 1, committed + 1, FALSE)) /\ answers' = Append(answers, committed + 1)
        /\ UNCHANGED <<index, called>>
        /\ pc' = "draining" \/ (pc' = "commit" /\ committed' = committed + 1)
    BY <2>3 DEF Commit, AppendResult, Fail
  <2>5. /\ Answered = committed /\ trace = OpenTrace(called \ 1..Answered) /\ refused = FALSE
        /\ called = 1..(index - 1)
    BY <2>1 DEF LogInv, InGroup
  <2>6. Answered' = Answered + 1 /\ (\A i \in 1..Answered' : answers'[i] = i) /\ Answered' <= NCalls
    BY <2>2, <2>4, <2>5, AnswerNext DEF Calls
  <2>7. trace' = OpenTrace((called \ 1..Answered) \ {Answered + 1}) /\ refused' = FALSE
    <3>1. Answered + 1 \in called \ 1..Answered
      BY <2>2, <2>5, CountersTyped
    <3> QED BY <2>4, <2>5, <3>1, RecordResult
  <2>8. (called \ 1..Answered) \ {Answered + 1} = called' \ 1..Answered'
    BY <2>4, <2>6, CountersTyped
  <2> QED BY <2>4, <2>5, <2>6, <2>7, <2>8 DEF LogInv, InGroup
<1>11. ASSUME NEW throws \in BOOLEAN, CommitPost(throws) PROVE LogInv'
  <2>1. pc \in {"commit", "finalize"} /\ Ready
    BY <1>11 DEF CommitFinal, CommitPost, PlaceInv
  <2>2. committed + 1 \in Calls /\ committed + 1 < index
    BY <2>1, ReadyStarted
  <2>3. PICK r : Commit(r, throws)
    BY <1>11 DEF CommitFinal, CommitPost
  <2>4. /\ Record(ToolResult(1, 1, committed + 1, FALSE)) /\ answers' = Append(answers, committed + 1)
        /\ UNCHANGED <<index, called>>
        /\ pc' = "draining" \/ (pc' = "commit" /\ committed' = committed + 1)
    BY <2>3 DEF Commit, AppendResult, Fail
  <2>5. /\ Answered = committed /\ trace = OpenTrace(called \ 1..Answered) /\ refused = FALSE
        /\ called = 1..(index - 1)
    BY <2>1 DEF LogInv, InGroup
  <2>6. Answered' = Answered + 1 /\ (\A i \in 1..Answered' : answers'[i] = i) /\ Answered' <= NCalls
    BY <2>2, <2>4, <2>5, AnswerNext DEF Calls
  <2>7. trace' = OpenTrace((called \ 1..Answered) \ {Answered + 1}) /\ refused' = FALSE
    <3>1. Answered + 1 \in called \ 1..Answered
      BY <2>2, <2>5, CountersTyped
    <3> QED BY <2>4, <2>5, <3>1, RecordResult
  <2>8. (called \ 1..Answered) \ {Answered + 1} = called' \ 1..Answered'
    BY <2>4, <2>6, CountersTyped
  <2> QED BY <2>4, <2>5, <2>6, <2>7, <2>8 DEF LogInv, InGroup
<1>12. CASE CommitEnds
  BY <1>12 DEF CommitEnds, Fail, LogInv, InGroup, Answered, Awaits
<1>13. CASE SkipCall
  <2> DEFINE noted == Advance(trace, ToolCall(1, 1, index))
  <2>1. /\ pc = "skip" /\ pc' = "skip" /\ index <= NCalls /\ index' = index + 1
        /\ called' = called \cup {index} /\ answers' = Append(answers, index)
        /\ trace' = Advance(noted, ToolResult(1, 1, index, FALSE))
        /\ refused' = \/ refused
                      \/ ~Accepts(trace, ToolCall(1, 1, index))
                      \/ ~Accepts(noted, ToolResult(1, 1, index, FALSE))
    BY <1>13 DEF SkipCall
  <2>2. /\ trace = OpenTrace(called \ 1..Answered) /\ refused = FALSE /\ called = 1..(index - 1)
        /\ Answered + 1 = index /\ index \in Nat /\ Answered \in Nat
    BY <2>1, CountersTyped DEF LogInv
  <2>3. called \ 1..Answered = {}
    BY <2>2
  <2>4. Accepts(trace, ToolCall(1, 1, index)) /\ noted = OpenTrace({index})
    BY <2>2, <2>3 DEF Accepts, Advance, ToolCall, InOpenStep, OpenTrace
  <2>5. Accepts(noted, ToolResult(1, 1, index, FALSE))
        /\ Advance(noted, ToolResult(1, 1, index, FALSE)) = OpenTrace({})
    <3>1. {index} \ {index} = {}
      OBVIOUS
    <3>2. Accepts(OpenTrace({index}), ToolResult(1, 1, index, FALSE))
      BY DEF Accepts, ToolResult, InOpenStep, OpenTrace
    <3>3. Advance(OpenTrace({index}), ToolResult(1, 1, index, FALSE)) = OpenTrace({index} \ {index})
      BY DEF Advance, ToolResult, OpenTrace
    <3> QED BY <2>4, <3>1, <3>2, <3>3
  <2>6. trace' = OpenTrace({}) /\ refused' = FALSE
    BY <2>1, <2>2, <2>4, <2>5
  <2>7. Answered' = Answered + 1 /\ (\A i \in 1..Answered' : answers'[i] = i)
    BY <2>1, <2>2, AnswerNext
  <2>8. called' = 1..(index' - 1) /\ called' \ 1..Answered' = {}
    BY <2>1, <2>2, <2>7
  <2> QED BY <2>1, <2>2, <2>6, <2>7, <2>8 DEF LogInv, InGroup
<1>14. CASE SkipEnds
  <2>1. /\ pc = "skip" /\ index > NCalls /\ pc' = "closed" /\ Record(StepEnd(1, 1))
        /\ UNCHANGED <<index, called, answers>>
    BY <1>14 DEF SkipEnds
  <2>2. /\ trace = OpenTrace(called \ 1..Answered) /\ refused = FALSE /\ called = 1..(index - 1)
        /\ Answered + 1 = index
    BY <2>1 DEF LogInv
  <2>3. trace' = ClosedTrace /\ refused' = FALSE
    BY <2>1, <2>2, RecordEnd
  <2>4. Answered' = Answered /\ Answered = NCalls
    BY <2>1, <2>2, CountersTyped DEF Answered
  <2> QED BY <2>1, <2>2, <2>3, <2>4 DEF LogInv, InGroup
<1>15. CASE Drained
  BY <1>15 DEF Drained, Running, LogInv, InGroup, Answered, Awaits
<1>16. CASE RecoverCall
  <2>1. /\ Answered + 1 \in Calls /\ answers' = Append(answers, Answered + 1)
        /\ Record(ToolResult(1, 1, Answered + 1, Answered + 1 \notin called))
    BY <1>16, RecoverEffect
  <2>2. pc = "recover" /\ UNCHANGED <<pc, index, called>>
    BY <1>16 DEF RecoverCall
  <2>3. trace = OpenTrace(called \ 1..Answered) /\ refused = FALSE
    BY <2>2 DEF LogInv
  <2>4. Answered' = Answered + 1 /\ (\A i \in 1..Answered' : answers'[i] = i) /\ Answered' <= NCalls
    BY <2>1, AnswerNext DEF Calls
  <2>5. trace' = OpenTrace((called \ 1..Answered) \ {Answered + 1}) /\ refused' = FALSE
    <3>1. Answered + 1 \in called \ 1..Answered \/ Answered + 1 \notin called
      BY CountersTyped
    <3> QED BY <2>1, <2>3, <3>1, RecordResult
  <2>6. (called \ 1..Answered) \ {Answered + 1} = called' \ 1..Answered'
    BY <2>2, <2>4, CountersTyped
  <2> QED BY <2>2, <2>4, <2>5, <2>6 DEF LogInv, InGroup
<1>17. CASE RecoverEnds
  <2>1. /\ pc = "recover" /\ Pending = {} /\ pc' = "closed" /\ Record(StepEnd(1, 1))
        /\ UNCHANGED <<index, called, answers>>
    BY <1>17 DEF RecoverEnds
  <2>2. trace = OpenTrace(called \ 1..Answered) /\ refused = FALSE
    BY <2>1 DEF LogInv
  <2>3. trace' = ClosedTrace /\ refused' = FALSE
    BY <2>1, <2>2, RecordEnd
  <2>4. Answered' = Answered
    BY <2>1 DEF Answered
  <2>5. Answered = NCalls
    <3>1. Answered + 1 \notin (Answered + 1)..NCalls /\ Answered <= NCalls
      BY <2>1, PendingIs DEF LogInv
    <3> QED BY <3>1, CountersTyped
  <2> QED BY <2>1, <2>3, <2>4, <2>5 DEF LogInv, InGroup
<1>18. ASSUME NEW c \in Calls, AskBody(c) PROVE LogInv'
  BY <1>18 DEF AskBody, LogInv, InGroup, Answered, Awaits
<1>19. ASSUME NEW c \in Calls, BodyReturns(c) PROVE LogInv'
  BY <1>19 DEF BodyReturns, Cancelled, LogInv, InGroup, Answered, Awaits
<1>20. ASSUME NEW c \in Calls, DispatchReturns(c) PROVE LogInv'
  BY <1>20 DEF DispatchReturns, Settle, LogInv, InGroup, Answered, Awaits
<1>21. ASSUME NEW c \in Calls, DispatchRejects(c) PROVE LogInv'
  BY <1>21 DEF DispatchRejects, Settle, LogInv, InGroup, Answered, Awaits
<1>22. CASE Abort
  BY <1>22 DEF Abort, LogInv, InGroup, Answered, Awaits
<1>23. CASE UNCHANGED vars
  BY <1>23 DEF vars, LogInv, Answered
<1>24. CASE PrepareAnswers
  BY <1>24 DEF PrepareAnswers, LogInv, InGroup, Answered
<1> QED
  BY <1>1, <1>2, <1>3, <1>4, <1>5, <1>6, <1>7, <1>8, <1>9, <1>10, <1>11,
     <1>12, <1>13, <1>14, <1>15, <1>16, <1>17, <1>18, <1>19, <1>20, <1>21,
     <1>22, <1>23, <1>24 DEF Next, Scheduler, Dispatches, Terminated

-----------------------------------------------------------------------------
(* What follows.                                                           *)

LEMMA Start == Init => IInv
<1> SUFFICES ASSUME Init PROVE IInv
  OBVIOUS
<1>1. trace = OpenTrace({})
  BY DEF Init, Advance, FreshTrace, TurnStart, StepStart, OpenTrace, Closed
<1>2. PlainTypes
  <2>1. Empty \in Slots
    BY DEF Empty, Slots
  <2>2. slots \in [Calls -> Slots]
    BY <2>1 DEF Init
  <2>3. /\ tries \in [Calls -> 0..MaxTries] /\ got \in [Calls -> Outcomes \cup {"none"}]
        /\ invoked \in [Calls -> BOOLEAN] /\ stage \in [Calls -> {"none", "settled"} \cup Busy]
    BY DEF Init
  <2>4. answers \in Seq(Calls) /\ inFlight \subseteq Calls /\ called \subseteq Calls
        /\ disowned \subseteq Calls
    BY DEF Init
  <2>5. 1 \in 1..(NCalls + 1) /\ 0 \in 0..NCalls
    OBVIOUS
  <2>6. /\ first \in 1..(NCalls + 1) /\ index \in 1..(NCalls + 1) /\ committed \in 0..NCalls
    BY <2>5 DEF Init
  <2>7. /\ pc \in Awaits \cup Sync /\ mode \in Modes
        /\ aborted \in BOOLEAN /\ failed \in BOOLEAN /\ signal \in BOOLEAN
    BY DEF Init, Awaits, Sync, Modes
  <2> QED BY <2>2, <2>3, <2>4, <2>6, <2>7 DEF PlainTypes
<1>3. PlaceInv /\ CallInv
  BY DEF Init, PlaceInv, CallInv, InGroup, Empty, Busy, Calls
<1>4. PoolInv
  BY FS_EmptySet DEF Init, PoolInv, ExclusiveAlone, Busy
<1>5. LogInv
  <2>1. Answered = 0
    BY DEF Init, Answered
  <2>2. called = 1..0 /\ called \ 1..0 = {}
    BY DEF Init
  <2> QED BY <1>1, <2>1, <2>2 DEF Init, LogInv, InGroup
<1> QED BY <1>2, <1>3, <1>4, <1>5 DEF IInv

LEMMA Invariance == Spec => []IInv
<1>1. IInv /\ [Next]_vars => IInv'
  BY PlainStep, PlaceStep, PoolStep, CallStep, LogStep DEF IInv
<1> QED BY Start, <1>1, PTL DEF Spec

\* Every variable keeps its type.
THEOREM TypeCorrect == Spec => []TypeOK
<1>1. IInv => TypeOK
  <2> SUFFICES ASSUME IInv PROVE TypeOK
    OBVIOUS
  <2>1. trace \in [openTurn : {Closed, 1}, openStep : {Closed, 1},
                   nextTurn : {1, 2}, nextStep : {1, 2}, pending : SUBSET Calls]
    <3>1. called \ 1..Answered \subseteq Calls
      BY DEF IInv, PlainTypes
    <3> QED BY <3>1 DEF IInv, LogInv, OpenTrace, ClosedTrace, Closed
  <2> QED BY <2>1 DEF IInv, LogInv, PlainTypes, Busy, TypeOK
<1> QED BY <1>1, Invariance, PTL

\* However many calls a message has, at most maxParallelToolCalls run at once,
\* and an exclusive one has the pool to itself.
THEOREM PoolSoundAlways == Spec => []PoolSound
<1>1. IInv => PoolSound
  <2> SUFFICES ASSUME IInv PROVE PoolSound
    OBVIOUS
  <2> DEFINE active == {c \in Calls : stage[c] \in {"wrapper", "body"}}
  <2>1. active \subseteq inFlight /\ Cardinality(inFlight) <= MaxParallel
    BY DEF IInv, PoolInv, Busy
  <2>2. IsFiniteSet(inFlight) /\ Cardinality(inFlight) \in Nat
    BY PoolFinite DEF IInv
  <2>3. Cardinality(active) <= Cardinality(inFlight) /\ Cardinality(active) \in Nat
    BY <2>1, <2>2, FS_Subset, FS_CardinalityType
  <2>4. ExclusiveAlone
    BY DEF IInv, PoolInv
  <2> QED BY <2>1, <2>2, <2>3, <2>4 DEF PoolSound
<1> QED BY <1>1, Invariance, PTL

\* The step closes over no running tool, and every event it wrote on the way
\* was accepted by the log's rules.
THEOREM ClosedIsQuietAlways == Spec => []ClosedIsQuiet
<1>1. IInv => ClosedIsQuiet
  BY DEF IInv, PlainTypes, PoolInv, LogInv, Busy, ClosedIsQuiet
<1> QED BY <1>1, Invariance, PTL

\* After a failure nothing is started and nothing that was being prepared is
\* dispatched; after an abort nothing is started, nothing is cleared for dispatch
\* and no body begins, for any number of calls and whatever the pool's size.
THEOREM NoLateWorkAlways == Spec => NoLateWork
<1>1. ASSUME IInv, Next, pc' = "prepare" /\ pc # "prepare" PROVE ~signal /\ ~failed
  <2>1. StartCall
    BY <1>1
       DEF Next, Scheduler, Dispatches, Terminated, Classify, PoolWaits, GroupEnds,
           PrepareAnswers, Prepared, TakeAnswer, StageRejects, Started, RaceSettles, Finalize,
           CommitFinal, CommitPost, Commit, CommitEnds, SkipCall, SkipEnds, Drained,
           RecoverCall, RecoverEnds, AskBody, BodyReturns, DispatchReturns, DispatchRejects,
           Abort, Fail, vars
  <2> QED BY <1>1, <2>1 DEF StartCall, MayStart, IInv, PlaceInv
<1>2. ASSUME Next, pc' = "toDispatch" /\ pc # "toDispatch" PROVE ~signal
  <2>1. PrepareAnswers
    BY <1>2
       DEF Next, Scheduler, Dispatches, Terminated, Classify, StartCall, PoolWaits, GroupEnds,
           Prepared, TakeAnswer, StageRejects, Started, RaceSettles, Finalize, CommitFinal,
           CommitPost, Commit, CommitEnds, SkipCall, SkipEnds, Drained, RecoverCall,
           RecoverEnds, AskBody, BodyReturns, DispatchReturns, DispatchRejects, Abort, Fail,
           vars
  <2> QED BY <1>2, <2>1 DEF PrepareAnswers
<1>3. ASSUME Next, ~(inFlight' \subseteq inFlight) PROVE ~failed
  <2>1. Prepared
    BY <1>3
       DEF Next, Scheduler, Dispatches, Terminated, Classify, StartCall, PoolWaits, GroupEnds,
           PrepareAnswers, StageRejects, Started, RaceSettles, Finalize, CommitFinal,
           CommitPost, Commit, CommitEnds, SkipCall, SkipEnds, Drained, RecoverCall,
           RecoverEnds, AskBody, BodyReturns, DispatchReturns, DispatchRejects, Abort, vars
  <2> QED BY <1>3, <2>1 DEF Prepared
<1>4. ASSUME IInv, Next, NEW c \in Calls, stage'[c] = "body", stage[c] # "body" PROVE ~signal
  <2>0. stage \in [Calls -> {"none", "settled"} \cup Busy]
    BY <1>4 DEF IInv, PlainTypes
  <2>1. CASE Prepared
    <3>1. \/ stage' = [stage EXCEPT ![index] = "wrapper"]
          \/ stage' = stage
      BY <2>1 DEF Prepared, TakeAnswer
    <3> QED BY <1>4, <2>0, <3>1
  <2>2. ASSUME NEW d \in Calls, AskBody(d) PROVE ~signal
    BY <1>4, <2>0, <2>2 DEF AskBody
  <2>3. ASSUME NEW d \in Calls, BodyReturns(d) \/ DispatchReturns(d) \/ DispatchRejects(d)
        PROVE  FALSE
    <3>1. \E v \in {"wrapper", "settled"} : stage' = [stage EXCEPT ![d] = v]
      BY <2>3 DEF BodyReturns, DispatchReturns, DispatchRejects, Settle
    <3> QED BY <1>4, <2>0, <3>1
  <2>4. CASE UNCHANGED stage
    BY <1>4, <2>4
  <2> QED
    BY <1>4, <2>1, <2>2, <2>3, <2>4
       DEF Next, Scheduler, Dispatches, Terminated, Classify, StartCall, PoolWaits, GroupEnds,
           PrepareAnswers, StageRejects, Started, RaceSettles, Finalize, CommitFinal,
           CommitPost, Commit, CommitEnds, SkipCall, SkipEnds, Drained, RecoverCall,
           RecoverEnds, Abort, vars
<1>5. IInv /\ [Next]_vars
        => [/\ pc' = "prepare" /\ pc # "prepare" => ~signal /\ ~failed
            /\ pc' = "toDispatch" /\ pc # "toDispatch" => ~signal
            /\ ~(inFlight' \subseteq inFlight) => ~failed
            /\ \A c \in Calls : stage'[c] = "body" /\ stage[c] # "body" => ~signal]_vars
  BY <1>1, <1>2, <1>3, <1>4
<1> QED BY <1>5, Invariance, PTL DEF NoLateWork, Spec

\* The scheduler implements AnsweredStep: for any number of calls and any order
\* in which they settle, fail or are skipped, the transcript has their results
\* in the order of the message, one each, and all of them when it closes.
THEOREM Refinement == Spec => ImplementsAnsweredStep
<1>1. Init => Transcript!Init
  BY DEF Init, Transcript!Init
<1>2. ASSUME IInv, [Next]_vars
      PROVE  [Transcript!Answer \/ Transcript!Close]_<<answers, pc # "closed">>
  <2>1. Answered \in Nat /\ Answered = Len(answers)
    BY <1>2, CountersTyped DEF IInv, Answered
  <2>2. ASSUME answers' = Append(answers, Answered + 1), Answered + 1 <= NCalls,
               pc # "closed", pc' # "closed"
        PROVE  Transcript!Answer
    BY <2>1, <2>2 DEF Transcript!Answer
  <2>3. ASSUME answers' = answers, Answered = NCalls, pc # "closed", pc' = "closed"
        PROVE  Transcript!Close
    BY <2>1, <2>3 DEF Transcript!Close
  <2>4. ASSUME NEW throws \in BOOLEAN, CommitFinal(throws) \/ CommitPost(throws)
        PROVE  Transcript!Answer
    <3>1. pc \in {"commit", "finalize"} /\ Ready
      BY <1>2, <2>4 DEF CommitFinal, CommitPost, IInv, PlaceInv
    <3>2. committed + 1 \in Calls /\ Answered = committed
      BY <1>2, <3>1, ReadyStarted DEF IInv, LogInv, InGroup
    <3>3. PICK r : Commit(r, throws)
      BY <2>4 DEF CommitFinal, CommitPost
    <3>4. answers' = Append(answers, Answered + 1) /\ pc' \in {"draining", "commit"}
      BY <3>2, <3>3 DEF Commit, AppendResult, Fail
    <3> QED BY <2>2, <3>1, <3>2, <3>4 DEF Calls
  <2>5. CASE SkipCall
    <3>1. pc = "skip" /\ pc' = "skip" /\ index <= NCalls /\ answers' = Append(answers, index)
      BY <2>5 DEF SkipCall
    <3> QED BY <1>2, <2>2, <3>1 DEF IInv, LogInv
  <2>6. CASE RecoverCall
    <3>1. pc = "recover" /\ pc' = "recover"
      BY <2>6 DEF RecoverCall
    <3> QED BY <1>2, <2>2, <2>6, <3>1, RecoverEffect DEF IInv, Calls
  <2>7. ASSUME pc' = "closed", pc # "closed", answers' = answers
        PROVE  Transcript!Close
    <3>1. IInv'
      BY <1>2, PlainStep, PlaceStep, PoolStep, CallStep, LogStep DEF IInv
    <3>2. Answered = NCalls
      BY <2>7, <3>1 DEF IInv, LogInv, Answered
    <3> QED BY <2>3, <2>7, <3>2
  <2>8. CASE UNCHANGED answers /\ (pc = "closed" <=> pc' = "closed")
    BY <2>8
  <2>9. CASE UNCHANGED vars
    BY <2>8, <2>9 DEF vars
  <2>10. ASSUME Classify \/ StartCall \/ PoolWaits \/ GroupEnds \/ PrepareAnswers
                  \/ Prepared \/ StageRejects \/ Started \/ RaceSettles \/ Finalize \/ CommitEnds \/ SkipEnds
                  \/ Drained \/ RecoverEnds \/ Dispatches \/ Abort
         PROVE  UNCHANGED answers /\ pc # "closed"
    BY <2>10
       DEF Classify, StartCall, AppendCall, PoolWaits, GroupEnds, PrepareAnswers, Prepared,
           TakeAnswer, Fail, StageRejects, Started, RaceSettles, Finalize, CommitEnds, SkipEnds, Drained, RecoverEnds,
           Dispatches, AskBody, BodyReturns, DispatchReturns, DispatchRejects, Abort, Awaits
  <2> QED BY <1>2, <2>4, <2>5, <2>6, <2>7, <2>8, <2>9, <2>10 DEF Next, Scheduler, Terminated
<1> QED BY <1>1, <1>2, Invariance, PTL DEF Spec, ImplementsAnsweredStep, Transcript!Spec

-----------------------------------------------------------------------------
(* Answers and effects.                                                    *)

LEMMA HonestStep == MaxTries = 1 /\ IInv /\ HonestInv /\ [Next]_vars => HonestInv'
<1> SUFFICES ASSUME MaxTries = 1, IInv, HonestInv, [Next]_vars PROVE HonestInv'
  OBVIOUS
<1> USE DEF HonestInv, Busy
<1>1. CASE Classify
  BY <1>1 DEF Classify, AppendCall, Answered
<1>2. CASE StartCall
  BY <1>2 DEF StartCall, AppendCall, MayStart, Answered
<1>3. CASE PoolWaits
  BY <1>3 DEF PoolWaits, MayStart, MayBarrier, Answered
<1>4. CASE GroupEnds
  BY <1>4 DEF GroupEnds, MayStart, MayBarrier, Answered
<1>5. CASE Prepared
  <2>0. /\ pc \in Returned /\ index \in Calls /\ stage[index] = "none" /\ ~invoked[index]
        /\ index \notin disowned /\ UNCHANGED <<tries, got, invoked, answers, disowned>>
    <3>1. pc \in Returned /\ UNCHANGED <<tries, got, invoked, answers, disowned>>
      BY <1>5 DEF Prepared, TakeAnswer
    <3>2. index \in Calls /\ committed < index /\ Answered = committed
      BY <3>1, LastInMessage DEF IInv, PlaceInv, LogInv, InGroup, PlainTypes, Calls
    <3>3. index \notin disowned
      BY <3>1, <3>2, CountersTyped DEF IInv
    <3> QED BY <3>1, <3>2, <3>3 DEF IInv, CallInv, Calls
  <2>1. Answered' = Answered
    BY <2>0 DEF Answered
  <2>2. CASE pc' = "draining" /\ UNCHANGED <<stage, slots>>
    BY <2>0, <2>1, <2>2
  <2>3. CASE stage' = [stage EXCEPT ![index] = "wrapper"] /\ pc' = "started" /\ UNCHANGED slots
    BY <2>0, <2>1, <2>3 DEF IInv, PlainTypes
  <2>4. ASSUME NEW post \in BOOLEAN, NEW r \in {"error", "undispatched"},
               slots' = [slots EXCEPT ![index] = [needsPost |-> post, result |-> r]],
               pc' = "started", UNCHANGED stage
        PROVE  HonestInv'
    <3>1. slots'[index].result = r /\ \A d \in Calls \ {index} : slots'[d] = slots[d]
      BY <2>0, <2>4 DEF IInv, PlainTypes
    <3> QED BY <2>0, <2>1, <2>4, <3>1
  <2> QED BY <1>5, <2>2, <2>3, <2>4 DEF Prepared, TakeAnswer, Fail
<1>6. CASE StageRejects
  BY <1>6 DEF StageRejects, Fail, Answered
<1>7. CASE Started
  BY <1>7 DEF Started, Fail, Answered
<1>8. CASE RaceSettles
  BY <1>8 DEF RaceSettles, Fail, Running, Answered
<1>9. CASE Finalize
  BY <1>9 DEF Finalize, Ready, Answered
<1>10. ASSUME NEW throws \in BOOLEAN, CommitFinal(throws) PROVE HonestInv'
  <2>0. pc \in {"commit", "finalize"} /\ Ready
    BY <1>10 DEF CommitFinal, CommitPost, IInv, PlaceInv
  <2>1. committed + 1 \in Calls /\ Answered = committed
    BY <2>0, ReadyStarted DEF IInv, LogInv, InGroup
  <2> DEFINE c == committed + 1
  <2>2. slots[c].result # "none" /\ stage[c] \notin Busy
    BY <2>0, <2>1 DEF Ready, IInv, CallInv
  <2>3. PICK r : Commit(r, throws) /\ (r = "undispatched" => ~invoked[c])
    <3>1. slots[c].result = "undispatched" => ~invoked[c]
      BY <2>1
    <3> QED BY <1>10, <3>1 DEF CommitFinal, CommitPost, Cancelled
  <2>4. /\ disowned' \subseteq disowned \cup {c} /\ (c \in disowned' \ disowned => r = "undispatched")
        /\ answers' = Append(answers, c) /\ UNCHANGED <<pipelineVars, slots>>
    BY <2>3 DEF Commit, AppendResult
  <2>5. Answered' = Answered + 1 /\ Answered \in Nat
    BY <2>1, <2>4, AnswerNext DEF IInv
  <2>6. \A d \in disowned' : ~invoked[d] /\ stage[d] \notin Busy
    BY <2>2, <2>3, <2>4
  <2>7. \A d \in disowned' : d <= Answered'
    BY <2>0, <2>1, <2>4, <2>5, CountersTyped DEF IInv, PlainTypes, Calls
  <2> QED BY <2>4, <2>6, <2>7
<1>11. ASSUME NEW throws \in BOOLEAN, CommitPost(throws) PROVE HonestInv'
  <2>0. pc \in {"commit", "finalize"} /\ Ready
    BY <1>11 DEF CommitFinal, CommitPost, IInv, PlaceInv
  <2>1. committed + 1 \in Calls /\ Answered = committed
    BY <2>0, ReadyStarted DEF IInv, LogInv, InGroup
  <2> DEFINE c == committed + 1
  <2>2. slots[c].result # "none" /\ stage[c] \notin Busy
    BY <2>0, <2>1 DEF Ready, IInv, CallInv
  <2>3. PICK r : Commit(r, throws) /\ (r = "undispatched" => ~invoked[c])
    <3>1. slots[c].result = "undispatched" => ~invoked[c]
      BY <2>1
    <3> QED BY <1>11, <3>1 DEF CommitFinal, CommitPost, Cancelled
  <2>4. /\ disowned' \subseteq disowned \cup {c} /\ (c \in disowned' \ disowned => r = "undispatched")
        /\ answers' = Append(answers, c) /\ UNCHANGED <<pipelineVars, slots>>
    BY <2>3 DEF Commit, AppendResult
  <2>5. Answered' = Answered + 1 /\ Answered \in Nat
    BY <2>1, <2>4, AnswerNext DEF IInv
  <2>6. \A d \in disowned' : ~invoked[d] /\ stage[d] \notin Busy
    BY <2>2, <2>3, <2>4
  <2>7. \A d \in disowned' : d <= Answered'
    BY <2>0, <2>1, <2>4, <2>5, CountersTyped DEF IInv, PlainTypes, Calls
  <2> QED BY <2>4, <2>6, <2>7
<1>12. CASE CommitEnds
  BY <1>12 DEF CommitEnds, Fail, Answered
<1>13. CASE SkipCall
  <2>1. /\ pc = "skip" /\ pc' = "skip" /\ index <= NCalls /\ answers' = Append(answers, index)
        /\ disowned' = disowned \cup {index} /\ UNCHANGED <<pipelineVars, slots>>
    BY <1>13 DEF SkipCall
  <2>2. index \in Calls /\ ~invoked[index] /\ stage[index] = "none" /\ index = Answered + 1
    BY <2>1 DEF IInv, PlainTypes, CallInv, LogInv, Calls
  <2>3. Answered' = Answered + 1 /\ Answered \in Nat
    BY <2>1, <2>2, AnswerNext DEF IInv
  <2>4. \A d \in disowned' : d <= Answered'
    BY <2>1, <2>2, <2>3 DEF IInv, PlainTypes, Calls
  <2> QED BY <2>1, <2>2, <2>4
<1>14. CASE SkipEnds
  BY <1>14 DEF SkipEnds, Answered
<1>15. CASE Drained
  BY <1>15 DEF Drained, Running, Answered
<1>16. CASE RecoverCall
  <2>1. /\ Answered + 1 \in Calls /\ disowned' = disowned \cup ({Answered + 1} \ called)
    BY <1>16, RecoverEffect DEF IInv
  <2>2. pc = "recover" /\ UNCHANGED <<pc, pipelineVars, slots>>
    BY <1>16 DEF RecoverCall
  <2>3. Answered + 1 \notin called => Answered + 1 >= index
    BY <2>1, CountersTyped DEF IInv, LogInv, Calls
  <2>4. Answered + 1 \notin called => ~invoked[Answered + 1] /\ stage[Answered + 1] = "none"
    BY <2>1, <2>3 DEF IInv, CallInv
  <2> QED BY <2>1, <2>2, <2>4
<1>17. CASE RecoverEnds
  BY <1>17 DEF RecoverEnds, Answered
<1>18. ASSUME NEW c \in Calls, AskBody(c) PROVE HonestInv'
  <2>1. /\ stage[c] = "wrapper" /\ tries[c] = 0 /\ c \notin disowned
        /\ tries' = [tries EXCEPT ![c] = 1] /\ UNCHANGED <<pc, slots, answers, disowned>>
    <3>1. tries[c] < MaxTries /\ tries' = [tries EXCEPT ![c] = tries[c] + 1]
      BY <1>18 DEF AskBody
    <3>2. tries[c] \in 0..MaxTries
      BY DEF IInv, PlainTypes
    <3>3. tries[c] = 0 /\ tries[c] + 1 = 1
      BY <3>1, <3>2
    <3>4. stage[c] = "wrapper" /\ UNCHANGED <<pc, slots, answers, disowned>>
      BY <1>18 DEF AskBody
    <3> QED BY <3>1, <3>3, <3>4
  <2>2. slots[c].result = "none" /\ got[c] = "none" /\ ~invoked[c] /\ Answered' = Answered
    BY <2>1 DEF IInv, CallInv, Answered
  <2>3. CASE got' = [got EXCEPT ![c] = "undispatched"] /\ UNCHANGED <<stage, invoked>>
    BY <2>1, <2>2, <2>3 DEF IInv, PlainTypes
  <2>4. CASE /\ stage' = [stage EXCEPT ![c] = "body"] /\ invoked' = [invoked EXCEPT ![c] = TRUE]
             /\ UNCHANGED got
    BY <2>1, <2>2, <2>4 DEF IInv, PlainTypes
  <2> QED BY <1>18, <2>3, <2>4 DEF AskBody
<1>19. ASSUME NEW c \in Calls, BodyReturns(c) PROVE HonestInv'
  BY <1>19 DEF BodyReturns, Cancelled, Answered, IInv, PlainTypes
<1>20. ASSUME NEW c \in Calls, DispatchReturns(c) PROVE HonestInv'
  <2>1. /\ stage[c] = "wrapper" /\ UNCHANGED <<pc, invoked, answers, disowned>>
        /\ stage' = [stage EXCEPT ![c] = "settled"] /\ tries' = [tries EXCEPT ![c] = 0]
        /\ got' = [got EXCEPT ![c] = "none"]
    BY <1>20 DEF DispatchReturns, Settle
  <2>2. \A r \in WrapperResults(c) : Cancelled(c, r) = "undispatched" => ~invoked[c]
    BY <2>1 DEF WrapperResults, Cancelled
  <2>3. PICK r : (r = "undispatched" => ~invoked[c]) /\ \E post \in BOOLEAN :
           slots' = [slots EXCEPT ![c] = [needsPost |-> post, result |-> r]]
    BY <1>20, <2>2 DEF DispatchReturns
  <2>4. slots'[c].result = r /\ \A d \in Calls \ {c} : slots'[d] = slots[d]
    BY <2>3 DEF IInv, PlainTypes
  <2>5. Answered' = Answered
    BY <2>1 DEF Answered
  <2> QED BY <2>1, <2>3, <2>4, <2>5 DEF IInv, PlainTypes
<1>21. ASSUME NEW c \in Calls, DispatchRejects(c) PROVE HonestInv'
  BY <1>21 DEF DispatchRejects, Settle, Answered, IInv, PlainTypes
<1>22. CASE Abort
  BY <1>22 DEF Abort, Answered
<1>23. CASE UNCHANGED vars
  BY <1>23 DEF vars, Answered
<1>24. CASE PrepareAnswers
  BY <1>24 DEF PrepareAnswers, Answered
<1> QED
  BY <1>1, <1>2, <1>3, <1>4, <1>5, <1>6, <1>7, <1>8, <1>9, <1>10, <1>11,
     <1>12, <1>13, <1>14, <1>15, <1>16, <1>17, <1>18, <1>19, <1>20, <1>21,
     <1>22, <1>23, <1>24 DEF Next, Scheduler, Dispatches, Terminated

\* With wrappers that ask for a body once, no answer says "this tool did not
\* run" of a tool that ran, whatever aborts, failures and recovery come between.
\* (A wrapper that asks twice breaks it: run retried_body.)
THEOREM HonestAnswersAlways ==
  ASSUME MaxTries = 1 PROVE Spec => []HonestAnswers
<1>1. Init => HonestInv
  BY DEF Init, HonestInv, Busy, Empty
<1>2. IInv /\ HonestInv /\ [Next]_vars => HonestInv'
  BY HonestStep
<1>3. HonestInv => HonestAnswers
  BY DEF HonestInv, HonestAnswers
<1> QED BY <1>1, <1>2, <1>3, Invariance, PTL DEF Spec
==============================================================================
