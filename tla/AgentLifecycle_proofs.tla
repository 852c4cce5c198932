----------------------- MODULE AgentLifecycle_proofs -----------------------
(***************************************************************************)
(* Proofs about AgentLifecycle, for any attempts on any factories and any  *)
(* number of signals and faults.                                           *)
(*                                                                         *)
(* The argument is one inductive invariant:                                *)
(*   TypeOK    the types;                                                  *)
(*   PlaceInv  where an attempt is says how far its operation in the       *)
(*             backend and its disposal are;                               *)
(*   ClaimInv  the write claim is of the attempt whose operation took it;  *)
(*   ReadyInv  a disposal that has not begun has its owner and factory;    *)
(*   EntryInv  the registries name an attempt from its publication to the  *)
(*             end of its disposal;                                        *)
(*   DrainInv  in a factory that is down nothing goes on.                  *)
(***************************************************************************)
EXTENDS AgentLifecycle, TLAPS

Claims == {"claimed", "open", "held"}

Placed(a) ==
  \/ pc[a] \in {"asked", "waiting", "new"} /\ disp[a] = "unprepared" /\ io[a] \in {"none", "absent"}
  \/ pc[a] = "opening" /\ disp[a] = "unprepared" /\ io[a] \notin {"none", "held"}
  \/ pc[a] \in {"repairing", "unwinding"} /\ disp[a] = "unprepared" /\ io[a] = "held"
  \/ pc[a] \in Initializing /\ disp[a] \in {"ready", "idle"} /\ io[a] = "held"
  \/ pc[a] = "live" /\ disp[a] = "ready" /\ io[a] = "held"
  \/ pc[a] \in {"live", "rollback"} /\ disp[a] \in {"idle", "close"} /\ io[a] = "held"
  \/ pc[a] \in {"live", "rollback"} /\ disp[a] \in {"detach", "done"} /\ io[a] = "none"
  \/ pc[a] = "rejected" /\ disp[a] = "unprepared" /\ io[a] # "held"
  \/ pc[a] = "rejected" /\ disp[a] = "done" /\ io[a] = "none"
PlaceInv == \A a \in Attempts : Placed(a)

ClaimInv == \A a \in Attempts : io[a] \in Claims <=> writer = a

ReadyInv == \A a \in Attempts : disp[a] = "ready" => owner[a] = "active" /\ Up(a)

EntryInv ==
  /\ session = agent
  /\ \A a \in Attempts :
       /\ session = a => pc[a] \in {"announcing", "rollback", "live"} /\ disp[a] # "done"
       /\ told[a] = "created" => session = a
       /\ pc[a] = "announcing" \/ (pc[a] = "live" /\ disp[a] # "done") => session = a

DrainInv ==
  broken = {} => \A a \in Attempts : factory[FactoryOf[a]] = "down"
    => pc[a] \in {"asked", "new", "live", "rejected"} /\ disp[a] \in {"unprepared", "done"}

IInv == TypeOK /\ PlaceInv /\ ClaimInv /\ ReadyInv /\ EntryInv /\ DrainInv

USE AttemptsAssumption

\* The types are inductive alone.
LEMMA TypeStep ==
  ASSUME TypeOK, [Next]_vars
  PROVE  TypeOK'
<1> USE DEF TypeOK, Initializing, Disposing, Attempts, Goto, Fault, ends,
  entries, backend, vars
<1>1. CASE UNCHANGED vars
  BY <1>1
<1>2. ASSUME NEW a \in Attempts, StopWaiting(a) PROVE TypeOK'
  BY <1>2 DEF StopWaiting
<1>3. ASSUME NEW a \in Attempts, Look(a) PROVE TypeOK'
  BY <1>3 DEF Look, Answers
<1>4. ASSUME NEW a \in Attempts, Claim(a) PROVE TypeOK'
  BY <1>4 DEF Claim, Answers
<1>5. ASSUME NEW a \in Attempts, Find(a) PROVE TypeOK'
  BY <1>5 DEF Find, Answers
<1>6. ASSUME NEW a \in Attempts, BackendFails(a) PROVE TypeOK'
  BY <1>6 DEF BackendFails, Answers
<1>7. ASSUME NEW a \in Attempts, CloseAbandoned(a) PROVE TypeOK'
  BY <1>7 DEF CloseAbandoned, Answers
<1>8. ASSUME NEW a \in Attempts, Open(a) PROVE TypeOK'
  BY <1>8 DEF Open, Answers
<1>9. ASSUME NEW a \in Attempts, Abandon(a) PROVE TypeOK'
  BY <1>9 DEF Abandon
<1>10. ASSUME NEW a \in Attempts, OpenFails(a) PROVE TypeOK'
  BY <1>10 DEF OpenFails
<1>11. ASSUME NEW a \in Attempts, Opened(a) PROVE TypeOK'
  BY <1>11 DEF Opened, Answers, Prepare
<1>12. ASSUME NEW a \in Attempts, Repaired(a) PROVE TypeOK'
  BY <1>12 DEF Repaired, Prepare
<1>13. ASSUME NEW a \in Attempts, RepairFails(a) PROVE TypeOK'
  BY <1>13 DEF RepairFails
<1>14. ASSUME NEW a \in Attempts, Unwound(a) PROVE TypeOK'
  BY <1>14 DEF Unwound, Answers
<1>15. ASSUME NEW a \in Attempts, SetUp(a) PROVE TypeOK'
  BY <1>15 DEF SetUp
<1>16. ASSUME NEW a \in Attempts, SetUpStops(a) PROVE TypeOK'
  BY <1>16 DEF SetUpStops, Fail
<1>17. ASSUME NEW a \in Attempts, Publish(a) PROVE TypeOK'
  <2>1. stored' \in BOOLEAN
    BY <1>17, Zenon DEF Publish
  <2>2. /\ UNCHANGED <<factory, owner, cancelled, how, io, writer, broken>>
        /\ pc' \in {[pc EXCEPT ![a] = l] : l \in {"rollback", "announcing"}}
        /\ disp' \in {disp, [disp EXCEPT ![a] = IF @ = "ready" THEN "idle" ELSE @]}
        /\ told' \in {told, [told EXCEPT ![a] = "created"]}
        /\ session' \in {session, a} /\ agent' \in {agent, a}
        /\ faults' \in 0..MaxFaults
    BY <1>17 DEF Publish, Fail
  <2> QED BY <2>1, <2>2
<1>18. ASSUME NEW a \in Attempts, StoreFails(a) PROVE TypeOK'
  BY <1>18 DEF StoreFails, Fail
<1>19. ASSUME NEW a \in Attempts, Announced(a) PROVE TypeOK'
  BY <1>19 DEF Announced, Fail
<1>20. ASSUME NEW a \in Attempts, RolledBack(a) PROVE TypeOK'
  BY <1>20 DEF RolledBack
<1>21. ASSUME NEW a \in Attempts, Dispose(a) PROVE TypeOK'
  BY <1>21 DEF Dispose, Stage
<1>22. ASSUME NEW a \in Attempts, Quiet(a) PROVE TypeOK'
  BY <1>22 DEF Quiet, Stage, Breaks
<1>23. ASSUME NEW a \in Attempts, HandleClosed(a) PROVE TypeOK'
  BY <1>23 DEF HandleClosed, Stage, Breaks, Answers
<1>24. ASSUME NEW a \in Attempts, Detach(a) PROVE TypeOK'
  BY <1>24 DEF Detach, Stage
<1>25. ASSUME NEW a \in Attempts, LiveWrites(a) PROVE TypeOK'
  BY <1>25 DEF LiveWrites
<1>26. ASSUME NEW a \in Attempts, Cancel(a) PROVE TypeOK'
  BY <1>26 DEF Cancel
<1>27. ASSUME NEW a \in Attempts, OwnerUnloads(a) PROVE TypeOK'
  BY <1>27 DEF OwnerUnloads, Stage
<1>28. ASSUME NEW a \in Attempts, OwnerGone(a) PROVE TypeOK'
  BY <1>28 DEF OwnerGone
<1>29. ASSUME NEW f \in Factories, Mount(f) PROVE TypeOK'
  BY <1>29 DEF Mount
<1>30. ASSUME NEW f \in Factories, FactoryUnloads(f) PROVE TypeOK'
  BY <1>30 DEF FactoryUnloads
<1>31. ASSUME NEW f \in Factories, FactoryDown(f) PROVE TypeOK'
  BY <1>31 DEF FactoryDown
<1> QED BY <1>1, <1>2, <1>3, <1>4, <1>5, <1>6, <1>7, <1>8, <1>9, <1>10, <1>11,
  <1>12, <1>13, <1>14, <1>15, <1>16, <1>17, <1>18, <1>19, <1>20, <1>21, <1>22,
  <1>23, <1>24, <1>25, <1>26, <1>27, <1>28, <1>29, <1>30, <1>31 DEF Next,
  Advance, Answering

\* A claim is taken when there is none, and given back by who has it.
LEMMA ClaimStep ==
  ASSUME TypeOK, PlaceInv, ClaimInv, [Next]_vars
  PROVE  ClaimInv'
<1> USE DEF TypeOK, PlaceInv, Placed, ClaimInv, Claims, Initializing,
  Disposing, Goto, Fault, ends, entries, backend
<1>1. CASE UNCHANGED <<io, writer>>
  BY <1>1
<1>2. ASSUME NEW a \in Attempts, Look(a) PROVE ClaimInv'
  BY <1>2 DEF Look, Answers
<1>3. ASSUME NEW a \in Attempts, Claim(a) PROVE ClaimInv'
  BY <1>3 DEF Claim, Answers
<1>4. ASSUME NEW a \in Attempts, Find(a) PROVE ClaimInv'
  BY <1>4 DEF Find, Answers
<1>5. ASSUME NEW a \in Attempts, BackendFails(a) PROVE ClaimInv'
  BY <1>5 DEF BackendFails, Answers
<1>6. ASSUME NEW a \in Attempts, CloseAbandoned(a) PROVE ClaimInv'
  BY <1>6 DEF CloseAbandoned, Answers
<1>7. ASSUME NEW a \in Attempts, Open(a) PROVE ClaimInv'
  BY <1>7 DEF Open, Answers
<1>8. ASSUME NEW a \in Attempts, Opened(a) PROVE ClaimInv'
  BY <1>8 DEF Opened, Answers, Prepare
<1>9. ASSUME NEW a \in Attempts, Unwound(a) PROVE ClaimInv'
  BY <1>9 DEF Unwound, Answers
<1>10. ASSUME NEW a \in Attempts, HandleClosed(a) PROVE ClaimInv'
  BY <1>10 DEF HandleClosed, Stage, Breaks, Answers
<1>11. ASSUME NEW a \in Attempts,
           StopWaiting(a) \/ Abandon(a) \/ OpenFails(a) \/
             Repaired(a) \/ RepairFails(a) \/ SetUp(a) \/
             SetUpStops(a) \/ Publish(a) \/ StoreFails(a) \/
             Announced(a) \/ RolledBack(a) \/ Dispose(a) \/
             Quiet(a) \/ Detach(a) \/ LiveWrites(a) \/ Cancel(a) \/
             OwnerUnloads(a) \/ OwnerGone(a)
      PROVE  UNCHANGED <<io, writer>>
  BY <1>11 DEF StopWaiting, Abandon, OpenFails, Repaired, RepairFails,
    SetUp, SetUpStops, Publish, StoreFails, Announced, RolledBack, Dispose,
    Quiet, Detach, LiveWrites, Cancel, OwnerUnloads, OwnerGone, Breaks,
    Fail, Prepare, Stage, Unoccupied
<1>12. ASSUME NEW f \in Factories, Mount(f) \/ FactoryUnloads(f) \/ FactoryDown(f) PROVE UNCHANGED <<io, writer>>
  BY <1>12 DEF Mount, FactoryUnloads, FactoryDown
<1> QED BY <1>1, <1>2, <1>3, <1>4, <1>5, <1>6, <1>7, <1>8, <1>9, <1>10, <1>11,
  <1>12 DEF Next, Advance, Answering, vars

\* A step moves one attempt on, a factory's some; all stay consistent.
LEMMA PlaceStep ==
  ASSUME TypeOK, PlaceInv, [Next]_vars
  PROVE  PlaceInv'
<1> USE DEF TypeOK, PlaceInv, Placed, Initializing, Disposing, Goto, Fault,
  ends, entries, backend
<1>1. CASE UNCHANGED <<pc, io, disp>>
  BY <1>1
<1>2. ASSUME NEW a \in Attempts, StopWaiting(a) PROVE PlaceInv'
  BY <1>2 DEF StopWaiting
<1>3. ASSUME NEW a \in Attempts, Look(a) PROVE PlaceInv'
  BY <1>3 DEF Look, Answers
<1>4. ASSUME NEW a \in Attempts, Claim(a) PROVE PlaceInv'
  BY <1>4 DEF Claim, Answers
<1>5. ASSUME NEW a \in Attempts, Find(a) PROVE PlaceInv'
  BY <1>5 DEF Find, Answers
<1>6. ASSUME NEW a \in Attempts, BackendFails(a) PROVE PlaceInv'
  BY <1>6 DEF BackendFails, Answers
<1>7. ASSUME NEW a \in Attempts, CloseAbandoned(a) PROVE PlaceInv'
  BY <1>7 DEF CloseAbandoned, Answers
<1>8. ASSUME NEW a \in Attempts, Open(a) PROVE PlaceInv'
  BY <1>8 DEF Open, Answers
<1>9. ASSUME NEW a \in Attempts, Abandon(a) PROVE PlaceInv'
  BY <1>9 DEF Abandon
<1>10. ASSUME NEW a \in Attempts, OpenFails(a) PROVE PlaceInv'
  BY <1>10 DEF OpenFails
<1>11. ASSUME NEW a \in Attempts, Opened(a) PROVE PlaceInv'
  BY <1>11 DEF Opened, Answers, Prepare
<1>12. ASSUME NEW a \in Attempts, Repaired(a) PROVE PlaceInv'
  BY <1>12 DEF Repaired, Prepare
<1>13. ASSUME NEW a \in Attempts, RepairFails(a) PROVE PlaceInv'
  BY <1>13 DEF RepairFails
<1>14. ASSUME NEW a \in Attempts, Unwound(a) PROVE PlaceInv'
  BY <1>14 DEF Unwound, Answers
<1>15. ASSUME NEW a \in Attempts, SetUp(a) PROVE PlaceInv'
  BY <1>15 DEF SetUp
<1>16. ASSUME NEW a \in Attempts, SetUpStops(a) PROVE PlaceInv'
  BY <1>16 DEF SetUpStops, Fail
<1>17. ASSUME NEW a \in Attempts, Publish(a) PROVE PlaceInv'
  BY <1>17 DEF Publish, Fail, Unoccupied
<1>18. ASSUME NEW a \in Attempts, StoreFails(a) PROVE PlaceInv'
  BY <1>18 DEF StoreFails, Fail
<1>19. ASSUME NEW a \in Attempts, Announced(a) PROVE PlaceInv'
  BY <1>19 DEF Announced, Fail
<1>20. ASSUME NEW a \in Attempts, RolledBack(a) PROVE PlaceInv'
  BY <1>20 DEF RolledBack
<1>21. ASSUME NEW a \in Attempts, Dispose(a) PROVE PlaceInv'
  BY <1>21 DEF Dispose, Stage
<1>22. ASSUME NEW a \in Attempts, Quiet(a) PROVE PlaceInv'
  BY <1>22 DEF Quiet, Stage, Breaks
<1>23. ASSUME NEW a \in Attempts, HandleClosed(a) PROVE PlaceInv'
  BY <1>23 DEF HandleClosed, Stage, Breaks, Answers
<1>24. ASSUME NEW a \in Attempts, Detach(a) PROVE PlaceInv'
  BY <1>24 DEF Detach, Stage
<1>25. ASSUME NEW a \in Attempts, OwnerUnloads(a) PROVE PlaceInv'
  BY <1>25 DEF OwnerUnloads, Stage
<1>26. ASSUME NEW f \in Factories, Mount(f) PROVE PlaceInv'
  BY <1>26 DEF Mount
<1>27. ASSUME NEW f \in Factories, FactoryUnloads(f) PROVE PlaceInv'
  BY <1>27 DEF FactoryUnloads
<1>28. ASSUME NEW a \in Attempts,
           LiveWrites(a) \/ Cancel(a) \/ OwnerGone(a)
      PROVE  UNCHANGED <<pc, io, disp>>
  BY <1>28 DEF LiveWrites, Cancel, OwnerGone
<1>29. ASSUME NEW f \in Factories, FactoryDown(f) PROVE UNCHANGED <<pc, io, disp>>
  BY <1>29 DEF FactoryDown
<1> QED BY <1>1, <1>2, <1>3, <1>4, <1>5, <1>6, <1>7, <1>8, <1>9, <1>10, <1>11,
  <1>12, <1>13, <1>14, <1>15, <1>16, <1>17, <1>18, <1>19, <1>20, <1>21, <1>22,
  <1>23, <1>24, <1>25, <1>26, <1>27, <1>28, <1>29 DEF Next, Advance,
  Answering, vars

\* Whoever goes starts the disposal.
LEMMA ReadyStep ==
  ASSUME TypeOK, PlaceInv, ReadyInv, [Next]_vars
  PROVE  ReadyInv'
<1> USE DEF TypeOK, PlaceInv, Placed, ReadyInv, Up, Initializing, Disposing,
  Goto, Fault, ends, entries, backend
<1>1. CASE UNCHANGED <<factory, owner, disp>>
  BY <1>1
<1>2. ASSUME NEW a \in Attempts, Opened(a) PROVE ReadyInv'
  BY <1>2 DEF Opened, Answers, Prepare
<1>3. ASSUME NEW a \in Attempts, Repaired(a) PROVE ReadyInv'
  BY <1>3 DEF Repaired, Prepare
<1>4. ASSUME NEW a \in Attempts, SetUpStops(a) PROVE ReadyInv'
  BY <1>4 DEF SetUpStops, Fail
<1>5. ASSUME NEW a \in Attempts, Publish(a) PROVE ReadyInv'
  BY <1>5 DEF Publish, Fail, Unoccupied
<1>6. ASSUME NEW a \in Attempts, StoreFails(a) PROVE ReadyInv'
  BY <1>6 DEF StoreFails, Fail
<1>7. ASSUME NEW a \in Attempts, Announced(a) PROVE ReadyInv'
  BY <1>7 DEF Announced, Fail
<1>8. ASSUME NEW a \in Attempts, Dispose(a) PROVE ReadyInv'
  BY <1>8 DEF Dispose, Stage
<1>9. ASSUME NEW a \in Attempts, Quiet(a) PROVE ReadyInv'
  BY <1>9 DEF Quiet, Stage, Breaks
<1>10. ASSUME NEW a \in Attempts, HandleClosed(a) PROVE ReadyInv'
  BY <1>10 DEF HandleClosed, Stage, Breaks, Answers
<1>11. ASSUME NEW a \in Attempts, Detach(a) PROVE ReadyInv'
  BY <1>11 DEF Detach, Stage
<1>12. ASSUME NEW a \in Attempts, OwnerUnloads(a) PROVE ReadyInv'
  BY <1>12 DEF OwnerUnloads, Stage
<1>13. ASSUME NEW a \in Attempts, OwnerGone(a) PROVE ReadyInv'
  BY <1>13 DEF OwnerGone
<1>14. ASSUME NEW f \in Factories, Mount(f) PROVE ReadyInv'
  BY <1>14 DEF Mount
<1>15. ASSUME NEW f \in Factories, FactoryUnloads(f) PROVE ReadyInv'
  BY <1>15 DEF FactoryUnloads
<1>16. ASSUME NEW f \in Factories, FactoryDown(f) PROVE ReadyInv'
  BY <1>16 DEF FactoryDown
<1>17. ASSUME NEW a \in Attempts,
           StopWaiting(a) \/ Look(a) \/ Claim(a) \/ Find(a) \/
             BackendFails(a) \/ CloseAbandoned(a) \/ Open(a) \/
             Abandon(a) \/ OpenFails(a) \/ RepairFails(a) \/
             Unwound(a) \/ SetUp(a) \/ RolledBack(a) \/
             LiveWrites(a) \/ Cancel(a)
      PROVE  UNCHANGED <<factory, owner, disp>>
  BY <1>17 DEF StopWaiting, Look, Claim, Find, BackendFails, CloseAbandoned,
    Open, Abandon, OpenFails, RepairFails, Unwound, SetUp, RolledBack,
    LiveWrites, Cancel, Answers
<1> QED BY <1>1, <1>2, <1>3, <1>4, <1>5, <1>6, <1>7, <1>8, <1>9, <1>10, <1>11,
  <1>12, <1>13, <1>14, <1>15, <1>16, <1>17 DEF Next, Advance, Answering, vars

\* The registries have the same entry, from publication to the end of disposal.
LEMMA EntryStep ==
  ASSUME TypeOK, PlaceInv, EntryInv, [Next]_vars
  PROVE  EntryInv'
<1> USE DEF TypeOK, PlaceInv, Placed, EntryInv, Initializing, Disposing, Goto,
  Fault, ends, entries, backend
<1>1. CASE UNCHANGED <<pc, disp, entries>>
  BY <1>1
<1>2. ASSUME NEW a \in Attempts, StopWaiting(a) PROVE EntryInv'
  BY <1>2 DEF StopWaiting
<1>3. ASSUME NEW a \in Attempts, Open(a) PROVE EntryInv'
  BY <1>3 DEF Open, Answers
<1>4. ASSUME NEW a \in Attempts, Abandon(a) PROVE EntryInv'
  BY <1>4 DEF Abandon
<1>5. ASSUME NEW a \in Attempts, OpenFails(a) PROVE EntryInv'
  BY <1>5 DEF OpenFails
<1>6. ASSUME NEW a \in Attempts, Opened(a) PROVE EntryInv'
  BY <1>6 DEF Opened, Answers, Prepare
<1>7. ASSUME NEW a \in Attempts, Repaired(a) PROVE EntryInv'
  BY <1>7 DEF Repaired, Prepare
<1>8. ASSUME NEW a \in Attempts, RepairFails(a) PROVE EntryInv'
  BY <1>8 DEF RepairFails
<1>9. ASSUME NEW a \in Attempts, Unwound(a) PROVE EntryInv'
  BY <1>9 DEF Unwound, Answers
<1>10. ASSUME NEW a \in Attempts, SetUp(a) PROVE EntryInv'
  BY <1>10 DEF SetUp
<1>11. ASSUME NEW a \in Attempts, SetUpStops(a) PROVE EntryInv'
  BY <1>11 DEF SetUpStops, Fail
<1>12. ASSUME NEW a \in Attempts, Publish(a) PROVE EntryInv'
  BY <1>12 DEF Publish, Fail, Unoccupied, Aborted
<1>13. ASSUME NEW a \in Attempts, StoreFails(a) PROVE EntryInv'
  BY <1>13 DEF StoreFails, Fail
<1>14. ASSUME NEW a \in Attempts, Announced(a) PROVE EntryInv'
  BY <1>14 DEF Announced, Fail, Aborted
<1>15. ASSUME NEW a \in Attempts, RolledBack(a) PROVE EntryInv'
  BY <1>15 DEF RolledBack
<1>16. ASSUME NEW a \in Attempts, Dispose(a) PROVE EntryInv'
  BY <1>16 DEF Dispose, Stage
<1>17. ASSUME NEW a \in Attempts, Quiet(a) PROVE EntryInv'
  BY <1>17 DEF Quiet, Stage, Breaks
<1>18. ASSUME NEW a \in Attempts, HandleClosed(a) PROVE EntryInv'
  BY <1>18 DEF HandleClosed, Stage, Breaks, Answers
<1>19. ASSUME NEW a \in Attempts, Detach(a) PROVE EntryInv'
  BY <1>19 DEF Detach, Stage
<1>20. ASSUME NEW a \in Attempts, OwnerUnloads(a) PROVE EntryInv'
  BY <1>20 DEF OwnerUnloads, Stage
<1>21. ASSUME NEW f \in Factories, Mount(f) PROVE EntryInv'
  BY <1>21 DEF Mount
<1>22. ASSUME NEW f \in Factories, FactoryUnloads(f) PROVE EntryInv'
  BY <1>22 DEF FactoryUnloads
<1>23. ASSUME NEW a \in Attempts,
           Look(a) \/ Claim(a) \/ Find(a) \/ BackendFails(a) \/
             CloseAbandoned(a) \/ LiveWrites(a) \/ Cancel(a) \/
             OwnerGone(a)
      PROVE  UNCHANGED <<pc, disp, entries>>
  BY <1>23 DEF Look, Claim, Find, BackendFails, CloseAbandoned, LiveWrites,
    Cancel, OwnerGone, Answers
<1>24. ASSUME NEW f \in Factories, FactoryDown(f) PROVE UNCHANGED <<pc, disp, entries>>
  BY <1>24 DEF FactoryDown
<1> QED BY <1>1, <1>2, <1>3, <1>4, <1>5, <1>6, <1>7, <1>8, <1>9, <1>10, <1>11,
  <1>12, <1>13, <1>14, <1>15, <1>16, <1>17, <1>18, <1>19, <1>20, <1>21, <1>22,
  <1>23, <1>24 DEF Next, Advance, Answering, vars

\* Nothing starts in a factory that is down.
LEMMA DrainStep ==
  ASSUME TypeOK, PlaceInv, DrainInv, [Next]_vars
  PROVE  DrainInv'
<1> USE DEF TypeOK, PlaceInv, Placed, DrainInv, Up, OpenAborted, Initializing,
  Disposing, Goto, Fault, ends, entries, backend
<1>1. CASE UNCHANGED <<factory, pc, disp, broken>>
  BY <1>1
<1>2. ASSUME NEW a \in Attempts, StopWaiting(a) PROVE DrainInv'
  BY <1>2 DEF StopWaiting
<1>3. ASSUME NEW a \in Attempts, Open(a) PROVE DrainInv'
  BY <1>3 DEF Open, Answers
<1>4. ASSUME NEW a \in Attempts, Abandon(a) PROVE DrainInv'
  BY <1>4 DEF Abandon
<1>5. ASSUME NEW a \in Attempts, OpenFails(a) PROVE DrainInv'
  BY <1>5 DEF OpenFails
<1>6. ASSUME NEW a \in Attempts, Opened(a) PROVE DrainInv'
  BY <1>6 DEF Opened, Answers, Prepare
<1>7. ASSUME NEW a \in Attempts, Repaired(a) PROVE DrainInv'
  BY <1>7 DEF Repaired, Prepare
<1>8. ASSUME NEW a \in Attempts, RepairFails(a) PROVE DrainInv'
  BY <1>8 DEF RepairFails
<1>9. ASSUME NEW a \in Attempts, Unwound(a) PROVE DrainInv'
  BY <1>9 DEF Unwound, Answers
<1>10. ASSUME NEW a \in Attempts, SetUp(a) PROVE DrainInv'
  BY <1>10 DEF SetUp
<1>11. ASSUME NEW a \in Attempts, SetUpStops(a) PROVE DrainInv'
  BY <1>11 DEF SetUpStops, Fail
<1>12. ASSUME NEW a \in Attempts, Publish(a) PROVE DrainInv'
  BY <1>12 DEF Publish, Fail, Unoccupied
<1>13. ASSUME NEW a \in Attempts, StoreFails(a) PROVE DrainInv'
  BY <1>13 DEF StoreFails, Fail
<1>14. ASSUME NEW a \in Attempts, Announced(a) PROVE DrainInv'
  BY <1>14 DEF Announced, Fail
<1>15. ASSUME NEW a \in Attempts, RolledBack(a) PROVE DrainInv'
  BY <1>15 DEF RolledBack
<1>16. ASSUME NEW a \in Attempts, Dispose(a) PROVE DrainInv'
  BY <1>16 DEF Dispose, Stage
<1>17. ASSUME NEW a \in Attempts, Quiet(a) PROVE DrainInv'
  BY <1>17 DEF Quiet, Stage, Breaks
<1>18. ASSUME NEW a \in Attempts, HandleClosed(a) PROVE DrainInv'
  BY <1>18 DEF HandleClosed, Stage, Breaks, Answers
<1>19. ASSUME NEW a \in Attempts, Detach(a) PROVE DrainInv'
  BY <1>19 DEF Detach, Stage
<1>20. ASSUME NEW a \in Attempts, OwnerUnloads(a) PROVE DrainInv'
  BY <1>20 DEF OwnerUnloads, Stage
<1>21. ASSUME NEW f \in Factories, Mount(f) PROVE DrainInv'
  BY <1>21 DEF Mount
<1>22. ASSUME NEW f \in Factories, FactoryUnloads(f) PROVE DrainInv'
  BY <1>22 DEF FactoryUnloads
<1>23. ASSUME NEW f \in Factories, FactoryDown(f) PROVE DrainInv'
  BY <1>23 DEF FactoryDown
<1>24. ASSUME NEW a \in Attempts,
           Look(a) \/ Claim(a) \/ Find(a) \/ BackendFails(a) \/
             CloseAbandoned(a) \/ LiveWrites(a) \/ Cancel(a) \/
             OwnerGone(a)
      PROVE  UNCHANGED <<factory, pc, disp, broken>>
  BY <1>24 DEF Look, Claim, Find, BackendFails, CloseAbandoned, LiveWrites,
    Cancel, OwnerGone, Answers
<1> QED BY <1>1, <1>2, <1>3, <1>4, <1>5, <1>6, <1>7, <1>8, <1>9, <1>10, <1>11,
  <1>12, <1>13, <1>14, <1>15, <1>16, <1>17, <1>18, <1>19, <1>20, <1>21, <1>22,
  <1>23, <1>24 DEF Next, Advance, Answering, vars

\* The initial states satisfy every part.
LEMMA InitInv == Init => IInv
BY DEF Init, IInv, TypeOK, PlaceInv, Placed, ClaimInv, Claims, ReadyInv, EntryInv, DrainInv,
       Initializing, Disposing, Attempts

\* The parts hold in every reachable state.
THEOREM Invariance == Spec => []IInv
<1>1. ASSUME IInv, [Next]_vars PROVE IInv'
  <2> USE <1>1 DEF IInv
  <2>1. TypeOK' BY TypeStep
  <2>2. PlaceInv' BY PlaceStep
  <2>3. ClaimInv' BY ClaimStep
  <2>4. ReadyInv' BY ReadyStep
  <2>5. EntryInv' BY EntryStep
  <2>6. DrainInv' BY DrainStep
  <2> QED BY <2>1, <2>2, <2>3, <2>4, <2>5, <2>6
<1> QED BY InitInv, <1>1, PTL DEF Spec

\* Every variable keeps its type, whatever races, fails or unloads.
THEOREM TypeCorrect == Spec => []TypeOK
<1>1. IInv => TypeOK BY DEF IInv
<1> QED BY <1>1, Invariance, PTL

\* However many attempts race for the identity, who works with the session is
\* the one that holds its write claim, and a usable agent the one that both
\* registries name.
THEOREM IdentityHeldAlways == Spec => []IdentityHeld
<1>1. IInv => IdentityHeld
  <2> SUFFICES ASSUME IInv, NEW a \in Attempts
               PROVE  /\ Using(a) => writer = a
                      /\ pc[a] = "live" /\ disp[a] = "ready"
                           => session = a /\ agent = a /\ owner[a] = "active" /\ Up(a)
    BY DEF IdentityHeld
  <2>1. Using(a) => io[a] = "held"
    BY DEF IInv, PlaceInv, Placed, Using, Initializing
  <2>2. io[a] = "held" => writer = a
    BY DEF IInv, ClaimInv, Claims
  <2> QED BY <2>1, <2>2 DEF IInv, ReadyInv, EntryInv
<1> QED BY <1>1, Invariance, PTL

\* However an attempt ends, it leaves no entry, no unpaired announcement and no
\* claim; nor does a factory that is down leave anything that goes on.
THEOREM NothingLeftAlways == Spec => []NothingLeft
<1>1. IInv => NothingLeft
  <2> SUFFICES ASSUME IInv PROVE NothingLeft
    OBVIOUS
  <2>1. ASSUME NEW a \in Attempts, pc[a] = "rejected" \/ disp[a] = "done"
        PROVE  /\ session # a /\ agent # a /\ told[a] # "created"
               /\ writer = a => io[a] \in {"claimed", "open"}
    <3>1. session # a /\ agent # a /\ told[a] # "created"
      BY <2>1 DEF IInv, EntryInv
    <3>2. io[a] # "held"
      BY <2>1 DEF IInv, PlaceInv, Placed, Initializing
    <3> QED BY <3>1, <3>2 DEF IInv, ClaimInv, Claims
  <2> QED BY <2>1 DEF IInv, DrainInv, NothingLeft
<1> QED BY <1>1, Invariance, PTL

=============================================================================
