-------------------------- MODULE OwnerLease_proofs --------------------------
(***************************************************************************)
(* Proofs about OwnerLease, for any sets of processes and older writers,   *)
(* any number of faults and either platform.                               *)
(*                                                                         *)
(* The argument is one inductive invariant:                                *)
(*   TypeOK     the types;                                                 *)
(*   LeaseInv   a process inside a call holds the lease, so one is inside  *)
(*              at a time, and a dead one is outside;                      *)
(*   TargetInv  who believes that the path names it, or that it names a    *)
(*              dead owner, is right;                                      *)
(*   StageInv   what the receipt and the stages say at each position, and  *)
(*              that a stage is never without its receipt.                 *)
(***************************************************************************)
EXTENDS OwnerLease, TLAPS

LegacyPlaces == {"idle", "writing", "owner"}

LeaseInv ==
  /\ \A p \in Procs : pc[p] \in Leased => lease = p
  /\ \A p \in Procs : pc[p] # "writing"
  /\ \A l \in Legacy : pc[l] \in LegacyPlaces
  /\ \A x \in All \ alive : pc[x] = "idle"

TargetInv ==
  /\ \A p \in Procs : pc[p] \in {"unstage", "publish", "open", "owner"} => target = p
  /\ \A l \in Legacy : pc[l] \in {"writing", "owner"} => target = l
  /\ \A p \in Procs : pc[p] = "retire" => target # None /\ target \notin alive

\* From the receipt of intent on, until it is deleted.
Promised == Publishing \cup Cleaning \cup {"owner", "leaving"}

StageInv ==
  /\ \A p \in Procs : pc[p] \in {"prior", "retire", "intent"} => receipt = None
  /\ \A p \in Procs : pc[p] \in Promised => receipt = p
  /\ \A p \in Procs : pc[p] = "clear" => receipt # None /\ stage[receipt] = "none"
  /\ \A p \in Procs : pc[p] \in {"publish", "open", "owner", "leaving", "drop receipt"}
       => stage[p] = "none"
  /\ StageAttributed

IInv == TypeOK /\ LeaseInv /\ TargetInv /\ StageInv

\* Where a call can be from its lease on, and how one move of it looks.
Inside(p, l) == pc[p] = l /\ l \in Leased
Moves(p, l) == p \in alive /\ Goto(p, l) /\ alive' = alive

USE ProcsAssumption

LEMMA Places ==
  /\ {"reconcile", "clear", "prior", "retire", "intent", "stage", "fill", "link",
      "unstage", "publish", "open", "owner", "leaving", "inspect", "drop target",
      "drop stage", "drop receipt"} = Leased
  /\ "idle" \notin Leased /\ "writing" \notin Leased
BY DEF Leased, Publishing, Cleaning

\* One call at a time: the others are outside.
LEMMA OthersOutside ==
  ASSUME TypeOK, LeaseInv, NEW p \in Procs, pc[p] \in Leased \/ lease = None
  PROVE  \A q \in Procs \ {p} : pc[q] = "idle"
BY DEF TypeOK, LeaseInv, All

\* A move changes one place.
LEMMA MoveAlone ==
  ASSUME TypeOK, LeaseInv, NEW p \in All, NEW l, Goto(p, l)
  PROVE  pc'[p] = l /\ \A x \in All \ {p} : pc'[x] = pc[x]
BY DEF TypeOK, Goto

\* Every step of a call, as a move.
LEMMA CallMoves ==
  ASSUME NEW p \in Procs,
         Acquire(p) \/ Inspect(p) \/ Advance(p) \/ Release(p) \/ ReleaseKeeping(p) \/ Throw(p)
  PROVE  \E l \in Leased \cup {"idle"} :
           /\ Moves(p, l)
           /\ pc[p] \in Leased \/ lease = None
           /\ IF l = "idle" THEN lease' = None
              ELSE lease' = IF pc[p] = "idle" THEN p ELSE lease
<1>1. CASE Acquire(p)
  BY <1>1, Places DEF Acquire, Moves, At, Reject
<1>2. CASE Inspect(p)
  BY <1>2, Places DEF Inspect, Moves, At, Reject
<1>3. CASE Reconcile(p)
  BY <1>3, Places DEF Reconcile, Moves, At, Reject
<1>4. CASE ReconcileClears(p)
  BY <1>4, Places DEF ReconcileClears, Moves, At, Reject
<1>5. CASE Prior(p)
  BY <1>5, Places DEF Prior, Moves, At, Reject
<1>6. CASE Retire(p)
  BY <1>6, Places DEF Retire, Moves, At, Reject
<1>7. CASE Intend(p)
  BY <1>7, Places DEF Intend, Moves, At, Reject
<1>8. CASE CreateStage(p)
  BY <1>8, Places DEF CreateStage, Moves, At, Reject
<1>9. CASE FillStage(p)
  BY <1>9, Places DEF FillStage, Moves, At, Reject
<1>10. CASE Link(p)
  BY <1>10, Places DEF Link, Moves, At, Reject
<1>11. CASE Unstage(p)
  BY <1>11, Places DEF Unstage, Moves, At, Reject
<1>12. CASE Publish(p)
  BY <1>12, Places DEF Publish, Moves, At, Reject
<1>13. CASE Open(p)
  BY <1>13, Places DEF Open, Moves, At, Reject
<1>14. CASE DropTarget(p)
  BY <1>14, Places DEF DropTarget, Moves, At, Reject
<1>15. CASE DropStage(p)
  BY <1>15, Places DEF DropStage, Moves, At, Reject
<1>16. CASE DropReceipt(p)
  BY <1>16, Places DEF DropReceipt, Moves, At, Reject
<1>17. CASE ReleaseClears(p)
  BY <1>17, Places DEF ReleaseClears, Moves, At, Reject
<1>18. CASE InspectEnds(p)
  BY <1>18, Places DEF InspectEnds, Moves, At, Reject
<1>19. CASE Release(p)
  BY <1>19, Places DEF Release, Moves, At, Reject
<1>20. CASE ReleaseKeeping(p)
  BY <1>20, Places DEF ReleaseKeeping, Moves, At, Reject
<1>21. CASE Throw(p)
  BY <1>21, Places DEF Throw, Moves, At, Reject, Publishing
<1> QED
  BY <1>1, <1>2, <1>3, <1>4, <1>5, <1>6, <1>7, <1>8, <1>9, <1>10, <1>11,
     <1>12, <1>13, <1>14, <1>15, <1>16, <1>17, <1>18, <1>19, <1>20, <1>21 DEF
     Advance

\* A step is a step of a call, of an older writer, a death or nothing.
Step(p) == Acquire(p) \/ Inspect(p) \/ Advance(p) \/ Release(p) \/ ReleaseKeeping(p) \/ Throw(p)

LEMMA NextCases ==
  [Next]_vars =>
    \/ \E p \in Procs : Step(p)
    \/ \E l \in Legacy : LegacyCreates(l) \/ LegacyWrites(l) \/ LegacyLeaves(l)
    \/ \E x \in All : Die(x)
    \/ UNCHANGED vars
BY DEF Next, Step

-----------------------------------------------------------------------------
(* The types.                                                              *)

FilesType ==
  /\ target \in All \cup {None}
  /\ whole \in BOOLEAN
  /\ stage \in [Procs -> {"none", "partial", "full"}]
  /\ receipt \in Procs \cup {None}
  /\ faults \in 0..MaxFaults

LEMMA FilesTyped ==
  ASSUME FilesType, NEW p \in Procs, Step(p) PROVE FilesType'
<1>1. CASE Acquire(p)
  BY <1>1 DEF Acquire, files, FilesType, All
<1>2. CASE Inspect(p)
  BY <1>2 DEF Inspect, files, FilesType, All
<1>3. CASE Reconcile(p)
  BY <1>3 DEF Reconcile, files, FilesType, All
<1>4. CASE ReconcileClears(p)
  BY <1>4 DEF ReconcileClears, files, FilesType, All
<1>5. CASE Prior(p)
  BY <1>5 DEF Prior, files, FilesType, All
<1>6. CASE Retire(p)
  BY <1>6 DEF Retire, files, FilesType, All
<1>7. CASE Intend(p)
  BY <1>7 DEF Intend, files, FilesType, All
<1>8. CASE CreateStage(p)
  BY <1>8 DEF CreateStage, files, FilesType, All
<1>9. CASE FillStage(p)
  BY <1>9 DEF FillStage, files, FilesType, All
<1>10. CASE Link(p)
  BY <1>10 DEF Link, files, FilesType, All
<1>11. CASE Unstage(p)
  BY <1>11 DEF Unstage, files, FilesType, All
<1>12. CASE Publish(p)
  BY <1>12 DEF Publish, files, FilesType, All
<1>13. CASE Open(p)
  BY <1>13 DEF Open, files, FilesType, All
<1>14. CASE DropTarget(p)
  BY <1>14 DEF DropTarget, files, FilesType, All
<1>15. CASE DropStage(p)
  BY <1>15 DEF DropStage, files, FilesType, All
<1>16. CASE DropReceipt(p)
  BY <1>16 DEF DropReceipt, files, FilesType, All
<1>17. CASE ReleaseClears(p)
  BY <1>17 DEF ReleaseClears, files, FilesType, All
<1>18. CASE InspectEnds(p)
  BY <1>18 DEF InspectEnds, files, FilesType, All
<1>19. CASE Release(p)
  BY <1>19 DEF Release, files, FilesType, All
<1>20. CASE ReleaseKeeping(p)
  BY <1>20 DEF ReleaseKeeping, files, FilesType, All
<1>21. CASE Throw(p)
  <2>1. UNCHANGED files /\ faults < MaxFaults /\ faults' = faults + 1
    BY <1>21 DEF Throw
  <2>2. faults' \in 0..MaxFaults
    BY <2>1 DEF FilesType
  <2> QED BY <2>1, <2>2 DEF files, FilesType
<1> QED
  BY <1>1, <1>2, <1>3, <1>4, <1>5, <1>6, <1>7, <1>8, <1>9, <1>10, <1>11,
     <1>12, <1>13, <1>14, <1>15, <1>16, <1>17, <1>18, <1>19, <1>20, <1>21 DEF
     Step, Advance

LEMMA TypeStep == TypeOK /\ [Next]_vars => TypeOK'
<1> SUFFICES ASSUME TypeOK, [Next]_vars PROVE TypeOK'
  OBVIOUS
<1>1. FilesType
  BY DEF TypeOK, FilesType
<1>2. ASSUME NEW p \in Procs, Step(p) PROVE TypeOK'
  <2>1. PICK l \in Leased \cup {"idle"} :
           Moves(p, l) /\ lease' \in {None, p, lease}
    BY <1>2, CallMoves DEF Step
  <2>2. pc' \in [All -> {"idle", "writing"} \cup Leased] /\ lease' \in Procs \cup {None}
    BY <2>1 DEF Moves, Goto, TypeOK
  <2>3. FilesType' /\ alive' \subseteq All
    BY <1>1, <1>2, <2>1, FilesTyped DEF Moves, TypeOK
  <2> QED BY <2>2, <2>3 DEF TypeOK, FilesType
<1>3. ASSUME NEW l \in Legacy, LegacyCreates(l) \/ LegacyWrites(l) \/ LegacyLeaves(l)
      PROVE  TypeOK'
  <2>1. pc' \in [All -> {"idle", "writing"} \cup Leased]
    BY <1>3, Places DEF LegacyCreates, LegacyWrites, LegacyLeaves, Goto, TypeOK
  <2>2. target' \in {target, l, None} /\ whole' \in {whole, TRUE, FALSE}
        /\ UNCHANGED <<lease, stage, receipt, alive, faults>>
    BY <1>3 DEF LegacyCreates, LegacyWrites, LegacyLeaves
  <2> QED BY <2>1, <2>2 DEF TypeOK, All
<1>4. ASSUME NEW x \in All, Die(x) PROVE TypeOK'
  <2>1. pc' \in [All -> {"idle", "writing"} \cup Leased] /\ lease' \in {lease, None}
    BY <1>4 DEF Die, Goto, TypeOK
  <2> QED BY <1>4, <2>1 DEF Die, TypeOK, files
<1>5. CASE UNCHANGED vars
  BY <1>5 DEF vars, files, TypeOK
<1> QED
  BY <1>2, <1>3, <1>4, <1>5, NextCases

-----------------------------------------------------------------------------
(* The lease.                                                              *)

LEMMA LeaseStep == TypeOK /\ LeaseInv /\ [Next]_vars => LeaseInv'
<1> SUFFICES ASSUME TypeOK, LeaseInv, [Next]_vars PROVE LeaseInv'
  OBVIOUS
<1>1. ASSUME NEW p \in Procs, Step(p) PROVE LeaseInv'
  <2>1. PICK l \in Leased \cup {"idle"} :
           /\ Moves(p, l)
           /\ pc[p] \in Leased \/ lease = None
           /\ IF l = "idle" THEN lease' = None
              ELSE lease' = IF pc[p] = "idle" THEN p ELSE lease
    BY <1>1, CallMoves DEF Step
  <2>2. pc'[p] = l /\ \A x \in All \ {p} : pc'[x] = pc[x]
    BY <2>1, MoveAlone DEF Moves, All
  <2>3. l # "idle" => lease' = p
    BY <2>1, Places DEF LeaseInv, TypeOK, All
  <2>4. \A q \in Procs \ {p} : pc'[q] = "idle"
    BY <2>1, <2>2, OthersOutside DEF All
  <2>5. \A x \in Legacy : pc'[x] = pc[x]
    BY <2>2 DEF All
  <2>6. alive' = alive /\ p \in alive
    BY <2>1 DEF Moves
  <2> QED BY <2>2, <2>3, <2>4, <2>5, <2>6, Places DEF LeaseInv, All
<1>2. ASSUME NEW l \in Legacy, LegacyCreates(l) \/ LegacyWrites(l) \/ LegacyLeaves(l)
      PROVE  LeaseInv'
  <2>1. PICK m \in LegacyPlaces : l \in alive /\ Goto(l, m) /\ UNCHANGED <<lease, alive>>
    BY <1>2 DEF LegacyCreates, LegacyWrites, LegacyLeaves, At, LegacyPlaces
  <2>2. pc'[l] = m /\ \A x \in All \ {l} : pc'[x] = pc[x]
    BY <2>1, MoveAlone DEF All
  <2> QED BY <2>1, <2>2 DEF LeaseInv, All
<1>3. ASSUME NEW x \in All, Die(x) PROVE LeaseInv'
  <2>1. pc'[x] = "idle" /\ \A y \in All \ {x} : pc'[y] = pc[y]
    BY <1>3, MoveAlone DEF Die
  <2>2. lease' = (IF lease = x THEN None ELSE lease) /\ alive' = alive \ {x}
    BY <1>3 DEF Die
  <2> QED BY <2>1, <2>2, Places DEF LeaseInv, All, LegacyPlaces
<1>4. CASE UNCHANGED vars
  BY <1>4 DEF vars, LeaseInv
<1> QED
  BY <1>1, <1>2, <1>3, <1>4, NextCases

-----------------------------------------------------------------------------
(* The path.                                                               *)

Linked == {"unstage", "publish", "open", "owner"}

\* What a move owes to the invariant of the path.
LEMMA TargetMove ==
  ASSUME TypeOK, LeaseInv, NEW p \in Procs, Step(p), NEW l, Moves(p, l),
         l \in Linked => target' = p,
         l = "retire" => target' # None /\ target' \notin alive,
         \A x \in Legacy : pc[x] \in {"writing", "owner"} => target' = x
  PROVE  TargetInv'
<1>1. pc[p] \in Leased \/ lease = None
  BY CallMoves DEF Step
<1>2. pc'[p] = l /\ \A x \in All \ {p} : pc'[x] = pc[x]
  BY MoveAlone DEF Moves, All
<1>3. \A q \in Procs \ {p} : pc'[q] = "idle"
  BY <1>1, <1>2, OthersOutside DEF All
<1>4. \A x \in Legacy : pc'[x] = pc[x]
  BY <1>2 DEF All
<1> QED BY <1>2, <1>3, <1>4 DEF TargetInv, Linked, Moves

LEMMA TargetStep == TypeOK /\ LeaseInv /\ TargetInv /\ [Next]_vars => TargetInv'
<1> SUFFICES ASSUME TypeOK, LeaseInv, TargetInv, [Next]_vars PROVE TargetInv'
  OBVIOUS
<1> DEFINE LegacyNamed == \A x \in Legacy : pc[x] \in {"writing", "owner"} => target' = x
<1>0. \A x \in Legacy : pc[x] \in {"writing", "owner"} => target = x /\ x \in alive
  BY DEF TargetInv, LeaseInv, All
<1>1. ASSUME NEW p \in Procs, Step(p) PROVE TargetInv'
  <2>1. CASE Acquire(p)
    <3>1. LegacyNamed
      BY <2>1, <1>0 DEF Acquire, files
    <3>2. PICK l \in {"reconcile"} : Moves(p, l)
      BY <2>1 DEF Acquire, Moves, At, Reject, Stale, files, TargetInv
    <3> QED BY <1>1, <3>1, <3>2, TargetMove DEF Linked
  <2>2. CASE Inspect(p)
    <3>1. LegacyNamed
      BY <2>2, <1>0 DEF Inspect, files
    <3>2. PICK l \in {"inspect"} : Moves(p, l)
      BY <2>2 DEF Inspect, Moves, At, Reject, Stale, files, TargetInv
    <3> QED BY <1>1, <3>1, <3>2, TargetMove DEF Linked
  <2>3. CASE Reconcile(p)
    <3>1. LegacyNamed
      BY <2>3, <1>0 DEF Reconcile, files
    <3>2. PICK l \in {"prior", "idle", "clear"} : Moves(p, l)
      BY <2>3 DEF Reconcile, Moves, At, Reject, Stale, files, TargetInv
    <3> QED BY <1>1, <3>1, <3>2, TargetMove DEF Linked
  <2>4. CASE ReconcileClears(p)
    <3>1. LegacyNamed
      BY <2>4, <1>0 DEF ReconcileClears, files
    <3>2. PICK l \in {"prior"} : Moves(p, l)
      BY <2>4 DEF ReconcileClears, Moves, At, Reject, Stale, files, TargetInv
    <3> QED BY <1>1, <3>1, <3>2, TargetMove DEF Linked
  <2>5. CASE Prior(p)
    <3>1. LegacyNamed
      BY <2>5, <1>0 DEF Prior, files
    <3>2. PICK l \in {"intent", "retire", "idle"} : Moves(p, l) /\ (l = "retire" => target' # None /\ target' \notin alive)
      BY <2>5 DEF Prior, Moves, At, Reject, Stale, files, TargetInv
    <3> QED BY <1>1, <3>1, <3>2, TargetMove DEF Linked
  <2>6. CASE Retire(p)
    <3>1. LegacyNamed
      BY <2>6, <1>0 DEF Retire, At, TargetInv, TypeOK, All, Linked
    <3>2. PICK l \in {"intent"} : Moves(p, l)
      BY <2>6 DEF Retire, Moves, At, Reject, Stale, files, TargetInv
    <3> QED BY <1>1, <3>1, <3>2, TargetMove DEF Linked
  <2>7. CASE Intend(p)
    <3>1. LegacyNamed
      BY <2>7, <1>0 DEF Intend, files
    <3>2. PICK l \in {"stage"} : Moves(p, l)
      BY <2>7 DEF Intend, Moves, At, Reject, Stale, files, TargetInv
    <3> QED BY <1>1, <3>1, <3>2, TargetMove DEF Linked
  <2>8. CASE CreateStage(p)
    <3>1. LegacyNamed
      BY <2>8, <1>0 DEF CreateStage, files
    <3>2. PICK l \in {"fill"} : Moves(p, l)
      BY <2>8 DEF CreateStage, Moves, At, Reject, Stale, files, TargetInv
    <3> QED BY <1>1, <3>1, <3>2, TargetMove DEF Linked
  <2>9. CASE FillStage(p)
    <3>1. LegacyNamed
      BY <2>9, <1>0 DEF FillStage, files
    <3>2. PICK l \in {"link"} : Moves(p, l)
      BY <2>9 DEF FillStage, Moves, At, Reject, Stale, files, TargetInv
    <3> QED BY <1>1, <3>1, <3>2, TargetMove DEF Linked
  <2>10. CASE Link(p)
    <3>1. LegacyNamed
      BY <2>10, <1>0 DEF Link, At, TargetInv, TypeOK, All, Linked
    <3>2. PICK l \in {"unstage", "drop target"} : Moves(p, l) /\ (target' = p \/ l = "drop target")
      BY <2>10 DEF Link, Moves, At, Reject, Stale, files, TargetInv
    <3> QED BY <1>1, <3>1, <3>2, TargetMove DEF Linked
  <2>11. CASE Unstage(p)
    <3>1. LegacyNamed
      BY <2>11, <1>0 DEF Unstage, files
    <3>2. PICK l \in {"publish"} : Moves(p, l) /\ (target' = p)
      BY <2>11 DEF Unstage, Moves, At, Reject, Stale, files, TargetInv
    <3> QED BY <1>1, <3>1, <3>2, TargetMove DEF Linked
  <2>12. CASE Publish(p)
    <3>1. LegacyNamed
      BY <2>12, <1>0 DEF Publish, files
    <3>2. PICK l \in {"open"} : Moves(p, l) /\ (target' = p)
      BY <2>12 DEF Publish, Moves, At, Reject, Stale, files, TargetInv
    <3> QED BY <1>1, <3>1, <3>2, TargetMove DEF Linked
  <2>13. CASE Open(p)
    <3>1. LegacyNamed
      BY <2>13, <1>0 DEF Open, files
    <3>2. PICK l \in {"owner", "drop target"} : Moves(p, l) /\ (target' = p \/ l = "drop target")
      BY <2>13 DEF Open, Moves, At, Reject, Stale, files, TargetInv
    <3> QED BY <1>1, <3>1, <3>2, TargetMove DEF Linked
  <2>14. CASE DropTarget(p)
    <3>1. LegacyNamed
      BY <2>14, <1>0 DEF DropTarget, At, TargetInv, TypeOK, All, Linked
    <3>2. PICK l \in {"drop stage"} : Moves(p, l)
      BY <2>14 DEF DropTarget, Moves, At, Reject, Stale, files, TargetInv
    <3> QED BY <1>1, <3>1, <3>2, TargetMove DEF Linked
  <2>15. CASE DropStage(p)
    <3>1. LegacyNamed
      BY <2>15, <1>0 DEF DropStage, files
    <3>2. PICK l \in {"drop receipt"} : Moves(p, l)
      BY <2>15 DEF DropStage, Moves, At, Reject, Stale, files, TargetInv
    <3> QED BY <1>1, <3>1, <3>2, TargetMove DEF Linked
  <2>16. CASE DropReceipt(p)
    <3>1. LegacyNamed
      BY <2>16, <1>0 DEF DropReceipt, files
    <3>2. PICK l \in {"idle"} : Moves(p, l)
      BY <2>16 DEF DropReceipt, Moves, At, Reject, Stale, files, TargetInv
    <3> QED BY <1>1, <3>1, <3>2, TargetMove DEF Linked
  <2>17. CASE ReleaseClears(p)
    <3>1. LegacyNamed
      BY <2>17, <1>0 DEF ReleaseClears, files
    <3>2. PICK l \in {"idle"} : Moves(p, l)
      BY <2>17 DEF ReleaseClears, Moves, At, Reject, Stale, files, TargetInv
    <3> QED BY <1>1, <3>1, <3>2, TargetMove DEF Linked
  <2>18. CASE InspectEnds(p)
    <3>1. LegacyNamed
      BY <2>18, <1>0 DEF InspectEnds, files
    <3>2. PICK l \in {"idle"} : Moves(p, l)
      BY <2>18 DEF InspectEnds, Moves, At, Reject, Stale, files, TargetInv
    <3> QED BY <1>1, <3>1, <3>2, TargetMove DEF Linked
  <2>19. CASE Release(p)
    <3>1. LegacyNamed
      BY <2>19, <1>0 DEF Release, At, TargetInv, TypeOK, All, Linked
    <3>2. PICK l \in {"leaving"} : Moves(p, l)
      BY <2>19 DEF Release, Moves, At, Reject, Stale, files, TargetInv
    <3> QED BY <1>1, <3>1, <3>2, TargetMove DEF Linked
  <2>20. CASE ReleaseKeeping(p)
    <3>1. LegacyNamed
      BY <2>20, <1>0 DEF ReleaseKeeping, files
    <3>2. PICK l \in {"idle"} : Moves(p, l)
      BY <2>20 DEF ReleaseKeeping, Moves, At, Reject, Stale, files, TargetInv
    <3> QED BY <1>1, <3>1, <3>2, TargetMove DEF Linked
  <2>21. CASE Throw(p)
    <3>1. LegacyNamed
      BY <2>21, <1>0 DEF Throw, files
    <3>2. PICK l \in {"drop target", "idle"} : Moves(p, l)
      BY <2>21 DEF Throw, Moves, At, Reject, Stale, files, TargetInv
    <3> QED BY <1>1, <3>1, <3>2, TargetMove DEF Linked
  <2> QED
    BY <2>1, <2>2, <2>3, <2>4, <2>5, <2>6, <2>7, <2>8, <2>9, <2>10, <2>11,
       <2>12, <2>13, <2>14, <2>15, <2>16, <2>17, <2>18, <2>19, <2>20, <2>21,
       <1>1 DEF Step, Advance
<1>2. ASSUME NEW l \in Legacy, LegacyCreates(l) \/ LegacyWrites(l) \/ LegacyLeaves(l)
      PROVE  TargetInv'
  <2>1. PICK m \in LegacyPlaces : Goto(l, m) /\ alive' = alive /\ l \in alive
    BY <1>2 DEF LegacyCreates, LegacyWrites, LegacyLeaves, At, LegacyPlaces
  <2>2. pc'[l] = m /\ \A x \in All \ {l} : pc'[x] = pc[x]
    BY <2>1, MoveAlone DEF All
  <2>3. CASE LegacyCreates(l)
    <3>1. target = None /\ target' = l
      BY <2>3 DEF LegacyCreates
    <3>2. \A q \in Procs : pc[q] \notin Linked \cup {"retire"}
      BY <3>1 DEF TargetInv, Linked
    <3>3. \A x \in Legacy \ {l} : pc[x] \notin {"writing", "owner"}
      BY <3>1, <1>0
    <3> QED BY <2>2, <3>1, <3>2, <3>3 DEF TargetInv, Linked, All
  <2>4. CASE LegacyWrites(l)
    <3>1. target = l /\ target' = target
      BY <2>4, <1>0 DEF LegacyWrites, At
    <3> QED BY <2>1, <2>2, <3>1 DEF TargetInv, All
  <2>5. CASE LegacyLeaves(l)
    <3>1. target = l /\ pc'[l] = "idle"
      BY <2>5, <2>2, <1>0 DEF LegacyLeaves, At, Goto, TypeOK, All
    <3>2. \A q \in Procs : pc[q] \notin Linked \cup {"retire"}
      BY <3>1, <2>1 DEF TargetInv, Linked
    <3>3. \A x \in Legacy \ {l} : pc[x] \notin {"writing", "owner"}
      BY <3>1, <1>0
    <3> QED BY <2>2, <3>1, <3>2, <3>3 DEF TargetInv, Linked, All
  <2> QED BY <1>2, <2>3, <2>4, <2>5
<1>3. ASSUME NEW x \in All, Die(x) PROVE TargetInv'
  <2>1. pc'[x] = "idle" /\ \A y \in All \ {x} : pc'[y] = pc[y]
    BY <1>3, MoveAlone DEF Die
  <2>2. target' = target /\ alive' = alive \ {x}
    BY <1>3 DEF Die, files
  <2> QED BY <2>1, <2>2 DEF TargetInv, All
<1>4. CASE UNCHANGED vars
  BY <1>4 DEF vars, files, TargetInv
<1> QED
  BY <1>1, <1>2, <1>3, <1>4, NextCases

-----------------------------------------------------------------------------
(* The receipt and the stages.                                             *)

Unstaged == {"publish", "open", "owner", "leaving", "drop receipt"}

\* What a move owes to the invariant of the receipt and the stages.
LEMMA StageMove ==
  ASSUME TypeOK, LeaseInv, NEW p \in Procs, Step(p), NEW l, Moves(p, l),
         l \in {"prior", "retire", "intent"} => receipt' = None,
         l \in Promised => receipt' = p,
         l = "clear" => receipt' # None /\ stage'[receipt'] = "none",
         l \in Unstaged => stage'[p] = "none",
         StageAttributed'
  PROVE  StageInv'
<1>1. pc[p] \in Leased \/ lease = None
  BY CallMoves DEF Step
<1>2. pc'[p] = l /\ \A x \in All \ {p} : pc'[x] = pc[x]
  BY MoveAlone DEF Moves, All
<1>3. \A q \in Procs \ {p} : pc'[q] = "idle"
  BY <1>1, <1>2, OthersOutside DEF All
<1> QED BY <1>2, <1>3 DEF StageInv, Unstaged, Promised, Publishing, Cleaning

LEMMA StageStep == TypeOK /\ LeaseInv /\ StageInv /\ [Next]_vars => StageInv'
<1> SUFFICES ASSUME TypeOK, LeaseInv, StageInv, [Next]_vars PROVE StageInv'
  OBVIOUS
<1>0. StageAttributed
  BY DEF StageInv
<1>1. ASSUME NEW p \in Procs, Step(p) PROVE StageInv'
  <2>1. CASE Acquire(p)
    <3>2. PICK l \in {"reconcile"} : Moves(p, l) /\ receipt' = receipt /\ stage' = stage
      BY <2>1 DEF Acquire, Moves, At, Reject, files
    <3>3. StageAttributed'
      BY <3>2, <1>0 DEF StageAttributed, TypeOK
    <3> QED
      BY <1>1, <3>2, <3>3, StageMove DEF Promised, Publishing, Cleaning,
         Unstaged, TypeOK
  <2>2. CASE Inspect(p)
    <3>2. PICK l \in {"inspect"} : Moves(p, l) /\ receipt' = receipt /\ stage' = stage
      BY <2>2 DEF Inspect, Moves, At, Reject, files
    <3>3. StageAttributed'
      BY <3>2, <1>0 DEF StageAttributed, TypeOK
    <3> QED
      BY <1>1, <3>2, <3>3, StageMove DEF Promised, Publishing, Cleaning,
         Unstaged, TypeOK
  <2>3. CASE Reconcile(p)
    <3>1. CASE receipt = None /\ Moves(p, "prior") /\ UNCHANGED <<receipt, stage>>
      BY <1>0, <1>1, <3>1, StageMove
         DEF Promised, Publishing, Cleaning, Unstaged, StageAttributed
    <3>2. CASE Moves(p, "idle") /\ UNCHANGED <<receipt, stage>>
      BY <1>0, <1>1, <3>2, StageMove
         DEF Promised, Publishing, Cleaning, Unstaged, StageAttributed
    <3>3. CASE /\ receipt # None /\ receipt' = receipt /\ Moves(p, "clear")
               /\ stage' = [stage EXCEPT ![receipt] = "none"]
      <4>1. stage'[receipt] = "none" /\ StageAttributed'
        BY <1>0, <3>3 DEF StageAttributed, TypeOK
      <4> QED BY <1>1, <3>3, <4>1, StageMove
              DEF Promised, Publishing, Cleaning, Unstaged
    <3> QED BY <2>3, <3>1, <3>2, <3>3 DEF Reconcile, Moves, At, Reject
  <2>4. CASE ReconcileClears(p)
    <3>1. receipt # None /\ stage[receipt] = "none"
      BY <2>4 DEF ReconcileClears, At, StageInv, Promised, Publishing,
         Cleaning
    <3>2. PICK l \in {"prior"} : Moves(p, l) /\ receipt' = None /\ stage' = stage
      BY <2>4 DEF ReconcileClears, Moves, At, Reject, files
    <3>3. StageAttributed'
      BY <3>1, <3>2, <1>0 DEF StageAttributed, TypeOK
    <3> QED
      BY <1>1, <3>1, <3>2, <3>3, StageMove DEF Promised, Publishing, Cleaning,
         Unstaged, TypeOK
  <2>5. CASE Prior(p)
    <3>1. receipt = None
      BY <2>5 DEF Prior, At, StageInv, Promised, Publishing, Cleaning
    <3>2. PICK l \in {"intent", "retire", "idle"} : Moves(p, l) /\ receipt' = receipt /\ stage' = stage
      BY <2>5 DEF Prior, Moves, At, Reject, files
    <3>3. StageAttributed'
      BY <3>1, <3>2, <1>0 DEF StageAttributed, TypeOK
    <3> QED
      BY <1>1, <3>1, <3>2, <3>3, StageMove DEF Promised, Publishing, Cleaning,
         Unstaged, TypeOK
  <2>6. CASE Retire(p)
    <3>1. receipt = None
      BY <2>6 DEF Retire, At, StageInv, Promised, Publishing, Cleaning
    <3>2. PICK l \in {"intent"} : Moves(p, l) /\ receipt' = receipt /\ stage' = stage
      BY <2>6 DEF Retire, Moves, At, Reject, files
    <3>3. StageAttributed'
      BY <3>1, <3>2, <1>0 DEF StageAttributed, TypeOK
    <3> QED
      BY <1>1, <3>1, <3>2, <3>3, StageMove DEF Promised, Publishing, Cleaning,
         Unstaged, TypeOK
  <2>7. CASE Intend(p)
    <3>1. receipt = None
      BY <2>7 DEF Intend, At, StageInv, Promised, Publishing, Cleaning
    <3>2. PICK l \in {"stage"} : Moves(p, l) /\ receipt' = p /\ stage' = stage
      BY <2>7 DEF Intend, Moves, At, Reject, files
    <3>3. StageAttributed'
      BY <3>1, <3>2, <1>0 DEF StageAttributed, TypeOK
    <3> QED
      BY <1>1, <3>1, <3>2, <3>3, StageMove DEF Promised, Publishing, Cleaning,
         Unstaged, TypeOK
  <2>8. CASE CreateStage(p)
    <3>1. receipt = p
      BY <2>8 DEF CreateStage, At, StageInv, Promised, Publishing, Cleaning
    <3>2. PICK l \in {"fill"} : Moves(p, l) /\ receipt' = receipt /\ stage' = [stage EXCEPT ![p] = "partial"]
      BY <2>8 DEF CreateStage, Moves, At, Reject, files
    <3>3. StageAttributed'
      BY <3>1, <3>2, <1>0 DEF StageAttributed, TypeOK
    <3> QED
      BY <1>1, <3>1, <3>2, <3>3, StageMove DEF Promised, Publishing, Cleaning,
         Unstaged, TypeOK
  <2>9. CASE FillStage(p)
    <3>1. receipt = p
      BY <2>9 DEF FillStage, At, StageInv, Promised, Publishing, Cleaning
    <3>2. PICK l \in {"link"} : Moves(p, l) /\ receipt' = receipt /\ stage' = [stage EXCEPT ![p] = "full"]
      BY <2>9 DEF FillStage, Moves, At, Reject, files
    <3>3. StageAttributed'
      BY <3>1, <3>2, <1>0 DEF StageAttributed, TypeOK
    <3> QED
      BY <1>1, <3>1, <3>2, <3>3, StageMove DEF Promised, Publishing, Cleaning,
         Unstaged, TypeOK
  <2>10. CASE Link(p)
    <3>1. receipt = p
      BY <2>10 DEF Link, At, StageInv, Promised, Publishing, Cleaning
    <3>2. PICK l \in {"unstage", "drop target"} : Moves(p, l) /\ receipt' = receipt /\ stage' = stage
      BY <2>10 DEF Link, Moves, At, Reject, files
    <3>3. StageAttributed'
      BY <3>1, <3>2, <1>0 DEF StageAttributed, TypeOK
    <3> QED
      BY <1>1, <3>1, <3>2, <3>3, StageMove DEF Promised, Publishing, Cleaning,
         Unstaged, TypeOK
  <2>11. CASE Unstage(p)
    <3>1. receipt = p
      BY <2>11 DEF Unstage, At, StageInv, Promised, Publishing, Cleaning
    <3>2. PICK l \in {"publish"} : Moves(p, l) /\ receipt' = receipt /\ stage' = [stage EXCEPT ![p] = "none"]
      BY <2>11 DEF Unstage, Moves, At, Reject, files
    <3>3. StageAttributed'
      BY <3>1, <3>2, <1>0 DEF StageAttributed, TypeOK
    <3> QED
      BY <1>1, <3>1, <3>2, <3>3, StageMove DEF Promised, Publishing, Cleaning,
         Unstaged, TypeOK
  <2>12. CASE Publish(p)
    <3>1. receipt = p /\ stage[p] = "none"
      BY <2>12 DEF Publish, At, StageInv, Promised, Publishing, Cleaning
    <3>2. PICK l \in {"open"} : Moves(p, l) /\ receipt' = receipt /\ stage' = stage
      BY <2>12 DEF Publish, Moves, At, Reject, files
    <3>3. StageAttributed'
      BY <3>1, <3>2, <1>0 DEF StageAttributed, TypeOK
    <3> QED
      BY <1>1, <3>1, <3>2, <3>3, StageMove DEF Promised, Publishing, Cleaning,
         Unstaged, TypeOK
  <2>13. CASE Open(p)
    <3>1. receipt = p /\ stage[p] = "none"
      BY <2>13 DEF Open, At, StageInv, Promised, Publishing, Cleaning
    <3>2. PICK l \in {"owner", "drop target"} : Moves(p, l) /\ receipt' = receipt /\ stage' = stage
      BY <2>13 DEF Open, Moves, At, Reject, files
    <3>3. StageAttributed'
      BY <3>1, <3>2, <1>0 DEF StageAttributed, TypeOK
    <3> QED
      BY <1>1, <3>1, <3>2, <3>3, StageMove DEF Promised, Publishing, Cleaning,
         Unstaged, TypeOK
  <2>14. CASE DropTarget(p)
    <3>1. receipt = p
      BY <2>14 DEF DropTarget, At, StageInv, Promised, Publishing, Cleaning
    <3>2. PICK l \in {"drop stage"} : Moves(p, l) /\ receipt' = receipt /\ stage' = stage
      BY <2>14 DEF DropTarget, Moves, At, Reject, files
    <3>3. StageAttributed'
      BY <3>1, <3>2, <1>0 DEF StageAttributed, TypeOK
    <3> QED
      BY <1>1, <3>1, <3>2, <3>3, StageMove DEF Promised, Publishing, Cleaning,
         Unstaged, TypeOK
  <2>15. CASE DropStage(p)
    <3>1. receipt = p
      BY <2>15 DEF DropStage, At, StageInv, Promised, Publishing, Cleaning
    <3>2. PICK l \in {"drop receipt"} : Moves(p, l) /\ receipt' = receipt /\ stage' = [stage EXCEPT ![p] = "none"]
      BY <2>15 DEF DropStage, Moves, At, Reject, files
    <3>3. StageAttributed'
      BY <3>1, <3>2, <1>0 DEF StageAttributed, TypeOK
    <3> QED
      BY <1>1, <3>1, <3>2, <3>3, StageMove DEF Promised, Publishing, Cleaning,
         Unstaged, TypeOK
  <2>16. CASE DropReceipt(p)
    <3>1. receipt = p /\ stage[p] = "none"
      BY <2>16 DEF DropReceipt, At, StageInv, Promised, Publishing, Cleaning
    <3>2. PICK l \in {"idle"} : Moves(p, l) /\ receipt' = None /\ stage' = stage
      BY <2>16 DEF DropReceipt, Moves, At, Reject, files
    <3>3. StageAttributed'
      BY <3>1, <3>2, <1>0 DEF StageAttributed, TypeOK
    <3> QED
      BY <1>1, <3>1, <3>2, <3>3, StageMove DEF Promised, Publishing, Cleaning,
         Unstaged, TypeOK
  <2>17. CASE ReleaseClears(p)
    <3>1. receipt = p /\ stage[p] = "none"
      BY <2>17 DEF ReleaseClears, At, StageInv, Promised, Publishing, Cleaning
    <3>2. PICK l \in {"idle"} : Moves(p, l) /\ receipt' = None /\ stage' = stage
      BY <2>17 DEF ReleaseClears, Moves, At, Reject, files
    <3>3. StageAttributed'
      BY <3>1, <3>2, <1>0 DEF StageAttributed, TypeOK
    <3> QED
      BY <1>1, <3>1, <3>2, <3>3, StageMove DEF Promised, Publishing, Cleaning,
         Unstaged, TypeOK
  <2>18. CASE InspectEnds(p)
    <3>2. PICK l \in {"idle"} : Moves(p, l) /\ receipt' = receipt /\ stage' = stage
      BY <2>18 DEF InspectEnds, Moves, At, Reject, files
    <3>3. StageAttributed'
      BY <3>2, <1>0 DEF StageAttributed, TypeOK
    <3> QED
      BY <1>1, <3>2, <3>3, StageMove DEF Promised, Publishing, Cleaning,
         Unstaged, TypeOK
  <2>19. CASE Release(p)
    <3>1. receipt = p /\ stage[p] = "none"
      BY <2>19 DEF Release, At, StageInv, Promised, Publishing, Cleaning
    <3>2. PICK l \in {"leaving"} : Moves(p, l) /\ receipt' = receipt /\ stage' = stage
      BY <2>19 DEF Release, Moves, At, Reject, files
    <3>3. StageAttributed'
      BY <3>1, <3>2, <1>0 DEF StageAttributed, TypeOK
    <3> QED
      BY <1>1, <3>1, <3>2, <3>3, StageMove DEF Promised, Publishing, Cleaning,
         Unstaged, TypeOK
  <2>20. CASE ReleaseKeeping(p)
    <3>2. PICK l \in {"idle"} : Moves(p, l) /\ receipt' = receipt /\ stage' = stage
      BY <2>20 DEF ReleaseKeeping, Moves, At, Reject, files
    <3>3. StageAttributed'
      BY <3>2, <1>0 DEF StageAttributed, TypeOK
    <3> QED
      BY <1>1, <3>2, <3>3, StageMove DEF Promised, Publishing, Cleaning,
         Unstaged, TypeOK
  <2>21. CASE Throw(p)
    <3>1. pc[p] \in Publishing => receipt = p
      BY <2>21 DEF Throw, At, StageInv, Promised, Publishing, Cleaning
    <3>2. PICK l \in {"drop target", "idle"} : Moves(p, l) /\ receipt' = receipt /\ stage' = stage /\ (l = "drop target" => pc[p] \in Publishing)
      BY <2>21 DEF Throw, Moves, At, Reject, files
    <3>3. StageAttributed'
      BY <3>1, <3>2, <1>0 DEF StageAttributed, TypeOK
    <3> QED
      BY <1>1, <3>1, <3>2, <3>3, StageMove DEF Promised, Publishing, Cleaning,
         Unstaged, TypeOK
  <2> QED
    BY <2>1, <2>2, <2>3, <2>4, <2>5, <2>6, <2>7, <2>8, <2>9, <2>10, <2>11,
       <2>12, <2>13, <2>14, <2>15, <2>16, <2>17, <2>18, <2>19, <2>20, <2>21,
       <1>1 DEF Step, Advance
<1>2. ASSUME NEW l \in Legacy, LegacyCreates(l) \/ LegacyWrites(l) \/ LegacyLeaves(l)
      PROVE  StageInv'
  <2>1. \E m : Goto(l, m)
    BY <1>2 DEF LegacyCreates, LegacyWrites, LegacyLeaves
  <2>2. \A q \in Procs : pc'[q] = pc[q]
    BY <2>1, MoveAlone DEF All
  <2>3. UNCHANGED <<stage, receipt>>
    BY <1>2 DEF LegacyCreates, LegacyWrites, LegacyLeaves
  <2> QED BY <2>2, <2>3 DEF StageInv, StageAttributed
<1>3. ASSUME NEW x \in All, Die(x) PROVE StageInv'
  <2>1. pc'[x] = "idle" /\ \A y \in All \ {x} : pc'[y] = pc[y]
    BY <1>3, MoveAlone DEF Die
  <2>2. UNCHANGED <<stage, receipt>>
    BY <1>3 DEF Die, files
  <2>3. \A q \in Procs : pc'[q] \in {pc[q], "idle"}
    BY <2>1 DEF All
  <2> QED BY <2>2, <2>3 DEF StageInv, StageAttributed, Promised, Publishing, Cleaning
<1>4. CASE UNCHANGED vars
  BY <1>4 DEF vars, files, StageInv, StageAttributed
<1> QED
  BY <1>1, <1>2, <1>3, <1>4, NextCases

-----------------------------------------------------------------------------
(* What follows.                                                           *)

LEMMA Invariance == Spec => []IInv
<1>1. Init => IInv
  BY ProcsAssumption
     DEF Init, IInv, TypeOK, LeaseInv, TargetInv, StageInv, StageAttributed, LegacyPlaces,
         Promised, Leased, Publishing, Cleaning, All
<1>2. IInv /\ [Next]_vars => IInv'
  BY TypeStep, LeaseStep, TargetStep, StageStep DEF IInv
<1> QED BY <1>1, <1>2, PTL DEF Spec

LEMMA OwnerIsNamed ==
  ASSUME IInv, NEW x \in alive, pc[x] \in {"owner", "writing"}
  PROVE  target = x
BY DEF IInv, TypeOK, LeaseInv, TargetInv, All

\* Every variable keeps its type.
THEOREM TypeCorrect == Spec => []TypeOK
<1>1. IInv => TypeOK
  BY DEF IInv
<1> QED BY <1>1, Invariance, PTL

\* Whoever takes itself for the owner is the one the path names, older writers
\* included: of any number of contenders one at most owns the directory.  And an
\* inspection never answers "absent" or "stale" while there is an owner.
THEOREM OwnerNamedAlways == Spec => []OwnerNamed
<1>1. ASSUME IInv, NEW x \in alive, pc[x] \in {"owner", "writing"}
      PROVE  target = x
  BY <1>1, OwnerIsNamed
<1>2. ASSUME IInv, Verdict \in {"absent", "stale"},
             NEW x \in alive, pc[x] \in {"owner", "writing"}
      PROVE  FALSE
  <2>1. target = x /\ x \in All /\ target # None
    BY <1>1, <1>2, ProcsAssumption DEF IInv, TypeOK, All
  <2>2. ~Stale(target)
    BY <2>1 DEF Stale
  <2> QED BY <1>2, <2>1, <2>2 DEF Verdict
<1>3. IInv => OwnerNamed
  BY <1>1, <1>2 DEF OwnerNamed
<1> QED BY <1>3, Invariance, PTL

\* A staged file has its receipt in the ledger for as long as it exists.
THEOREM StageAttributedAlways == Spec => []StageAttributed
<1>1. IInv => StageAttributed
  BY DEF IInv, StageInv
<1> QED BY <1>1, Invariance, PTL

\* The file of a living process goes only when that process removes it.
THEOREM OwnFileOnlyAlways == Spec => OwnFileOnly
<1>1. ASSUME IInv, [Next]_vars, NEW x \in alive, target = x, target' # x
      PROVE  pc[x] \in {"owner", "drop target"} /\ pc'[x] # pc[x]
  <2> USE <1>1, ProcsAssumption DEF IInv, TypeOK, LeaseInv, TargetInv, All, LegacyPlaces, At, Goto, Reject, files
  <2>1. ASSUME NEW p \in Procs, Retire(p) PROVE FALSE
    BY <2>1 DEF Retire
  <2>2. ASSUME NEW p \in Procs, Link(p) PROVE FALSE
    BY <2>2 DEF Link
  <2>3. ASSUME NEW p \in Procs, DropTarget(p) PROVE x = p /\ pc[x] = "drop target" /\ pc'[x] = "drop stage"
    BY <2>3 DEF DropTarget
  <2>4. ASSUME NEW p \in Procs, Release(p) PROVE x = p /\ pc[x] = "owner" /\ pc'[x] = "leaving"
    BY <2>4 DEF Release
  <2>5. ASSUME NEW l \in Legacy, LegacyCreates(l) PROVE FALSE
    BY <2>5 DEF LegacyCreates
  <2>6. ASSUME NEW l \in Legacy, LegacyLeaves(l) PROVE x = l /\ pc[x] = "owner" /\ pc'[x] = "idle"
    BY <2>6 DEF LegacyLeaves
  <2>7. CASE UNCHANGED target
    BY <2>7
  <2> QED BY <2>1, <2>2, <2>3, <2>4, <2>5, <2>6, <2>7
          DEF Next, Advance, vars, Acquire, Reconcile, ReconcileClears, Prior, Intend, CreateStage,
              FillStage, Unstage, Publish, Open, DropStage, DropReceipt, ReleaseClears, InspectEnds,
              ReleaseKeeping, Throw, Inspect, LegacyWrites, Die
<1>2. IInv /\ [Next]_vars
        => [\A x \in alive : target = x /\ target' # x
              => pc[x] \in {"owner", "drop target"} /\ pc'[x] # pc[x]]_vars
  BY <1>1
<1> QED BY <1>2, Invariance, PTL DEF OwnFileOnly, Spec
==============================================================================
