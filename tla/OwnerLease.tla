----------------------------- MODULE OwnerLease -----------------------------
(***************************************************************************)
(* The owner file of a SEP data directory (sep/recovery owner-lease.mjs):  *)
(* contenders for one path, of which one at a time may own it.  Each takes *)
(* an SQLite write transaction that the system releases when it dies, then *)
(* reconciles what a dead predecessor left, retires its owner file, and    *)
(* publishes its own: a receipt of intent, a staged file, a hard link to   *)
(* the path, the removal of the stage, the receipt as published.  A step   *)
(* may fail, and a process may die, between any two of them.               *)
(*                                                                         *)
(* A process is one incarnation: the owner record's birth time tells it    *)
(* from another with its pid.  Older writers know nothing of the lease:    *)
(* they create the path exclusively, write it, and remove it when they     *)
(* leave; on POSIX nothing tells their death.                              *)
(***************************************************************************)
EXTENDS Naturals, FiniteSets

CONSTANTS Procs,     \* incarnations that use the lease
          Legacy,    \* incarnations of older writers
          None,
          Windows,   \* the platform can tell an older writer's death
          MaxFaults  \* bound: steps that throw, observations that fail

ASSUME ProcsAssumption ==
  /\ Procs \cap Legacy = {}
  /\ None \notin Procs \cup Legacy
  /\ Windows \in BOOLEAN
  /\ MaxFaults \in Nat

VARIABLES
  lease,   \* who holds the transaction on lease.sqlite
  target,  \* whose record the file at the path is
  whole,   \* that record has been written
  stage,   \* per process: its staged file
  receipt, \* whose publication the ledger records
  pc,      \* where a process is
  alive,   \* incarnations that have not died
  faults

files == <<target, whole, stage, receipt>>
vars == <<lease, files, pc, alive, faults>>

All == Procs \cup Legacy
\* Holding the lease on the way to ownership, at rest, giving up, and leaving.
Publishing == {"stage", "fill", "link", "unstage", "publish", "open"}
Cleaning   == {"drop target", "drop stage", "drop receipt"}
Leased     == {"reconcile", "clear", "prior", "retire", "intent", "owner", "leaving", "inspect"}
                \cup Publishing \cup Cleaning

TypeOK ==
  /\ lease \in Procs \cup {None}
  /\ target \in All \cup {None}
  /\ whole \in BOOLEAN
  /\ stage \in [Procs -> {"none", "partial", "full"}]
  /\ receipt \in Procs \cup {None}
  /\ pc \in [All -> {"idle", "writing"} \cup Leased]
  /\ alive \subseteq All
  /\ faults \in 0..MaxFaults

Init ==
  /\ lease = None /\ target = None /\ whole = TRUE
  /\ stage = [p \in Procs |-> "none"] /\ receipt = None
  /\ pc = [x \in All |-> "idle"] /\ alive = All /\ faults = 0

Goto(x, l) == pc' = [pc EXCEPT ![x] = l]
At(x, l) == x \in alive /\ pc[x] = l

\* classifyOwnerProcess of the record's owner.
Stale(x) == x \notin alive /\ (x \in Legacy => Windows)

\* The call rejects before it has a receipt: the lease is closed.
Reject(p) == lease' = None /\ Goto(p, "idle")

-----------------------------------------------------------------------------
(* acquireOwnerFile.                                                       *)

\* nativeLease: BEGIN IMMEDIATE, without waiting.
Acquire(p) ==
  /\ At(p, "idle") /\ lease = None
  /\ lease' = p /\ Goto(p, "reconcile")
  /\ UNCHANGED <<files, alive, faults>>

\* Mutant: the stage of a dead owner is not removed.
ReconcileKeepingStage(p) ==
  /\ At(p, "reconcile")
  /\ \/ /\ receipt = None
        /\ Goto(p, "prior") /\ UNCHANGED lease
     \/ /\ receipt # None /\ ~Stale(receipt)
        /\ Reject(p)
     \/ /\ receipt # None /\ Stale(receipt)
        /\ Goto(p, "clear") /\ UNCHANGED lease
  /\ UNCHANGED <<files, alive, faults>>

\* reconcilePublication, up to the removal of a dead owner's stage.
Reconcile(p) ==
  /\ At(p, "reconcile")
  /\ \/ /\ receipt = None
        /\ Goto(p, "prior") /\ UNCHANGED <<lease, stage>>
     \/ /\ receipt # None /\ ~Stale(receipt)
        /\ Reject(p) /\ UNCHANGED stage
     \/ /\ receipt # None /\ Stale(receipt)
        /\ stage' = [stage EXCEPT ![receipt] = "none"]
        /\ Goto(p, "clear") /\ UNCHANGED lease
  /\ UNCHANGED <<target, whole, receipt, alive, faults>>

ReconcileClears(p) ==
  /\ At(p, "clear")
  /\ receipt' = None /\ Goto(p, "prior")
  /\ UNCHANGED <<lease, target, whole, stage, alive, faults>>

\* The file at the path: a snapshot needs one link, a record and a dead owner.
Prior(p) ==
  /\ At(p, "prior")
  /\ \/ target = None /\ Goto(p, "intent") /\ UNCHANGED lease
     \/ /\ target # None /\ whole /\ Stale(target)
        /\ \A q \in Procs : target = q => stage[q] = "none"
        /\ Goto(p, "retire") /\ UNCHANGED lease
     \/ /\ target # None
        /\ ~whole \/ ~Stale(target) \/ \E q \in Procs : target = q /\ stage[q] # "none"
        /\ Reject(p)
  /\ UNCHANGED <<files, alive, faults>>

\* The dead owner's file is renamed away.
Retire(p) ==
  /\ At(p, "retire")
  /\ target' = None /\ Goto(p, "intent")
  /\ UNCHANGED <<lease, whole, stage, receipt, alive, faults>>

Intend(p) ==
  /\ At(p, "intent")
  /\ receipt' = p /\ Goto(p, "stage")
  /\ UNCHANGED <<lease, target, whole, stage, alive, faults>>

CreateStage(p) ==
  /\ At(p, "stage")
  /\ stage' = [stage EXCEPT ![p] = "partial"] /\ Goto(p, "fill")
  /\ UNCHANGED <<lease, target, whole, receipt, alive, faults>>

FillStage(p) ==
  /\ At(p, "fill")
  /\ stage' = [stage EXCEPT ![p] = "full"] /\ Goto(p, "link")
  /\ UNCHANGED <<lease, target, whole, receipt, alive, faults>>

\* Mutant: the publication replaces the file at the path.
LinkReplacing(p) ==
  /\ At(p, "link")
  /\ target' = p /\ whole' = TRUE /\ Goto(p, "unstage")
  /\ UNCHANGED <<lease, stage, receipt, alive, faults>>

\* link never replaces: EEXIST when an older writer was faster.
Link(p) ==
  /\ At(p, "link")
  /\ IF target = None
     THEN target' = p /\ whole' = TRUE /\ Goto(p, "unstage")
     ELSE Goto(p, "drop target") /\ UNCHANGED <<target, whole>>
  /\ UNCHANGED <<lease, stage, receipt, alive, faults>>

Unstage(p) ==
  /\ At(p, "unstage")
  /\ stage' = [stage EXCEPT ![p] = "none"] /\ Goto(p, "publish")
  /\ UNCHANGED <<lease, target, whole, receipt, alive, faults>>

\* The receipt as published; then the file is opened and checked.
Publish(p) ==
  /\ At(p, "publish") /\ Goto(p, "open")
  /\ UNCHANGED <<lease, files, alive, faults>>

Open(p) ==
  /\ At(p, "open")
  /\ Goto(p, IF target = p THEN "owner" ELSE "drop target")
  /\ UNCHANGED <<lease, files, alive, faults>>

-----------------------------------------------------------------------------
(* cleanupFailedPublication and release.                                   *)

\* Mutant: the file at the path is removed whoever wrote it.
DropAnyTarget(p) ==
  /\ At(p, "drop target")
  /\ target' = None
  /\ Goto(p, "drop stage")
  /\ UNCHANGED <<lease, whole, stage, receipt, alive, faults>>

DropTarget(p) ==
  /\ At(p, "drop target")
  /\ target' = IF target = p THEN None ELSE target
  /\ Goto(p, "drop stage")
  /\ UNCHANGED <<lease, whole, stage, receipt, alive, faults>>

\* Mutant: the stage is left behind.
DropNoStage(p) ==
  /\ At(p, "drop stage") /\ Goto(p, "drop receipt")
  /\ UNCHANGED <<lease, files, alive, faults>>

DropStage(p) ==
  /\ At(p, "drop stage")
  /\ stage' = [stage EXCEPT ![p] = "none"] /\ Goto(p, "drop receipt")
  /\ UNCHANGED <<lease, target, whole, receipt, alive, faults>>

DropReceipt(p) ==
  /\ At(p, "drop receipt")
  /\ receipt' = None /\ Reject(p)
  /\ UNCHANGED <<target, whole, stage, alive, faults>>

\* release: the path, then the ledger, then the lease.
Release(p) ==
  /\ At(p, "owner") /\ target = p
  /\ target' = None /\ Goto(p, "leaving")
  /\ UNCHANGED <<lease, whole, stage, receipt, alive, faults>>

\* release with remove false, or refused by assertOwned.
ReleaseKeeping(p) ==
  /\ At(p, "owner") /\ Reject(p)
  /\ UNCHANGED <<files, alive, faults>>

\* Mutant: the ledger's row is emptied, not deleted.
ReleaseEmpties(p) ==
  /\ At(p, "leaving")
  /\ receipt' = "empty" /\ Reject(p)
  /\ UNCHANGED <<target, whole, stage, alive, faults>>

ReleaseClears(p) ==
  /\ At(p, "leaving")
  /\ receipt' = None /\ Reject(p)
  /\ UNCHANGED <<target, whole, stage, alive, faults>>

\* A step throws, or an owner cannot be observed: once there is a receipt the
\* publication is cleaned up; a cleanup or a release that throws leaves the rest.
Throw(p) ==
  /\ p \in alive /\ pc[p] \in Leased \ {"inspect"} /\ faults < MaxFaults
  /\ faults' = faults + 1
  /\ IF pc[p] \in Publishing
     THEN Goto(p, "drop target") /\ UNCHANGED lease
     ELSE Reject(p)
  /\ UNCHANGED <<files, alive>>

-----------------------------------------------------------------------------
(* inspectOwnerFile.                                                       *)

Inspect(p) ==
  /\ At(p, "idle") /\ lease = None
  /\ lease' = p /\ Goto(p, "inspect")
  /\ UNCHANGED <<files, alive, faults>>

\* Mutant: a file without a record counts as a dead owner's.
VerdictOnEmpty ==
  CASE target = None -> IF receipt = None THEN "absent"
                        ELSE IF Stale(receipt) THEN "stale" ELSE "alive"
    [] target # None -> IF ~whole \/ Stale(target) THEN "stale" ELSE "alive"

\* What it answers while it holds the lease; without it, "alive".
Verdict ==
  CASE target = None -> IF receipt = None THEN "absent"
                        ELSE IF Stale(receipt) THEN "stale" ELSE "alive"
    [] target # None /\ ~whole -> "unknown"
    [] target # None /\ whole -> IF Stale(target) THEN "stale"
                                 ELSE IF target \in alive THEN "alive" ELSE "unknown"

InspectEnds(p) ==
  /\ At(p, "inspect") /\ Reject(p)
  /\ UNCHANGED <<files, alive, faults>>

-----------------------------------------------------------------------------
(* The environment.                                                        *)

\* An older writer creates the path exclusively, writes it, and removes it.
LegacyCreates(l) ==
  /\ At(l, "idle") /\ target = None
  /\ target' = l /\ whole' = FALSE /\ Goto(l, "writing")
  /\ UNCHANGED <<lease, stage, receipt, alive, faults>>

LegacyWrites(l) ==
  /\ At(l, "writing")
  /\ whole' = TRUE /\ Goto(l, "owner")
  /\ UNCHANGED <<lease, target, stage, receipt, alive, faults>>

LegacyLeaves(l) ==
  /\ At(l, "owner")
  /\ target' = None /\ Goto(l, "idle")
  /\ UNCHANGED <<lease, whole, stage, receipt, alive, faults>>

\* The system rolls the transaction of a dead process back.
Die(x) ==
  /\ x \in alive
  /\ alive' = alive \ {x}
  /\ lease' = IF lease = x THEN None ELSE lease
  /\ Goto(x, "idle")
  /\ UNCHANGED <<files, faults>>

\* The steps acquireOwnerFile takes by itself once it has the lease.
Advance(p) ==
  \/ Reconcile(p) \/ ReconcileClears(p) \/ Prior(p) \/ Retire(p) \/ Intend(p)
  \/ CreateStage(p) \/ FillStage(p) \/ Link(p) \/ Unstage(p) \/ Publish(p) \/ Open(p)
  \/ DropTarget(p) \/ DropStage(p) \/ DropReceipt(p) \/ ReleaseClears(p) \/ InspectEnds(p)

Next ==
  \/ \E p \in Procs : \/ Acquire(p) \/ Advance(p) \/ Release(p) \/ ReleaseKeeping(p)
                      \/ Throw(p) \/ Inspect(p)
  \/ \E l \in Legacy : LegacyCreates(l) \/ LegacyWrites(l) \/ LegacyLeaves(l)
  \/ \E x \in All : Die(x)

Spec == Init /\ [][Next]_vars

\* A call that has started goes on; a caller that was refused (the lease is
\* busy also during an inspection) keeps trying.
FairSpec ==
  /\ Spec
  /\ \A p \in Procs : WF_vars(Advance(p)) /\ SF_vars(Acquire(p))
-----------------------------------------------------------------------------
(* Properties.                                                             *)

\* Whoever takes itself for the owner is the one the path names, so there is
\* one at most, older writers included; and no inspection reads from the path
\* that nobody owns it, which would invite a takeover from a live owner.
OwnerNamed ==
  /\ \A x \in alive : pc[x] \in {"owner", "writing"} => target = x
  /\ \A p \in alive \cap Procs : pc[p] = "inspect" /\ Verdict \in {"absent", "stale"}
       => \A x \in alive : pc[x] \notin {"owner", "writing"}

\* A staged file is always attributable: its receipt is in the ledger until
\* the file is gone, whoever dies or fails in between.
StageAttributed ==
  \A p \in Procs : stage[p] # "none" => receipt = p

\* A file at the path disappears only when its owner is dead or removes it.
OwnFileOnly ==
  [][\A x \in alive : target = x /\ target' # x
       => pc[x] \in {"owner", "drop target"} /\ pc'[x] # pc[x]]_vars

\* What dead processes leave never locks a living one out: it may own the path
\* when everyone else is gone, unless it has itself left a record there, or an
\* older writer died over an empty file or where its death cannot be told.
Alone(p) == alive \cap All = {p}
Residue(p) == p \in {target, receipt} \/ (target \in Legacy /\ ~(whole /\ Stale(target)))
TakeoverSucceeds ==
  \A p \in Procs : Alone(p) /\ ~Residue(p) ~> (pc[p] = "owner" \/ p \notin alive \/ Residue(p))
=============================================================================
