--------------------------- MODULE AgentLifecycle ---------------------------
(***************************************************************************)
(* One session identity and the attempts to bring an agent to life under   *)
(* it (core/agent-loop index.ts): a creation, a resume, or an agent named  *)
(* in the configuration, which waits for the identity, resumes it, and     *)
(* creates it when nothing is stored.  An attempt takes the session's      *)
(* write handle, runs its set-up, stores what was appended meanwhile,      *)
(* enters the registries of sessions and agents, and is announced.         *)
(*                                                                         *)
(* Its caller may cancel it, its owner and the factory may unload, and any *)
(* of its steps may fail, at any time; all of them end in one disposal.  A *)
(* reloaded factory may start while its predecessor is still draining;     *)
(* registries and backend are shared by both.                              *)
(*                                                                         *)
(* Each attempt has an owner of its own, the factory for a configured one. *)
(* A persistence backend is mounted.                                       *)
(***************************************************************************)
EXTENDS Naturals, FiniteSets

CONSTANTS Creates, Resumes, Configured, \* the attempts, by kind
          Factories, \* incarnations of the agent-loop service
          FactoryOf, \* the one an attempt goes through
          None,
          MaxSignals, \* bound: callers that cancel and owners that unload
          MaxFaults   \* bound: steps that fail

Attempts == Creates \cup Resumes \cup Configured

ASSUME AttemptsAssumption ==
  /\ Creates \cap Resumes = {} /\ (Creates \cup Resumes) \cap Configured = {}
  /\ None \notin Attempts
  /\ FactoryOf \in [Attempts -> Factories]
  /\ MaxSignals \in Nat /\ MaxFaults \in Nat

VARIABLES
  factory,   \* per incarnation of the service: its life
  owner,     \* per attempt: the fiber that owns it
  cancelled, \* attempts whose caller's signal has fired
  how,       \* per attempt: what it asks the backend for
  pc,        \* per attempt: where it is
  io,        \* per attempt: its create or open in the backend
  disp,      \* per attempt: its disposal, from prepare on
  told,      \* per attempt: the lifecycle edges that listeners saw
  broken,    \* attempts whose disposal met a failure
  stored,    \* a log of the session exists
  writer,    \* who has the process's write claim on the session
  session, agent, \* whose the registries' entries are
  faults

ends == <<factory, owner, cancelled>>
entries == <<session, agent, told>>
backend == <<io, stored, writer>>
vars == <<ends, how, pc, backend, disp, broken, entries, faults>>

Initializing == {"setup", "storing", "announcing"}
Disposing == {"idle", "close", "detach"}

TypeOK ==
  /\ factory \in [Factories -> {"unmounted", "up", "draining", "down"}]
  /\ owner \in [Attempts -> {"active", "waiting", "gone"}]
  /\ cancelled \subseteq Attempts
  /\ how \in [Attempts -> {"create", "resume"}]
  /\ pc \in [Attempts -> Initializing \cup
               {"asked", "waiting", "new", "opening", "repairing", "unwinding",
                "rollback", "live", "rejected"}]
  /\ io \in [Attempts -> {"none", "called", "looked", "claimed", "open", "held", "absent", "failed"}]
  /\ disp \in [Attempts -> Disposing \cup {"unprepared", "ready", "done"}]
  /\ told \in [Attempts -> {"nothing", "created", "disposed"}]
  /\ broken \subseteq Attempts
  /\ stored \in BOOLEAN
  /\ writer \in Attempts \cup {None}
  /\ session \in Attempts \cup {None} /\ agent \in Attempts \cup {None}
  /\ faults \in 0..MaxFaults

\* The log of an earlier run of the program may be there.
Init ==
  /\ factory = [f \in Factories |-> "unmounted"] /\ owner = [a \in Attempts |-> "active"] /\ cancelled = {}
  /\ how = [a \in Attempts |-> IF a \in Creates THEN "create" ELSE "resume"]
  /\ pc = [a \in Attempts |-> IF a \in Configured THEN "asked" ELSE "new"]
  /\ io = [a \in Attempts |-> "none"]
  /\ disp = [a \in Attempts |-> "unprepared"]
  /\ told = [a \in Attempts |-> "nothing"]
  /\ broken = {} /\ stored \in BOOLEAN
  /\ writer = None /\ session = None /\ agent = None /\ faults = 0

Goto(a, l) == pc' = [pc EXCEPT ![a] = l]
Fault == faults < MaxFaults /\ faults' = faults + 1
Signal == Cardinality(cancelled) + Cardinality({a \in Attempts : owner[a] # "active"})
            < MaxSignals
Up(a) == factory[FactoryOf[a]] = "up"
Unoccupied == session = None /\ agent = None

\* The signal of the lifecycle: caller, factory, or its disposal.
Aborted(a) == a \in cancelled \/ ~Up(a) \/ disp[a] # "ready"

\* What stops the wait for the backend: a creation knows its caller only.
OpenAborted(a) ==
  \/ a \in cancelled
  \/ how[a] = "resume" /\ (owner[a] # "active" \/ ~Up(a))

-----------------------------------------------------------------------------
(* restoreOrCreateConfigured.                                              *)

\* The factory starts: waitForDrainingConfiguredIdentity.
Mount(f) ==
  /\ factory[f] = "unmounted" /\ \A g \in Factories : factory[g] # "up"
  /\ factory' = [factory EXCEPT ![f] = "up"]
  /\ pc' = [a \in Attempts |-> IF pc[a] # "asked" \/ FactoryOf[a] # f THEN pc[a]
                               ELSE IF Unoccupied THEN "new" ELSE "waiting"]
  /\ UNCHANGED <<owner, cancelled, how, backend, disp, broken, entries, faults>>

StopWaiting(a) ==
  /\ pc[a] = "waiting" /\ ~Up(a)
  /\ Goto(a, "rejected")
  /\ UNCHANGED <<ends, how, backend, disp, broken, entries, faults>>

-----------------------------------------------------------------------------
(* The backend: JsonlBackendTracker and the service's create and open.     *)

Answers(a, answer) == io' = [io EXCEPT ![a] = answer]

\* create looks for a log or a creation under way ...
Look(a) ==
  /\ io[a] = "called" /\ how[a] = "create"
  /\ Answers(a, IF stored \/ (writer # None /\ how[writer] = "create")
                THEN "failed" ELSE "looked")
  /\ UNCHANGED <<ends, how, pc, stored, writer, disp, broken, entries, faults>>

\* Mutant: the claim does not look for another writer.
ClaimBlindly(a) ==
  /\ io[a] = IF how[a] = "create" THEN "looked" ELSE "called"
  /\ writer' = a /\ Answers(a, IF how[a] = "create" THEN "open" ELSE "claimed")
  /\ UNCHANGED <<ends, how, pc, stored, disp, broken, entries, faults>>

\* ... and claims the identity after that; an open claims it first.
Claim(a) ==
  /\ io[a] = IF how[a] = "create" THEN "looked" ELSE "called"
  /\ IF writer # None
     THEN Answers(a, "failed") /\ UNCHANGED writer
     ELSE writer' = a /\ Answers(a, IF how[a] = "create" THEN "open" ELSE "claimed")
  /\ UNCHANGED <<ends, how, pc, stored, disp, broken, entries, faults>>

\* An open without a log gives the claim back.
Find(a) ==
  /\ io[a] = "claimed"
  /\ IF stored
     THEN Answers(a, "open") /\ UNCHANGED writer
     ELSE Answers(a, "absent") /\ writer' = None
  /\ UNCHANGED <<ends, how, pc, stored, disp, broken, entries, faults>>

\* The call fails, or heeds the signal it was given.
BackendFails(a) ==
  /\ io[a] \in {"called", "looked", "claimed"}
  /\ (OpenAborted(a) /\ UNCHANGED faults) \/ Fault
  /\ Answers(a, "failed")
  /\ writer' = IF writer = a THEN None ELSE writer
  /\ UNCHANGED <<ends, how, pc, stored, disp, broken, entries>>

\* The handle of an attempt that did not wait for it is closed.
CloseAbandoned(a) ==
  /\ pc[a] = "rejected" /\ io[a] = "open"
  /\ Answers(a, "none") /\ writer' = None
  /\ UNCHANGED <<ends, how, pc, stored, disp, broken, entries, faults>>

-----------------------------------------------------------------------------
(* createAgent, resumeWith, prepare.                                       *)

Open(a) ==
  /\ pc[a] = "new" /\ factory[FactoryOf[a]] # "unmounted"
  /\ IF OpenAborted(a) \/ ~Up(a) \/ (how[a] = "create" /\ session # None)
     THEN Goto(a, "rejected") /\ UNCHANGED io
     ELSE Goto(a, "opening") /\ Answers(a, "called")
  /\ UNCHANGED <<ends, how, stored, writer, disp, broken, entries, faults>>

\* raceAbortCall: the caller goes, the operation goes on.
Abandon(a) ==
  /\ pc[a] = "opening" /\ OpenAborted(a)
  /\ Goto(a, "rejected")
  /\ UNCHANGED <<ends, how, backend, disp, broken, entries, faults>>

\* A configured identity that was never stored is created.
OpenFails(a) ==
  /\ pc[a] = "opening" /\ io[a] \in {"absent", "failed"}
  /\ IF io[a] = "absent" /\ a \in Configured /\ Up(a)
     THEN Goto(a, "new") /\ how' = [how EXCEPT ![a] = "create"]
     ELSE Goto(a, "rejected") /\ UNCHANGED how
  /\ UNCHANGED <<ends, backend, disp, broken, entries, faults>>

\* Mutant: a handle taken for an owner that is gone is left open.
PrepareUnchecked(a, ok) ==
  IF ok /\ owner[a] = "active" /\ Up(a) /\ a \notin cancelled
  THEN Goto(a, "setup") /\ disp' = [disp EXCEPT ![a] = "ready"]
  ELSE Goto(a, "rejected") /\ UNCHANGED disp

\* prepare, for an attempt that has its handle: refused unless everyone that
\* could stop it is there, it registers its disposal before anything else.
Prepare(a, ok) ==
  IF ok /\ owner[a] = "active" /\ Up(a) /\ a \notin cancelled
  THEN Goto(a, "setup") /\ disp' = [disp EXCEPT ![a] = "ready"]
  ELSE Goto(a, "unwinding") /\ UNCHANGED disp

Opened(a) ==
  /\ pc[a] = "opening" /\ io[a] = "open"
  /\ IF how[a] = "create"
     THEN Prepare(a, TRUE)
     ELSE Goto(a, "repairing") /\ UNCHANGED disp
  /\ Answers(a, "held")
  /\ UNCHANGED <<ends, how, stored, writer, broken, entries, faults>>

\* The log was read and its closers stored; sessions.prepare refuses an
\* identity that is taken.
Repaired(a) ==
  /\ pc[a] = "repairing"
  /\ Prepare(a, session = None)
  /\ UNCHANGED <<ends, how, backend, broken, entries, faults>>

RepairFails(a) ==
  /\ pc[a] = "repairing"
  /\ (OpenAborted(a) /\ UNCHANGED faults) \/ Fault
  /\ Goto(a, "unwinding")
  /\ UNCHANGED <<ends, how, backend, disp, broken, entries>>

\* Mutant: the claim is marked as free, not deleted.
UnwoundMarks(a) ==
  /\ pc[a] = "unwinding"
  /\ Goto(a, "rejected") /\ Answers(a, "none") /\ writer' = "free"
  /\ UNCHANGED <<ends, how, stored, disp, broken, entries, faults>>

\* The handle is closed before the attempt rejects.
Unwound(a) ==
  /\ pc[a] = "unwinding"
  /\ Goto(a, "rejected") /\ Answers(a, "none") /\ writer' = None
  /\ UNCHANGED <<ends, how, stored, disp, broken, entries, faults>>

-----------------------------------------------------------------------------
(* setupAndPublish and initializeAgent.                                    *)

\* The initialization throws: the agent's maintenance is over, and the
\* disposal is started or joined.
Fail(a) ==
  /\ Goto(a, "rollback")
  /\ disp' = [disp EXCEPT ![a] = IF @ = "ready" THEN "idle" ELSE @]

SetUp(a) ==
  /\ pc[a] = "setup" /\ ~Aborted(a)
  /\ Goto(a, "storing")
  /\ UNCHANGED <<ends, how, backend, disp, broken, entries, faults>>

\* Mutant: the set-up is not raced with the signal.
SetUpStopsOnFault(a) ==
  /\ pc[a] = "setup"
  /\ Fault
  /\ Fail(a)
  /\ UNCHANGED <<ends, how, backend, broken, entries>>

SetUpStops(a) ==
  /\ pc[a] = "setup"
  /\ (Aborted(a) /\ UNCHANGED faults) \/ Fault
  /\ Fail(a)
  /\ UNCHANGED <<ends, how, backend, broken, entries>>

\* appendUnstoredSuffix, and publish up to the announcement of the agent.  The
\* suffix may be empty; a created handle cannot write over a log.  A listener
\* of the session's announcement may veto.
Publish(a) ==
  /\ pc[a] = "storing"
  /\ stored' \in {stored, TRUE}
  /\ \/ /\ Aborted(a) \/ ~Unoccupied
        /\ Fail(a) /\ UNCHANGED <<entries, faults>>
     \/ /\ ~Aborted(a) /\ Unoccupied /\ Fault
        /\ session' = a /\ agent' = a /\ Fail(a) /\ UNCHANGED told
     \/ /\ ~Aborted(a) /\ Unoccupied
        /\ session' = a /\ agent' = a /\ told' = [told EXCEPT ![a] = "created"]
        /\ Goto(a, "announcing") /\ UNCHANGED <<disp, faults>>
  /\ UNCHANGED <<ends, how, io, writer, broken>>

StoreFails(a) ==
  /\ pc[a] = "storing"
  /\ (how[a] = "create" /\ stored /\ UNCHANGED faults) \/ Fault
  /\ Fail(a)
  /\ UNCHANGED <<ends, how, backend, broken, entries>>

\* The listeners of agent/created have returned.
Announced(a) ==
  /\ pc[a] = "announcing"
  /\ \/ /\ ~Aborted(a)
        /\ Goto(a, "live") /\ UNCHANGED <<disp, faults>>
     \/ /\ (Aborted(a) /\ UNCHANGED faults) \/ Fault
        /\ Fail(a)
  /\ UNCHANGED <<ends, how, backend, broken, entries>>

RolledBack(a) ==
  /\ pc[a] = "rollback" /\ disp[a] = "done"
  /\ Goto(a, "rejected")
  /\ UNCHANGED <<ends, how, backend, disp, broken, entries, faults>>

-----------------------------------------------------------------------------
(* dispose: one memoized teardown for everyone who asks.                   *)

Stage(a, l) == disp' = [disp EXCEPT ![a] = l]

\* A failure is kept for the end.
Breaks(a) == (UNCHANGED <<broken, faults>>) \/ (Fault /\ broken' = broken \cup {a})

Dispose(a) ==
  /\ a \notin Configured /\ pc[a] = "live" /\ disp[a] = "ready"
  /\ Stage(a, "idle")
  /\ UNCHANGED <<ends, how, pc, backend, broken, entries, faults>>

\* Mutant: the disposal does not wait for the agent's maintenance.
QuietAtOnce(a) ==
  /\ disp[a] = "idle"
  /\ Stage(a, "close") /\ Breaks(a)
  /\ UNCHANGED <<ends, how, pc, backend, entries>>

\* A publication under way has ended; whenIdle, as the initialization is the
\* agent's maintenance and the driver of a live agent stops when it is
\* cancelled; the scope is disposed.
Quiet(a) ==
  /\ disp[a] = "idle" /\ pc[a] \notin Initializing
  /\ Stage(a, "close") /\ Breaks(a)
  /\ UNCHANGED <<ends, how, pc, backend, entries>>

HandleClosed(a) ==
  /\ disp[a] = "close"
  /\ Stage(a, "detach") /\ Breaks(a)
  /\ Answers(a, "none") /\ writer' = None
  /\ UNCHANGED <<ends, how, pc, stored, entries>>

\* Mutant: an insertion that was never announced stays.
DetachAnnounced(a) ==
  /\ disp[a] = "detach"
  /\ Stage(a, "done")
  /\ session' = IF session = a /\ told[a] = "created" THEN None ELSE session
  /\ agent' = IF agent = a /\ told[a] = "created" THEN None ELSE agent
  /\ told' = [told EXCEPT ![a] = IF @ = "created" THEN "disposed" ELSE @]
  /\ pc' = [b \in Attempts |-> IF pc[b] = "waiting" /\ session' = None THEN "new" ELSE pc[b]]
  /\ factory' = [factory EXCEPT ![FactoryOf[a]] =
                   IF a \in broken /\ @ = "draining" THEN "down" ELSE @]
  /\ UNCHANGED <<owner, cancelled, how, backend, broken, faults>>

\* The entries leave the registries; their listeners wake who waits for the
\* identity.  A failure rejects, and ends the factory's wait for everyone.
Detach(a) ==
  /\ disp[a] = "detach"
  /\ Stage(a, "done")
  /\ session' = IF session = a THEN None ELSE session
  /\ agent' = IF agent = a THEN None ELSE agent
  /\ told' = [told EXCEPT ![a] = IF @ = "created" THEN "disposed" ELSE @]
  /\ pc' = [b \in Attempts |-> IF pc[b] = "waiting" /\ session' = None THEN "new" ELSE pc[b]]
  /\ factory' = [factory EXCEPT ![FactoryOf[a]] =
                   IF a \in broken /\ @ = "draining" THEN "down" ELSE @]
  /\ UNCHANGED <<owner, cancelled, how, backend, broken, faults>>

\* Events of a live session reach its log.
LiveWrites(a) ==
  /\ pc[a] \in {"announcing", "live", "rollback"} /\ writer = a /\ ~stored
  /\ stored' = TRUE
  /\ UNCHANGED <<ends, how, pc, io, writer, disp, broken, entries, faults>>

-----------------------------------------------------------------------------
(* Callers, owners and the factory.                                        *)

Cancel(a) ==
  /\ a \notin cancelled \cup Configured /\ pc[a] # "rejected" /\ Signal
  /\ cancelled' = cancelled \cup {a}
  /\ UNCHANGED <<factory, owner, how, pc, backend, disp, broken, entries, faults>>

\* The owner's fiber unloads: it starts a disposal and waits for it, or finds
\* one begun and goes.
OwnerUnloads(a) ==
  /\ a \notin Configured /\ owner[a] = "active" /\ pc[a] # "rejected" /\ Signal
  /\ IF disp[a] = "ready"
     THEN owner' = [owner EXCEPT ![a] = "waiting"] /\ Stage(a, "idle")
     ELSE owner' = [owner EXCEPT ![a] = "gone"] /\ UNCHANGED disp
  /\ UNCHANGED <<factory, cancelled, how, pc, backend, broken, entries, faults>>

OwnerGone(a) ==
  /\ owner[a] = "waiting" /\ disp[a] = "done"
  /\ owner' = [owner EXCEPT ![a] = "gone"]
  /\ UNCHANGED <<factory, cancelled, how, pc, backend, disp, broken, entries, faults>>

FactoryUnloads(f) ==
  /\ factory[f] = "up" /\ factory' = [factory EXCEPT ![f] = "draining"]
  /\ disp' = [a \in Attempts |-> IF disp[a] = "ready" /\ FactoryOf[a] = f
                                 THEN "idle" ELSE disp[a]]
  /\ UNCHANGED <<owner, cancelled, how, pc, backend, broken, entries, faults>>

\* Mutant: the calls under way are not joined.
FactoryDownAlone(f) ==
  /\ factory[f] = "draining" /\ factory' = [factory EXCEPT ![f] = "down"]
  /\ \A a \in Attempts : FactoryOf[a] = f => disp[a] \in {"unprepared", "done"}
  /\ UNCHANGED <<owner, cancelled, how, pc, backend, disp, broken, entries, faults>>

\* Every live agent's disposal and every call under way have ended.
FactoryDown(f) ==
  /\ factory[f] = "draining" /\ factory' = [factory EXCEPT ![f] = "down"]
  /\ \A a \in Attempts : FactoryOf[a] = f =>
       /\ disp[a] \in {"unprepared", "done"}
       /\ pc[a] \in {"live", "rejected"} \/ (pc[a] = "new" /\ a \notin Configured)
  /\ UNCHANGED <<owner, cancelled, how, pc, backend, disp, broken, entries, faults>>

\* The backend at work on a call; and what goes on by itself.
Answering(a) == Look(a) \/ Claim(a) \/ Find(a)
Advance(a) ==
  \/ StopWaiting(a) \/ (a \in Configured /\ Open(a)) \/ Abandon(a) \/ OpenFails(a)
  \/ Opened(a) \/ Repaired(a) \/ Unwound(a) \/ CloseAbandoned(a)
  \/ SetUpStops(a) \/ Publish(a) \/ Announced(a) \/ RolledBack(a)
  \/ Quiet(a) \/ HandleClosed(a) \/ Detach(a)
  \/ OwnerGone(a)

Next ==
  \/ \E a \in Attempts :
       \/ Advance(a) \/ Answering(a) \/ BackendFails(a)
       \/ Open(a) \/ RepairFails(a) \/ SetUp(a) \/ StoreFails(a) \/ LiveWrites(a)
       \/ Dispose(a) \/ Cancel(a) \/ OwnerUnloads(a)
  \/ \E f \in Factories : Mount(f) \/ FactoryUnloads(f) \/ FactoryDown(f)

Spec == Init /\ [][Next]_vars

Progress ==
  \/ \E a \in Attempts : Advance(a) \/ (how[a] = "create" /\ Answering(a))
  \/ \E f \in Factories : FactoryDown(f)

\* A file operation on a handle and a listener that was told of the signal
\* return; a create ends in the backend.  An open, a set-up, a caller may hang.
\* No step is ever taken twice: fairness to all is fairness to each.
FairSpec == Spec /\ WF_vars(Progress)
-----------------------------------------------------------------------------
(* Properties.                                                             *)

Using(a) == pc[a] \in {"repairing", "unwinding"} \cup Initializing
              \/ disp[a] \in {"ready", "idle", "close"}

\* Whatever races for the identity: who works with the session, from its
\* handle to the end of its disposal, holds the write claim on it, so there is
\* one at most; and an agent that is usable is the one both registries name,
\* under an owner and a factory that are there.
IdentityHeld ==
  \A a \in Attempts :
    /\ Using(a) => writer = a
    /\ pc[a] = "live" /\ disp[a] = "ready"
         => session = a /\ agent = a /\ owner[a] = "active" /\ Up(a)

\* An attempt that was rejected and an agent that was disposed leave nothing:
\* no entry, no announcement without its counterpart, no claim but that of an
\* operation nobody waits for; nor does a factory that is down, unless a
\* disposal has failed.
NothingLeft ==
  /\ \A a \in Attempts : pc[a] = "rejected" \/ disp[a] = "done"
       => /\ session # a /\ agent # a /\ told[a] # "created"
          /\ writer = a => io[a] \in {"claimed", "open"}
  /\ broken = {} => \A a \in Attempts : factory[FactoryOf[a]] = "down"
       => pc[a] \in {"asked", "new", "live", "rejected"} /\ disp[a] \in {"unprepared", "done"}

\* Something was begun that has to end: an attempt that its caller cancelled, a
\* disposal, the close of a handle nobody waits for, the wait for an identity
\* that is draining, the end of a factory that unloads.
Owing(a) ==
  \/ a \in cancelled /\ pc[a] \notin {"new", "live", "rejected"}
  \/ disp[a] \in Disposing
  \/ pc[a] = "rejected" /\ io[a] = "open"
  \/ pc[a] = "waiting" /\ session # None /\ disp[session] \in Disposing
  \/ factory[FactoryOf[a]] = "draining"

\* Whatever hangs in the backend's opens and in set-ups, what has to end ends.
Settles == []<>(\A a \in Attempts : ~Owing(a))
=============================================================================
