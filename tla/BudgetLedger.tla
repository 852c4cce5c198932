---------------------------- MODULE BudgetLedger ----------------------------
(***************************************************************************)
(* The spending ledger of a SEP profile (system-enhancement-package:       *)
(* budget-ledger.js, budget-lock.js, budget-continuity.js) and the model   *)
(* requests that charge it (p1.js, llm/stream).                            *)
(*                                                                         *)
(* A change of the ledger reads the file, applies one operation, and       *)
(* renames a new file over it, under two locks: an SQLite transaction that *)
(* the system releases when a process dies, and a lock file that stays,    *)
(* and that older writers take too.  A request reserves its worst case,    *)
(* marks it dispatched, is sent, and settles the usage or leaves the       *)
(* outcome unknown; it gives the reservation back when it was never        *)
(* dispatched.  A step may fail, a process may die and the ledger may be   *)
(* moved away between any two steps.                                       *)
(*                                                                         *)
(* Each request is a process of its own with one row; older writers make   *)
(* one charge each to a ledger that exists.                                *)
(***************************************************************************)
EXTENDS Naturals, Functions

CONSTANTS
  Requests,    \* model requests
  Legacy,      \* older writers
  None,
  Reservation, \* per writer: the worst case of its charge
  Limit,       \* the cumulative limit
  Quotes,      \* what a usage may come to
  MaxFaults    \* bound: steps that fail, deaths, times the ledger is moved away

Writers == Requests \cup Legacy

ASSUME LedgerAssumption ==
  /\ Requests \cap Legacy = {} /\ None \notin Writers
  /\ Reservation \in [Writers -> Nat \ {0}]
  /\ Limit \in Nat /\ Quotes \subseteq Nat /\ MaxFaults \in Nat

VARIABLES
  guardFile, \* the SQLite file exists
  guard,     \* whose transaction holds it
  lock,      \* who created the lock file
  stamped,   \* its metadata is complete
  ledger,    \* the state of every row in the file, or None
  at,        \* where a writer is in its transaction
  base,      \* the ledger it read
  fresh,     \* its proof that nothing was ever accounted here
  client,    \* the operation, or where the request is between two
  quote,     \* what the usage of a request came to
  alive,
  sent,      \* history: requests the provider has been asked
  book,      \* history: the ledger as last published
  faults

locks == <<guardFile, guard, lock, stamped>>
tx    == <<at, base, fresh, client>>
vars  == <<locks, ledger, tx, quote, alive, sent, book, faults>>

Book == INSTANCE ChargeBook
Held == Book!Held
Rows == [Writers -> Book!States]
Empty == [w \in Writers |-> "none"]
Operations == {"reserve", "charge", "dispatch", "settle", "release", "unknown"}

TypeOK ==
  /\ guardFile \in BOOLEAN /\ stamped \in BOOLEAN
  /\ guard \in Requests \cup {None}
  /\ lock \in Writers \cup {None}
  /\ ledger \in Rows \cup {None} /\ book \in Rows
  /\ at \in [Writers -> {"out", "history", "create", "begin", "lock", "stamp",
                      "load", "compare", "publish", "release", "abort"}]
  /\ base \in [Writers -> Rows \cup {None}]
  /\ fresh \in [Writers -> BOOLEAN]
  /\ client \in [Writers -> Operations \cup {"new", "reserved", "dispatched", "sent", "done"}]
  /\ quote \in [Writers -> Quotes \cup {0}]
  /\ alive \subseteq Writers /\ sent \subseteq Requests
  /\ faults \in 0..MaxFaults

\* A directory never used.
Init ==
  /\ ledger = None /\ guardFile = FALSE
  /\ guard = None /\ lock = None /\ stamped = FALSE
  /\ at = [w \in Writers |-> "out"] /\ base = [w \in Writers |-> None]
  /\ fresh = [w \in Writers |-> FALSE] /\ client = [w \in Writers |-> "new"]
  /\ quote = [w \in Writers |-> 0] /\ alive = Writers
  /\ sent = {} /\ book = Empty /\ faults = 0

At(w, l)   == w \in alive /\ at[w] = l
Goto(w, l) == at' = [at EXCEPT ![w] = l]
Fault      == faults < MaxFaults /\ faults' = faults + 1
Unlock     == lock' = None /\ stamped' = FALSE

\* A call of change: older writers know only the lock file; the coordination
\* file is never removed, and is history enough.
Call(w, o) ==
  /\ client' = [client EXCEPT ![w] = o]
  /\ Goto(w, IF o \notin Operations THEN "out" ELSE IF w \in Legacy THEN "lock"
             ELSE IF guardFile THEN "begin" ELSE "history")

\* What the request does when the call it awaits resolves or rejects: a mark
\* or a settlement that failed goes to the clean-up, whose failure is ignored.
Returns(w, ok) ==
  Call(w, CASE client[w] = "reserve"  /\ ok  -> "reserved"
            [] client[w] = "dispatch" /\ ok  -> "dispatched"
            [] client[w] = "dispatch" /\ ~ok -> "release"
            [] client[w] = "settle"   /\ ~ok -> "unknown"
            [] OTHER                         -> "done")

\* The call ends: ROLLBACK, and the request sees its outcome.
Leave(w, ok) ==
  /\ guard' = IF guard = w THEN None ELSE guard
  /\ base' = [base EXCEPT ![w] = None] /\ fresh' = [fresh EXCEPT ![w] = FALSE]
  /\ Returns(w, ok)

-----------------------------------------------------------------------------
(* acquireBudgetLock.                                                      *)

\* hasBudgetHistory: the coordination file or a lock lie about.
ReadHistory(w) ==
  /\ At(w, "history")
  /\ fresh' = [fresh EXCEPT ![w] = ~guardFile /\ lock = None] /\ Goto(w, "create")
  /\ UNCHANGED <<locks, ledger, base, client, quote, alive, sent, book, faults>>

\* Mutant: any writer that saw no history is fresh, not the creator alone.
CreateGuardShared(w) ==
  /\ At(w, "create")
  /\ guardFile' = TRUE /\ Goto(w, "begin")
  /\ UNCHANGED <<guard, lock, stamped, ledger, base, fresh, client, quote, alive, sent, book, faults>>

CreateGuard(w) ==
  /\ At(w, "create")
  /\ guardFile' = TRUE /\ Goto(w, "begin")
  /\ fresh' = [fresh EXCEPT ![w] = @ /\ ~guardFile]
  /\ UNCHANGED <<guard, lock, stamped, ledger, base, client, quote, alive, sent, book, faults>>

\* BEGIN IMMEDIATE, tried for five seconds.
BeginGuard(w) ==
  /\ At(w, "begin")
  /\ \/ /\ guard = None
        /\ guard' = w /\ Goto(w, "lock") /\ UNCHANGED client
        /\ UNCHANGED <<base, fresh>>
     \/ guard # None /\ Leave(w, FALSE)
  /\ UNCHANGED <<guardFile, lock, stamped, ledger, quote, alive, sent, book, faults>>

\* The lock file is created exclusively.
TakeLock(w) ==
  /\ At(w, "lock") /\ lock = None
  /\ lock' = w /\ stamped' = FALSE /\ Goto(w, "stamp")
  /\ UNCHANGED <<guardFile, guard, ledger, base, fresh, client, quote, alive, sent, book, faults>>

\* A writer that meets a lock is no longer the first here.
MeetLock(w) ==
  /\ At(w, "lock") /\ lock # None /\ fresh[w]
  /\ fresh' = [fresh EXCEPT ![w] = FALSE]
  /\ UNCHANGED <<locks, ledger, at, base, client, quote, alive, sent, book, faults>>

\* Mutant: the owner's death is not required.
TakeOverLive(w) ==
  /\ At(w, "lock") /\ w \notin Legacy
  /\ lock # None /\ stamped
  /\ Unlock /\ fresh' = [fresh EXCEPT ![w] = FALSE]
  /\ UNCHANGED <<guardFile, guard, ledger, at, base, client, quote, alive, sent, book, faults>>

\* The complete lock of a dead process is renamed away.
TakeOver(w) ==
  /\ At(w, "lock") /\ w \notin Legacy
  /\ lock # None /\ stamped /\ lock \notin alive
  /\ Unlock /\ fresh' = [fresh EXCEPT ![w] = FALSE]
  /\ UNCHANGED <<guardFile, guard, ledger, at, base, client, quote, alive, sent, book, faults>>

\* Mutant: incomplete metadata is waited for, without an end.
RefusedByOwner(w) ==
  /\ At(w, "lock") /\ lock # None
  /\ lock \in alive
  /\ Leave(w, FALSE)
  /\ UNCHANGED <<guardFile, lock, stamped, ledger, quote, alive, sent, book, faults>>

\* Incomplete metadata is refused at once, a live owner (to an older writer,
\* any) after five seconds.
Refused(w) ==
  /\ At(w, "lock") /\ lock # None
  /\ lock \in alive \/ ~stamped \/ w \in Legacy
  /\ Leave(w, FALSE)
  /\ UNCHANGED <<guardFile, lock, stamped, ledger, quote, alive, sent, book, faults>>

Stamp(w) ==
  /\ At(w, "stamp")
  /\ stamped' = TRUE /\ Goto(w, "load")
  /\ UNCHANGED <<guardFile, guard, lock, ledger, base, fresh, client, quote, alive, sent, book, faults>>

-----------------------------------------------------------------------------
(* change: read, apply, compare, rename.                                   *)

Content(l) == IF l = None THEN Empty ELSE l

\* Mutant: the limit is held against settled charges only.
PermittedBySettled(b, w) ==
  CASE client[w] \in {"reserve", "charge"} ->
         /\ b[w] = "none"
         /\ FoldFunction(+, 0, [v \in Writers |-> IF b[v] = "settled" THEN quote[v] ELSE 0])
              + Reservation[w] <= Limit
    [] client[w] \in {"dispatch", "release"} -> b[w] = "prepared"
    [] client[w] = "settle" -> b[w] \in Held /\ quote[w] <= Reservation[w]
    [] client[w] = "unknown" -> TRUE

\* The checks of reserve, markDispatched, releasePrepared and settle;
\* markUnknown has none.
Permitted(b, w) ==
  CASE client[w] \in {"reserve", "charge"} ->
         b[w] = "none" /\ Book!Accounted(b, quote) + Reservation[w] <= Limit
    [] client[w] \in {"dispatch", "release"} -> b[w] = "prepared"
    [] client[w] = "settle" -> b[w] \in Held /\ quote[w] <= Reservation[w]
    [] client[w] = "unknown" -> TRUE

\* Mutant: a released row gets a status of its own.
AppliedCancelled(b, w) ==
  [b EXCEPT ![w] =
     CASE client[w] \in {"reserve", "charge"} -> "prepared"
       [] client[w] = "dispatch" -> "dispatched"
       [] client[w] = "release"  -> "cancelled"
       [] client[w] = "settle"   -> "settled"
       [] client[w] = "unknown"  -> IF @ = "dispatched" THEN "unknown" ELSE @]

\* What they write: an outcome becomes unknown once it was dispatched.
Applied(b, w) ==
  [b EXCEPT ![w] =
     CASE client[w] \in {"reserve", "charge"} -> "prepared"
       [] client[w] = "dispatch" -> "dispatched"
       [] client[w] = "release"  -> "released"
       [] client[w] = "settle"   -> "settled"
       [] client[w] = "unknown"  -> IF @ = "dispatched" THEN "unknown" ELSE @]

\* A missing ledger is an empty one to a fresh writer only.
Load(w) ==
  /\ At(w, "load")
  /\ base' = [base EXCEPT ![w] = ledger] /\ fresh' = [fresh EXCEPT ![w] = FALSE]
  /\ Goto(w, IF (ledger # None \/ fresh[w]) /\ Permitted(Content(ledger), w)
             THEN "compare" ELSE "abort")
  /\ UNCHANGED <<locks, ledger, client, quote, alive, sent, book, faults>>

\* assertOwned and assertLedgerUnchanged.
Compare(w) ==
  /\ At(w, "compare")
  /\ Goto(w, IF lock = w /\ stamped /\ ledger = base[w] THEN "publish" ELSE "abort")
  /\ UNCHANGED <<locks, ledger, base, fresh, client, quote, alive, sent, book, faults>>

Publish(w) ==
  /\ At(w, "publish")
  /\ ledger' = Applied(Content(base[w]), w) /\ book' = ledger'
  /\ Goto(w, "release")
  /\ UNCHANGED <<locks, base, fresh, client, quote, alive, sent, faults>>

\* release: a lock that is not this one's own stays, and the release rejects.
Release(w) ==
  /\ w \in alive /\ at[w] \in {"release", "abort"}
  /\ IF lock = w THEN Unlock ELSE UNCHANGED <<lock, stamped>>
  /\ Leave(w, at[w] = "release" /\ lock = w)
  /\ UNCHANGED <<guardFile, ledger, quote, alive, sent, book, faults>>

\* A step fails: inside the lock the change rejects and releases it; a release
\* that fails may leave the lock file or not, and a change that was published
\* then rejects too; on the way in, an incomplete lock file is left as it is.
Throw(w) ==
  /\ w \in alive /\ at[w] # "out" /\ Fault
  /\ \/ /\ at[w] \in {"load", "compare", "publish"}
        /\ Goto(w, "abort") /\ UNCHANGED <<guard, lock, stamped, base, fresh, client>>
     \/ /\ at[w] \in {"release", "abort"} /\ lock = w
        /\ Unlock /\ Leave(w, FALSE)
     \/ /\ at[w] \notin {"load", "compare", "publish"}
        /\ Leave(w, FALSE) /\ UNCHANGED <<lock, stamped>>
  /\ UNCHANGED <<guardFile, ledger, quote, alive, sent, book>>

-----------------------------------------------------------------------------
(* llm/stream: the request between its calls.                              *)

Resting(w, c) == At(w, "out") /\ client[w] = c
Calls(w, o) ==
  /\ Call(w, o)
  /\ UNCHANGED <<locks, ledger, base, fresh, alive, sent, book, faults>>

\* The provider is asked.
Send(r) ==
  /\ Resting(r, "dispatched")
  /\ sent' = sent \cup {r} /\ client' = [client EXCEPT ![r] = "sent"]
  /\ UNCHANGED <<locks, ledger, at, base, fresh, quote, alive, book, faults>>

\* An abort or a failed stream ends the request where it is.
Request(r) ==
  \/ Resting(r, "new") /\ Calls(r, "reserve") /\ UNCHANGED quote
  \/ Resting(r, "reserved") /\ \E o \in {"dispatch", "release"} : Calls(r, o) /\ UNCHANGED quote
  \/ Resting(r, "dispatched") /\ Calls(r, "unknown") /\ UNCHANGED quote
  \/ Send(r)
  \/ Resting(r, "sent") /\ Calls(r, "unknown") /\ UNCHANGED quote
  \/ /\ Resting(r, "sent") /\ Calls(r, "settle")
     /\ \E q \in Quotes : quote' = [quote EXCEPT ![r] = q]

\* An older writer charges a ledger that exists.
LegacyCharge(l) ==
  Resting(l, "new") /\ ledger # None /\ Calls(l, "charge") /\ UNCHANGED quote

\* The system rolls a dead process's transaction back.
Die(w) ==
  /\ w \in alive /\ Fault
  /\ alive' = alive \ {w} /\ Goto(w, "out") /\ client' = [client EXCEPT ![w] = "done"]
  /\ base' = [base EXCEPT ![w] = None] /\ fresh' = [fresh EXCEPT ![w] = FALSE]
  /\ guard' = IF guard = w THEN None ELSE guard
  /\ UNCHANGED <<guardFile, lock, stamped, ledger, quote, sent, book>>

\* The ledger is moved away from outside.
Lose ==
  /\ ledger # None /\ ledger' = None /\ Fault
  /\ UNCHANGED <<locks, tx, quote, alive, sent, book>>

Step(w) ==
  \/ ReadHistory(w) \/ CreateGuard(w) \/ BeginGuard(w) \/ TakeLock(w) \/ TakeOver(w)
  \/ Refused(w) \/ Stamp(w) \/ Load(w) \/ Compare(w) \/ Publish(w) \/ Release(w)

Next ==
  \/ \E w \in Writers : Step(w) \/ MeetLock(w) \/ Throw(w) \/ Die(w)
  \/ \E r \in Requests : Request(r)
  \/ \E l \in Legacy : LegacyCharge(l)
  \/ Lose

Spec == Init /\ [][Next]_vars

\* A call that has started goes on.
FairSpec == Spec /\ \A w \in Writers : WF_vars(Step(w))
-----------------------------------------------------------------------------
(* Properties.                                                             *)

\* Reservations of racing, failing and dying writers never exceed the limit.
CapHeld == ledger # None => Book!Accounted(ledger, quote) <= Limit

\* A request the provider may have charged stays charged, whoever publishes
\* next, and whatever the request was told about its own calls.
SentStaysCharged ==
  \A r \in sent : ledger # None => ledger[r] \in {"dispatched", "unknown", "settled"}

\* The ledger is one book of charges changed a row at a time: no update is
\* lost, none is made twice, and a ledger that disappears is never begun anew.
ImplementsChargeBook == Book!Spec

\* Every call ends: no lock, of whom and in whatever state, holds it for ever.
CallsEnd == \A w \in Writers : at[w] # "out" ~> at[w] = "out"
=============================================================================
