------------------------- MODULE BudgetLedger_proofs -------------------------
(***************************************************************************)
(* Proofs about BudgetLedger, for any sets of requests and older writers,  *)
(* any reservations, limit and quotes, and any number of faults.           *)
(*                                                                         *)
(* The argument is one inductive invariant:                                *)
(*   TypeOK     the types;                                                 *)
(*   LockInv    whoever is inside the lock created the lock file, so one   *)
(*              writer is inside at a time;                                *)
(*   FreshInv   a writer whose proof of a new directory still stands is    *)
(*              the only one, and nothing has been accounted;              *)
(*   BookInv    the file, when there is one, is the book; what a writer is *)
(*              about to publish is a permitted change of the book;        *)
(*   ClientInv  what a request believes of its row is what the book says.  *)
(* The lock suffices: no step of the argument uses the SQLite transaction. *)
(* The limit needs that ChargeBook's fold is a sum (Additive), which holds *)
(* for finitely many writers.                                              *)
(***************************************************************************)
EXTENDS BudgetLedger, SequenceLaws, FiniteSetTheorems, TLAPS

Inside   == {"stamp", "load", "compare", "publish", "release", "abort"}
Changing == {"compare", "publish"}
Charged  == {"dispatched", "unknown", "settled"}

LockInv ==
  /\ \A w \in Writers \ alive : at[w] = "out"
  /\ \A w \in Writers : at[w] \in Inside => lock = w

\* The proof of a new directory, once its creator is known.
Fresh(w) == fresh[w] /\ at[w] # "create"

FreshInv ==
  /\ \A w \in Writers : at[w] \in {"out", "history"} \cup Changing => ~fresh[w]
  /\ ~guardFile => /\ book = Empty /\ ledger = None
                   /\ \A w \in Writers : at[w] \in {"out", "history", "create"}
  /\ \A w \in Writers : Fresh(w) =>
       /\ book = Empty /\ ledger = None
       /\ \A v \in Writers \ {w} : ~Fresh(v) /\ at[v] \notin Changing

BookInv ==
  /\ ledger # None => ledger = book
  /\ \A w \in Writers : at[w] \in Changing => Content(base[w]) = book /\ Permitted(book, w)

ClientInv ==
  /\ \A w \in Writers : at[w] # "out" => client[w] \in Operations
  /\ \A w \in Writers : at[w] = "release" /\ client[w] = "dispatch" => book[w] = "dispatched"
  /\ \A w \in Writers : client[w] \in {"dispatched", "sent"} => book[w] = "dispatched"
  /\ \A w \in Writers : client[w] = "sent" => w \in sent
  /\ \A r \in sent : book[r] \in Charged
  /\ \A l \in Legacy : /\ client[l] \in {"new", "charge", "done"}
                       /\ at[l] \notin {"history", "create", "begin"}

IInv == TypeOK /\ LockInv /\ FreshInv /\ BookInv /\ ClientInv

USE DEF Writers

-----------------------------------------------------------------------------
(* What the steps do, for the invariant.                                   *)

\* Only w's own transaction moves.
Alone(w) == \A v \in Writers \ {w} :
  at'[v] = at[v] /\ client'[v] = client[v] /\ base'[v] = base[v] /\ fresh'[v] = fresh[v]

\* Where a writer, and its request, may be.
Places  == {"out", "history", "create", "begin", "lock"} \cup Inside
Clients == Operations \cup {"new", "reserved", "dispatched", "sent", "done"}
\* Where a call has just begun, or is over.
Doors   == {"out", "history", "begin", "lock"}

\* A call starts at a door, each at the one its history allows.
LEMMA CallDoors ==
  ASSUME TypeOK, NEW w \in Writers, NEW o \in Clients, Call(w, o)
  PROVE  /\ at' \in [Writers -> Places] /\ client' \in [Writers -> Clients]
         /\ \A v \in Writers \ {w} : at'[v] = at[v] /\ client'[v] = client[v]
         /\ client'[w] = o /\ at'[w] \in Doors
         /\ at'[w] # "out" <=> o \in Operations
         /\ at'[w] = "history" => ~guardFile
         /\ at'[w] = "begin" => guardFile
         /\ at'[w] = "lock" => w \in Legacy
  BY DEF TypeOK, Call, Goto, Doors, Places, Inside, Clients

\* What a call that ends makes of its transaction and of its request.
Left(w) ==
  /\ Alone(w)
  /\ at' \in [Writers -> Places] /\ client' \in [Writers -> Clients]
  /\ base' \in [Writers -> Rows \cup {None}] /\ fresh' \in [Writers -> BOOLEAN]
  /\ guard' \in Requests \cup {None}
  /\ at'[w] \in Doors /\ ~fresh'[w]
  /\ at'[w] # "out" => client'[w] \in Operations
  /\ at'[w] = "history" => ~guardFile
  /\ at'[w] = "begin" => guardFile
  /\ at'[w] = "lock" => w \in Legacy
  /\ client'[w] # "sent"
  /\ w \in Legacy /\ client[w] \in {"new", "charge", "done"} => client'[w] = "done"

LEMMA LeaveLeft ==
  ASSUME TypeOK, NEW w \in Writers, NEW ok \in BOOLEAN, Leave(w, ok)
  PROVE  /\ Left(w)
         /\ client'[w] = "dispatched" => client[w] = "dispatch" /\ ok
<1> DEFINE o == CASE client[w] = "reserve"  /\ ok  -> "reserved"
                  [] client[w] = "dispatch" /\ ok  -> "dispatched"
                  [] client[w] = "dispatch" /\ ~ok -> "release"
                  [] client[w] = "settle"   /\ ~ok -> "unknown"
                  [] OTHER                         -> "done"
<1>1. /\ o \in {"reserved", "dispatched", "release", "unknown", "done"}
      /\ o = "dispatched" => client[w] = "dispatch" /\ ok
      /\ client[w] \in {"new", "charge", "done"} => o = "done"
  OBVIOUS
<1>2. o \in Clients
  BY <1>1 DEF Clients, Operations
<1>3. Call(w, o)
  BY DEF Leave, Returns
<1>4. /\ guard' \in Requests \cup {None}
      /\ base' \in [Writers -> Rows \cup {None}] /\ fresh' \in [Writers -> BOOLEAN]
      /\ ~fresh'[w]
      /\ \A v \in Writers \ {w} : base'[v] = base[v] /\ fresh'[v] = fresh[v]
  BY DEF Leave, TypeOK
<1> HIDE DEF o
<1>5. /\ at' \in [Writers -> Places] /\ client' \in [Writers -> Clients]
      /\ \A v \in Writers \ {w} : at'[v] = at[v] /\ client'[v] = client[v]
      /\ client'[w] = o /\ at'[w] \in Doors
      /\ at'[w] # "out" <=> o \in Operations
      /\ at'[w] = "history" => ~guardFile
      /\ at'[w] = "begin" => guardFile
      /\ at'[w] = "lock" => w \in Legacy
  BY <1>2, <1>3, CallDoors
<1> QED
  BY <1>1, <1>4, <1>5 DEF Left, Alone

-----------------------------------------------------------------------------
(* The types.                                                              *)

\* Steps within a call.
WriterStep(w) == Step(w) \/ MeetLock(w) \/ Throw(w) \/ Die(w)

LEMMA AppliedTyped ==
  ASSUME NEW b \in Rows, NEW w \in Writers, client[w] \in Operations
  PROVE  Applied(b, w) \in Rows
  BY DEF Applied, Rows, Operations, Book!States

LEMMA ContentTyped ==
  ASSUME NEW l \in Rows \cup {None}
  PROVE  Content(l) \in Rows
  BY DEF Content, Rows, Empty, Book!States

\* No step of a call breaks a type.
LEMMA TypeWriter ==
  ASSUME TypeOK, NEW w \in Writers, WriterStep(w),
         at[w] # "out" => client[w] \in Operations,
         at[w] = "begin" => w \notin Legacy
  PROVE  TypeOK'
<1>1. CASE ReadHistory(w)
  BY <1>1 DEF ReadHistory, At, Goto, Unlock, locks, tx, TypeOK
<1>2. CASE CreateGuard(w)
  BY <1>2 DEF CreateGuard, At, Goto, Unlock, locks, tx, TypeOK
<1>3. CASE TakeLock(w)
  BY <1>3 DEF TakeLock, At, Goto, Unlock, locks, tx, TypeOK
<1>4. CASE MeetLock(w)
  BY <1>4 DEF MeetLock, At, Goto, Unlock, locks, tx, TypeOK
<1>5. CASE TakeOver(w)
  BY <1>5 DEF TakeOver, At, Goto, Unlock, locks, tx, TypeOK
<1>6. CASE Stamp(w)
  BY <1>6 DEF Stamp, At, Goto, Unlock, locks, tx, TypeOK
<1>7. CASE Load(w)
  BY <1>7 DEF Load, At, Goto, Unlock, locks, tx, TypeOK
<1>8. CASE Compare(w)
  BY <1>8 DEF Compare, At, Goto, Unlock, locks, tx, TypeOK
<1>9. CASE BeginGuard(w)
  <2>1. CASE guard = None
    BY <1>9, <2>1, LedgerAssumption DEF BeginGuard, Leave, At, Goto, TypeOK
  <2>2. CASE Leave(w, FALSE)
    BY <1>9, <2>2, LeaveLeft DEF BeginGuard, Left, Places, Inside, Clients, TypeOK
  <2> QED
    BY <1>9, <2>1, <2>2 DEF BeginGuard
<1>10. CASE Refused(w)
  BY <1>10, LeaveLeft DEF Refused, Left, Places, Inside, Clients, TypeOK
<1>11. CASE Release(w)
  BY <1>11, LeaveLeft DEF Release, Unlock, Left, Places, Inside, Clients, TypeOK
<1>12. CASE Throw(w)
  <2>1. CASE Goto(w, "abort") /\ UNCHANGED <<guard, lock, stamped, base, fresh, client>>
    BY <1>12, <2>1, LedgerAssumption DEF Throw, Fault, Goto, TypeOK
  <2>2. CASE Leave(w, FALSE) /\ (Unlock \/ UNCHANGED <<lock, stamped>>)
    <3>1. Left(w)
      BY <2>2, LeaveLeft
    <3>2. faults' \in 0..MaxFaults
      BY <1>12, LedgerAssumption DEF Throw, Fault, TypeOK
    <3>3. lock' \in Writers \cup {None} /\ stamped' \in BOOLEAN
      BY <2>2 DEF Unlock, TypeOK
    <3> QED
      BY <1>12, <3>1, <3>2, <3>3 DEF Throw, Left, Places, Inside, Clients, TypeOK
  <2> QED
    BY <1>12, <2>1, <2>2 DEF Throw
<1>13. CASE Die(w)
  BY <1>13, LedgerAssumption DEF Die, Fault, Goto, TypeOK
<1>14. CASE Publish(w)
  <2>1. client[w] \in Operations /\ Content(base[w]) \in Rows
    BY <1>14, ContentTyped DEF Publish, At, TypeOK
  <2>2. ledger' \in Rows
    BY <1>14, <2>1, AppliedTyped DEF Publish
  <2> QED
    BY <1>14, <2>2 DEF Publish, At, Goto, locks, TypeOK
<1> QED
  BY <1>1, <1>2, <1>3, <1>4, <1>5, <1>6, <1>7, <1>8, <1>9, <1>10, <1>11, <1>12, <1>13, <1>14 DEF WriterStep, Step

\* Nor does a request between its calls, an older writer, or the loss of the file.
LEMMA TypeOther ==
  ASSUME TypeOK,
         (\E r \in Requests : Request(r)) \/ (\E l \in Legacy : LegacyCharge(l)) \/ Lose
  PROVE  TypeOK'
<1>1. ASSUME NEW w \in Writers, NEW o \in Operations, Calls(w, o), quote' \in [Writers -> Quotes \cup {0}]
      PROVE  TypeOK'
  BY <1>1, CallDoors DEF Calls, locks, Places, Inside, Clients, TypeOK
<1>2. ASSUME NEW r \in Requests, Request(r)
      PROVE  TypeOK'
  <2>1. CASE Send(r)
    BY <2>1 DEF Send, Resting, At, locks, TypeOK
  <2>2. CASE \E o \in Operations : Calls(r, o) /\ UNCHANGED quote
    BY <1>1, <2>2 DEF TypeOK
  <2>3. CASE Calls(r, "settle") /\ \E q \in Quotes : quote' = [quote EXCEPT ![r] = q]
    BY <1>1, <2>3 DEF Operations, TypeOK
  <2> QED
    BY <1>2, <2>1, <2>2, <2>3 DEF Request, Operations
<1>3. ASSUME NEW l \in Legacy, LegacyCharge(l)
      PROVE  TypeOK'
  BY <1>1, <1>3 DEF LegacyCharge, Operations, TypeOK
<1>4. CASE Lose
  BY <1>4, LedgerAssumption DEF Lose, Fault, locks, tx, TypeOK
<1> QED
  BY <1>2, <1>3, <1>4

-----------------------------------------------------------------------------
(* The steps that publish nothing, one fact per part of the invariant.     *)

Quiet(w) ==
  \/ ReadHistory(w)
  \/ CreateGuard(w)
  \/ BeginGuard(w)
  \/ TakeLock(w)
  \/ MeetLock(w)
  \/ TakeOver(w)
  \/ Refused(w)
  \/ Stamp(w)
  \/ Load(w)
  \/ Compare(w)
  \/ Release(w)
  \/ Throw(w)

\* w takes the lock only when it is free, and frees only its own or a dead one.
LockMoved(w) ==
  /\ w \in alive /\ alive' = alive
  /\ at'[w] \in Inside => lock' = w
  /\ lock' # lock => lock \in {None, w} \/ lock \notin alive

\* Only the creator of the coordination file keeps its proof, and only a load
\* that found a ledger, or was the proof's, leads to a change.
FreshMoved(w) ==
  /\ UNCHANGED <<ledger, book>>
  /\ guardFile => guardFile'
  /\ at'[w] \in {"out", "history"} \cup Changing => ~fresh'[w]
  /\ ~guardFile' => at'[w] \in {"out", "history", "create"}
  /\ fresh'[w] /\ at'[w] # "create" => Fresh(w) \/ ~guardFile
  /\ at'[w] \in Changing => at[w] \in Changing \/ (at[w] = "load" /\ (ledger # None \/ fresh[w]))

\* What w is about to publish is a change of the book.
BookMoved(w) ==
  at'[w] \in Changing => Content(base'[w]) = book /\ client'[w] = client[w] /\ Permitted(book, w)

\* The request learns of its row what the book says.
ClientMoved(w) ==
  /\ sent' = sent
  /\ at'[w] # "out" => client'[w] \in Operations
  /\ at'[w] # "release"
  /\ client'[w] \in {"dispatched", "sent"} => client[w] = client'[w] \/ book[w] = "dispatched"
  /\ client'[w] = "sent" => client[w] = "sent"
  /\ w \in Legacy => /\ client'[w] \in {"new", "charge", "done"}
                     /\ at'[w] \notin {"history", "create", "begin"}

LEMMA QuietAlone ==
  ASSUME TypeOK, NEW w \in Writers, Quiet(w)
  PROVE  Alone(w)
<1>1. CASE ReadHistory(w)
  BY <1>1 DEF ReadHistory, At, Goto, Unlock, locks, tx, Alone, TypeOK
<1>2. CASE CreateGuard(w)
  BY <1>2 DEF CreateGuard, At, Goto, Unlock, locks, tx, Alone, TypeOK
<1>3. CASE BeginGuard(w)
  BY <1>3, LeaveLeft DEF BeginGuard, At, Goto, Unlock, locks, tx, Left, Alone, TypeOK
<1>4. CASE TakeLock(w)
  BY <1>4 DEF TakeLock, At, Goto, Unlock, locks, tx, Alone, TypeOK
<1>5. CASE MeetLock(w)
  BY <1>5 DEF MeetLock, At, Goto, Unlock, locks, tx, Alone, TypeOK
<1>6. CASE TakeOver(w)
  BY <1>6 DEF TakeOver, At, Goto, Unlock, locks, tx, Alone, TypeOK
<1>7. CASE Refused(w)
  BY <1>7, LeaveLeft DEF Refused, At, Goto, Unlock, locks, tx, Left, Alone, TypeOK
<1>8. CASE Stamp(w)
  BY <1>8 DEF Stamp, At, Goto, Unlock, locks, tx, Alone, TypeOK
<1>9. CASE Load(w)
  BY <1>9 DEF Load, At, Goto, Unlock, locks, tx, Alone, TypeOK
<1>10. CASE Compare(w)
  BY <1>10 DEF Compare, At, Goto, Unlock, locks, tx, Alone, TypeOK
<1>11. CASE Release(w)
  BY <1>11, LeaveLeft DEF Release, At, Goto, Unlock, locks, tx, Left, Alone, TypeOK
<1>12. CASE Throw(w)
  <2>1. CASE Goto(w, "abort") /\ UNCHANGED <<guard, lock, stamped, base, fresh, client>>
    BY <1>12, <2>1 DEF Goto, Alone, TypeOK
  <2>2. CASE Leave(w, FALSE)
    BY <2>2, LeaveLeft DEF Left
  <2> QED
    BY <1>12, <2>1, <2>2 DEF Throw
<1> QED
  BY <1>1, <1>2, <1>3, <1>4, <1>5, <1>6, <1>7, <1>8, <1>9, <1>10, <1>11, <1>12 DEF Quiet

LEMMA QuietLock ==
  ASSUME TypeOK, LockInv, NEW w \in Writers, Quiet(w)
  PROVE  LockMoved(w)
<1>1. CASE ReadHistory(w)
  BY <1>1 DEF ReadHistory, At, Goto, Unlock, locks, tx, LockMoved, LockInv, Inside, Doors, TypeOK
<1>2. CASE CreateGuard(w)
  BY <1>2 DEF CreateGuard, At, Goto, Unlock, locks, tx, LockMoved, LockInv, Inside, Doors, TypeOK
<1>3. CASE BeginGuard(w)
  BY <1>3, LeaveLeft DEF BeginGuard, At, Goto, Unlock, locks, tx, Left, LockMoved, LockInv, Inside, Doors, TypeOK
<1>4. CASE TakeLock(w)
  BY <1>4 DEF TakeLock, At, Goto, Unlock, locks, tx, LockMoved, LockInv, Inside, Doors, TypeOK
<1>5. CASE MeetLock(w)
  BY <1>5 DEF MeetLock, At, Goto, Unlock, locks, tx, LockMoved, LockInv, Inside, Doors, TypeOK
<1>6. CASE TakeOver(w)
  BY <1>6 DEF TakeOver, At, Goto, Unlock, locks, tx, LockMoved, LockInv, Inside, Doors, TypeOK
<1>7. CASE Refused(w)
  BY <1>7, LeaveLeft DEF Refused, At, Goto, Unlock, locks, tx, Left, LockMoved, LockInv, Inside, Doors, TypeOK
<1>8. CASE Stamp(w)
  BY <1>8 DEF Stamp, At, Goto, Unlock, locks, tx, LockMoved, LockInv, Inside, Doors, TypeOK
<1>9. CASE Load(w)
  BY <1>9 DEF Load, At, Goto, Unlock, locks, tx, LockMoved, LockInv, Inside, Doors, TypeOK
<1>10. CASE Compare(w)
  BY <1>10 DEF Compare, At, Goto, Unlock, locks, tx, LockMoved, LockInv, Inside, Doors, TypeOK
<1>11. CASE Release(w)
  BY <1>11, LeaveLeft DEF Release, At, Goto, Unlock, locks, tx, Left, LockMoved, LockInv, Inside, Doors, TypeOK
<1>12. CASE Throw(w)
  BY <1>12, LeaveLeft DEF Throw, At, Goto, Unlock, locks, tx, Left, LockMoved, LockInv, Inside, Doors, TypeOK
<1> QED
  BY <1>1, <1>2, <1>3, <1>4, <1>5, <1>6, <1>7, <1>8, <1>9, <1>10, <1>11, <1>12 DEF Quiet

LEMMA QuietFresh ==
  ASSUME TypeOK, FreshInv, ClientInv, NEW w \in Writers, Quiet(w)
  PROVE  FreshMoved(w)
<1>1. CASE ReadHistory(w)
  BY <1>1 DEF ReadHistory, At, Goto, Unlock, locks, tx, FreshMoved, FreshInv, ClientInv, Fresh, Changing, Doors, TypeOK
<1>2. CASE CreateGuard(w)
  BY <1>2 DEF CreateGuard, At, Goto, Unlock, locks, tx, FreshMoved, FreshInv, ClientInv, Fresh, Changing, Doors, TypeOK
<1>3. CASE BeginGuard(w)
  BY <1>3, LeaveLeft, ZenonT(40) DEF BeginGuard, At, Goto, Unlock, locks, tx, Left, FreshMoved, FreshInv, ClientInv, Fresh, Changing, Doors, TypeOK
<1>4. CASE TakeLock(w)
  BY <1>4 DEF TakeLock, At, Goto, Unlock, locks, tx, FreshMoved, FreshInv, ClientInv, Fresh, Changing, Doors, TypeOK
<1>5. CASE MeetLock(w)
  BY <1>5 DEF MeetLock, At, Goto, Unlock, locks, tx, FreshMoved, FreshInv, ClientInv, Fresh, Changing, Doors, TypeOK
<1>6. CASE TakeOver(w)
  BY <1>6 DEF TakeOver, At, Goto, Unlock, locks, tx, FreshMoved, FreshInv, ClientInv, Fresh, Changing, Doors, TypeOK
<1>7. CASE Refused(w)
  BY <1>7, LeaveLeft DEF Refused, At, Goto, Unlock, locks, tx, Left, FreshMoved, FreshInv, ClientInv, Fresh, Changing, Doors, TypeOK
<1>8. CASE Stamp(w)
  BY <1>8 DEF Stamp, At, Goto, Unlock, locks, tx, FreshMoved, FreshInv, ClientInv, Fresh, Changing, Doors, TypeOK
<1>9. CASE Load(w)
  <2>1. guardFile /\ guardFile'
    BY <1>9 DEF Load, At, locks, FreshInv
  <2>2. /\ ~fresh'[w] /\ at[w] = "load" /\ at'[w] \in {"compare", "abort"}
        /\ UNCHANGED <<ledger, book>>
    BY <1>9 DEF Load, At, Goto, TypeOK
  <2>3. at'[w] \in Changing => ledger # None \/ fresh[w]
    BY <1>9 DEF Load, At, Goto, Changing, TypeOK
  <2>4. at'[w] \notin {"out", "history", "create"}
    BY <2>2
  <2> QED
    BY <2>1, <2>2, <2>3, <2>4 DEF FreshMoved
<1>10. CASE Compare(w)
  BY <1>10 DEF Compare, At, Goto, Unlock, locks, tx, FreshMoved, FreshInv, ClientInv, Fresh, Changing, Doors, TypeOK
<1>11. CASE Release(w)
  BY <1>11, LeaveLeft DEF Release, At, Goto, Unlock, locks, tx, Left, FreshMoved, FreshInv, ClientInv, Fresh, Changing, Doors, TypeOK
<1>12. CASE Throw(w)
  BY <1>12, LeaveLeft, ZenonT(40) DEF Throw, At, Goto, Unlock, locks, tx, Left, FreshMoved, FreshInv, ClientInv, Fresh, Changing, Doors, TypeOK
<1> QED
  BY <1>1, <1>2, <1>3, <1>4, <1>5, <1>6, <1>7, <1>8, <1>9, <1>10, <1>11, <1>12 DEF Quiet

LEMMA QuietBook ==
  ASSUME TypeOK, FreshInv, BookInv, NEW w \in Writers, Quiet(w)
  PROVE  BookMoved(w)
<1>1. CASE ReadHistory(w)
  BY <1>1 DEF ReadHistory, At, Goto, Unlock, locks, tx, BookMoved, BookInv, FreshInv, Fresh, Changing, Content, Doors, TypeOK
<1>2. CASE CreateGuard(w)
  BY <1>2 DEF CreateGuard, At, Goto, Unlock, locks, tx, BookMoved, BookInv, FreshInv, Fresh, Changing, Content, Doors, TypeOK
<1>3. CASE BeginGuard(w)
  BY <1>3, LeaveLeft DEF BeginGuard, At, Goto, Unlock, locks, tx, Left, BookMoved, BookInv, FreshInv, Fresh, Changing, Content, Doors, TypeOK
<1>4. CASE TakeLock(w)
  BY <1>4 DEF TakeLock, At, Goto, Unlock, locks, tx, BookMoved, BookInv, FreshInv, Fresh, Changing, Content, Doors, TypeOK
<1>5. CASE MeetLock(w)
  BY <1>5 DEF MeetLock, At, Goto, Unlock, locks, tx, BookMoved, BookInv, FreshInv, Fresh, Changing, Content, Doors, TypeOK
<1>6. CASE TakeOver(w)
  BY <1>6 DEF TakeOver, At, Goto, Unlock, locks, tx, BookMoved, BookInv, FreshInv, Fresh, Changing, Content, Doors, TypeOK
<1>7. CASE Refused(w)
  BY <1>7, LeaveLeft DEF Refused, At, Goto, Unlock, locks, tx, Left, BookMoved, BookInv, FreshInv, Fresh, Changing, Content, Doors, TypeOK
<1>8. CASE Stamp(w)
  BY <1>8 DEF Stamp, At, Goto, Unlock, locks, tx, BookMoved, BookInv, FreshInv, Fresh, Changing, Content, Doors, TypeOK
<1>9. CASE Load(w)
  BY <1>9 DEF Load, At, Goto, Unlock, locks, tx, BookMoved, BookInv, FreshInv, Fresh, Changing, Content, Doors, TypeOK
<1>10. CASE Compare(w)
  BY <1>10 DEF Compare, At, Goto, Unlock, locks, tx, BookMoved, BookInv, FreshInv, Fresh, Changing, Content, Doors, TypeOK
<1>11. CASE Release(w)
  BY <1>11, LeaveLeft DEF Release, At, Goto, Unlock, locks, tx, Left, BookMoved, BookInv, FreshInv, Fresh, Changing, Content, Doors, TypeOK
<1>12. CASE Throw(w)
  BY <1>12, LeaveLeft DEF Throw, At, Goto, Unlock, locks, tx, Left, BookMoved, BookInv, FreshInv, Fresh, Changing, Content, Doors, TypeOK
<1> QED
  BY <1>1, <1>2, <1>3, <1>4, <1>5, <1>6, <1>7, <1>8, <1>9, <1>10, <1>11, <1>12 DEF Quiet

LEMMA QuietClient ==
  ASSUME TypeOK, ClientInv, NEW w \in Writers, Quiet(w)
  PROVE  ClientMoved(w)
<1>1. CASE ReadHistory(w)
  BY <1>1 DEF ReadHistory, At, Goto, Unlock, locks, tx, ClientMoved, ClientInv, Doors, Operations, TypeOK
<1>2. CASE CreateGuard(w)
  BY <1>2 DEF CreateGuard, At, Goto, Unlock, locks, tx, ClientMoved, ClientInv, Doors, Operations, TypeOK
<1>3. CASE BeginGuard(w)
  BY <1>3, LeaveLeft, ZenonT(40) DEF BeginGuard, At, Goto, Unlock, locks, tx, Left, ClientMoved, ClientInv, Doors, Operations, TypeOK
<1>4. CASE TakeLock(w)
  BY <1>4 DEF TakeLock, At, Goto, Unlock, locks, tx, ClientMoved, ClientInv, Doors, Operations, TypeOK
<1>5. CASE MeetLock(w)
  BY <1>5 DEF MeetLock, At, Goto, Unlock, locks, tx, ClientMoved, ClientInv, Doors, Operations, TypeOK
<1>6. CASE TakeOver(w)
  BY <1>6 DEF TakeOver, At, Goto, Unlock, locks, tx, ClientMoved, ClientInv, Doors, Operations, TypeOK
<1>7. CASE Refused(w)
  BY <1>7, LeaveLeft DEF Refused, At, Goto, Unlock, locks, tx, Left, ClientMoved, ClientInv, Doors, Operations, TypeOK
<1>8. CASE Stamp(w)
  BY <1>8 DEF Stamp, At, Goto, Unlock, locks, tx, ClientMoved, ClientInv, Doors, Operations, TypeOK
<1>9. CASE Load(w)
  BY <1>9 DEF Load, At, Goto, Unlock, locks, tx, ClientMoved, ClientInv, Doors, Operations, TypeOK
<1>10. CASE Compare(w)
  BY <1>10 DEF Compare, At, Goto, Unlock, locks, tx, ClientMoved, ClientInv, Doors, Operations, TypeOK
<1>11. CASE Release(w)
  BY <1>11, LeaveLeft DEF Release, At, Goto, Unlock, locks, tx, Left, ClientMoved, ClientInv, Doors, Operations, TypeOK
<1>12. CASE Throw(w)
  BY <1>12, LeaveLeft, ZenonT(40) DEF Throw, At, Goto, Unlock, locks, tx, Left, ClientMoved, ClientInv, Doors, Operations, TypeOK
<1> QED
  BY <1>1, <1>2, <1>3, <1>4, <1>5, <1>6, <1>7, <1>8, <1>9, <1>10, <1>11, <1>12 DEF Quiet

\* A permission stands while the book, the accounts and the writer's call do.
LEMMA PermittedSame ==
  ASSUME NEW v \in Writers, Permitted(book, v), book' = book, client'[v] = client[v],
         \/ quote' = quote
         \/ quote'[v] = quote[v] /\ Book!Accounted(book, quote)' = Book!Accounted(book, quote)
  PROVE  Permitted(book, v)'
<1>1. quote'[v] = quote[v] /\ Book!Accounted(book, quote)' = Book!Accounted(book, quote)
  <2>1. CASE quote' = quote
    BY <2>1
  <2> QED
    BY <2>1
<1> QED
  BY <1>1 DEF Permitted

LEMMA QuietInv ==
  ASSUME IInv, NEW w \in Writers, Quiet(w)
  PROVE  LockInv' /\ FreshInv' /\ BookInv' /\ ClientInv'
<1>1. TypeOK /\ LockInv /\ FreshInv /\ BookInv /\ ClientInv
  BY DEF IInv
<1>2. Alone(w) /\ LockMoved(w) /\ FreshMoved(w) /\ BookMoved(w) /\ ClientMoved(w)
  BY <1>1, QuietAlone, QuietLock, QuietFresh, QuietBook, QuietClient
<1>3. UNCHANGED <<ledger, book, quote, sent>>
  BY DEF Quiet, ReadHistory, CreateGuard, BeginGuard, TakeLock, MeetLock, TakeOver, Refused,
         Stamp, Load, Compare, Release, Throw
<1> HIDE DEF IInv
<1>4. LockInv'
  <2>1. ASSUME NEW v \in Writers, at'[v] \in Inside
        PROVE  lock' = v
    <3>1. CASE v = w
      BY <1>2, <2>1, <3>1 DEF LockMoved
    <3>2. CASE v # w
      <4>1. at[v] \in Inside
        BY <1>2, <2>1, <3>2 DEF Alone
      <4>2. lock = v /\ v \in alive
        BY <1>1, <4>1 DEF LockInv, Inside
      <4> QED
        BY <1>2, <3>2, <4>2, LedgerAssumption DEF LockMoved
    <3> QED
      BY <3>1, <3>2
  <2>2. ASSUME NEW v \in Writers \ alive'
        PROVE  at'[v] = "out"
    BY <1>1, <1>2, <2>2 DEF LockInv, LockMoved, Alone
  <2> QED
    BY <2>1, <2>2 DEF LockInv
<1>5. FreshInv'
  <2>1. ASSUME NEW v \in Writers, at'[v] \in {"out", "history"} \cup Changing
        PROVE  ~fresh'[v]
    <3>1. CASE v = w
      BY <1>2, <2>1, <3>1 DEF FreshMoved
    <3>2. CASE v # w
      BY <1>1, <1>2, <2>1, <3>2 DEF FreshInv, Alone
    <3> QED
      BY <3>1, <3>2
  <2>2. ASSUME ~guardFile'
        PROVE  /\ book' = Empty /\ ledger' = None
               /\ \A v \in Writers : at'[v] \in {"out", "history", "create"}
    <3>1. ~guardFile
      BY <1>2, <2>2 DEF FreshMoved
    <3>2. ASSUME NEW v \in Writers
          PROVE  at'[v] \in {"out", "history", "create"}
      <4>1. CASE v = w
        BY <1>2, <2>2, <4>1 DEF FreshMoved
      <4>2. CASE v # w
        BY <1>1, <1>2, <3>1, <4>2 DEF FreshInv, Alone
      <4> QED
        BY <4>1, <4>2
    <3> QED
      BY <1>1, <1>3, <3>1, <3>2 DEF FreshInv
  <2>3. ASSUME NEW u \in Writers, fresh'[u], at'[u] # "create"
        PROVE  /\ book' = Empty /\ ledger' = None
               /\ \A v \in Writers \ {u} : ~(fresh'[v] /\ at'[v] # "create") /\ at'[v] \notin Changing
    <3>1. CASE ~guardFile
      <4>1. ASSUME NEW v \in Writers, at[v] \in {"out", "history", "create"}, v # w
            PROVE  ~(fresh'[v] /\ at'[v] # "create") /\ at'[v] \notin Changing
        <5>1. at'[v] = at[v] /\ fresh'[v] = fresh[v]
          BY <1>2, <4>1 DEF Alone
        <5>2. at'[v] # "create" => ~fresh[v]
          BY <1>1, <4>1, <5>1 DEF FreshInv
        <5> QED
          BY <4>1, <5>1, <5>2 DEF Changing
      <4>2. \A v \in Writers : at[v] \in {"out", "history", "create"}
        BY <1>1, <3>1 DEF FreshInv
      <4>3. u = w
        BY <2>3, <4>1, <4>2
      <4> QED
        BY <1>1, <1>3, <3>1, <4>1, <4>2, <4>3 DEF FreshInv
    <3>2. CASE guardFile
      <4>1. Fresh(u)
        <5>1. CASE u = w
          BY <1>2, <2>3, <3>2, <5>1 DEF FreshMoved
        <5>2. CASE u # w
          BY <1>2, <2>3, <5>2 DEF Alone, Fresh
        <5> QED
          BY <5>1, <5>2
      <4>2. /\ book = Empty /\ ledger = None
            /\ \A v \in Writers \ {u} : ~Fresh(v) /\ at[v] \notin Changing
        BY <1>1, <4>1 DEF FreshInv
      <4>3. ASSUME NEW v \in Writers \ {u}
            PROVE  ~(fresh'[v] /\ at'[v] # "create") /\ at'[v] \notin Changing
        <5>1. ~Fresh(v) /\ at[v] \notin Changing
          BY <4>2
        <5>2. CASE v = w
          <6>1. ~(fresh'[v] /\ at'[v] # "create")
            BY <1>2, <3>2, <5>1, <5>2 DEF FreshMoved
          <6>2. at'[v] \notin Changing
            <7>1. SUFFICES ASSUME at'[v] \in Changing PROVE FALSE
              OBVIOUS
            <7>2. at[v] = "load" /\ fresh[v]
              BY <1>2, <4>2, <5>1, <5>2, <7>1 DEF FreshMoved
            <7> QED
              BY <5>1, <7>2 DEF Fresh
          <6> QED
            BY <6>1, <6>2
        <5>3. CASE v # w
          BY <1>2, <5>1, <5>3 DEF Alone, Fresh
        <5> QED
          BY <5>2, <5>3
      <4> QED
        BY <1>3, <4>2, <4>3
    <3> QED
      BY <3>1, <3>2
  <2> QED
    BY <2>1, <2>2, <2>3 DEF FreshInv, Fresh
<1>6. BookInv'
  <2>1. ASSUME NEW v \in Writers, at'[v] \in Changing
        PROVE  Content(base'[v]) = book /\ client'[v] = client[v] /\ Permitted(book, v)
    <3>1. CASE v = w
      BY <1>2, <2>1, <3>1 DEF BookMoved
    <3>2. CASE v # w
      BY <1>1, <1>2, <2>1, <3>2 DEF BookInv, Alone
    <3> QED
      BY <3>1, <3>2
  <2>2. ASSUME NEW v \in Writers, at'[v] \in Changing
        PROVE  Content(base[v])' = book' /\ Permitted(book, v)'
    <3>1. Content(base'[v]) = book /\ client'[v] = client[v] /\ Permitted(book, v)
      BY <2>1, <2>2
    <3>2. Permitted(book, v)'
      BY <1>3, <3>1, PermittedSame
    <3> QED
      BY <1>3, <3>1, <3>2 DEF Content, Empty
  <2> QED
    BY <1>1, <1>3, <2>2 DEF BookInv
<1>7. ClientInv'
  <2>1. ASSUME NEW v \in Writers
        PROVE  /\ at'[v] # "out" => client'[v] \in Operations
               /\ at'[v] = "release" /\ client'[v] = "dispatch" => book[v] = "dispatched"
               /\ client'[v] \in {"dispatched", "sent"} => book[v] = "dispatched"
               /\ client'[v] = "sent" => v \in sent
               /\ v \in Legacy => /\ client'[v] \in {"new", "charge", "done"}
                                  /\ at'[v] \notin {"history", "create", "begin"}
    <3>1. CASE v = w
      BY <1>1, <1>2, <3>1 DEF ClientMoved, ClientInv
    <3>2. CASE v # w
      BY <1>1, <1>2, <3>2 DEF ClientInv, Alone
    <3> QED
      BY <3>1, <3>2
  <2> QED
    BY <1>1, <1>3, <2>1 DEF ClientInv
<1> QED
  BY <1>4, <1>5, <1>6, <1>7

-----------------------------------------------------------------------------
(* The steps that touch the ledger, the requests, and the faults.          *)

\* A published change moves one row along the life of a charge.
LEMMA AppliedRow ==
  ASSUME TypeOK, NEW w \in Writers, client[w] \in Operations, Permitted(book, w)
  PROVE  /\ \A v \in Writers \ {w} : Applied(book, w)[v] = book[v]
         /\ book[w] \in Charged => Applied(book, w)[w] \in Charged
         /\ client[w] = "dispatch" => Applied(book, w)[w] = "dispatched"
<1>1. \A v \in Writers \ {w} : Applied(book, w)[v] = book[v]
  BY DEF Applied, TypeOK, Rows
<1>2. client[w] = "dispatch" => Applied(book, w)[w] = "dispatched"
  BY DEF Applied, TypeOK, Rows
<1>3. ASSUME book[w] \in Charged
      PROVE  Applied(book, w)[w] \in Charged
  <2>1. CASE client[w] \in {"reserve", "charge", "dispatch", "release"}
    BY <1>3, <2>1 DEF Permitted, Charged
  <2>2. CASE client[w] = "settle"
    BY <2>2 DEF Applied, TypeOK, Rows, Charged
  <2>3. CASE client[w] = "unknown"
    BY <1>3, <2>3 DEF Applied, TypeOK, Rows, Charged
  <2> QED
    BY <2>1, <2>2, <2>3 DEF Operations
<1> QED
  BY <1>1, <1>2, <1>3

LEMMA PublishInv ==
  ASSUME IInv, NEW w \in Writers, Publish(w)
  PROVE  LockInv' /\ FreshInv' /\ BookInv' /\ ClientInv'
<1>1. TypeOK /\ LockInv /\ FreshInv /\ BookInv /\ ClientInv
  BY DEF IInv
<1>2. /\ at[w] = "publish" /\ w \in alive
      /\ at'[w] = "release" /\ \A v \in Writers \ {w} : at'[v] = at[v]
      /\ UNCHANGED <<guardFile, guard, lock, base, fresh, client, quote, alive, sent>>
  BY <1>1 DEF Publish, At, Goto, locks, TypeOK
<1>3. /\ Content(base[w]) = book /\ Permitted(book, w) /\ client[w] \in Operations
      /\ ledger' = Applied(book, w) /\ book' = Applied(book, w)
  BY <1>1, <1>2 DEF Publish, BookInv, ClientInv, Changing
<1>4. \A v \in Writers \ {w} : at[v] \notin Inside
  BY <1>1, <1>2 DEF LockInv, Inside
<1>5. /\ \A v \in Writers \ {w} : book'[v] = book[v]
      /\ book[w] \in Charged => book'[w] \in Charged
      /\ client[w] = "dispatch" => book'[w] = "dispatched"
  BY <1>1, <1>3, AppliedRow
<1>6. guardFile /\ \A v \in Writers : ~Fresh(v)
  <2>1. guardFile
    BY <1>1, <1>2 DEF FreshInv
  <2>2. ~fresh[w] /\ at[w] \in Changing
    BY <1>1, <1>2 DEF FreshInv, Changing
  <2>3. ASSUME NEW v \in Writers \ {w}, Fresh(v)
        PROVE  FALSE
    BY <1>1, <2>2, <2>3 DEF FreshInv
  <2>4. ~Fresh(w)
    BY <2>2 DEF Fresh
  <2> QED
    BY <2>1, <2>3, <2>4
<1> HIDE DEF IInv
<1>7. LockInv'
  BY <1>1, <1>2 DEF LockInv, Inside
<1>8. FreshInv'
  <2>1. guardFile' /\ \A v \in Writers : ~(fresh'[v] /\ at'[v] # "create")
    <3>1. ASSUME NEW v \in Writers, fresh[v], at'[v] # "create"
          PROVE  FALSE
      <4>1. at[v] # "create"
        BY <1>2, <3>1
      <4> QED
        BY <1>6, <3>1, <4>1 DEF Fresh
    <3> QED
      BY <1>2, <1>6, <3>1
  <2>2. \A v \in Writers : at'[v] \in {"out", "history"} \cup Changing => ~fresh'[v]
    BY <1>1, <1>2 DEF FreshInv, Changing
  <2> QED
    BY <2>1, <2>2 DEF FreshInv, Fresh
<1>9. BookInv'
  <2>1. \A v \in Writers : at'[v] \notin Changing
    BY <1>2, <1>4 DEF Changing, Inside
  <2> QED
    BY <1>3, <2>1 DEF BookInv
<1>10. ClientInv'
  <2>1. ASSUME NEW v \in Writers
        PROVE  /\ at'[v] # "out" => client'[v] \in Operations
               /\ at'[v] = "release" /\ client'[v] = "dispatch" => book'[v] = "dispatched"
               /\ client'[v] \in {"dispatched", "sent"} => book'[v] = "dispatched"
               /\ client'[v] = "sent" => v \in sent
               /\ v \in Legacy => /\ client'[v] \in {"new", "charge", "done"}
                                  /\ at'[v] \notin {"history", "create", "begin"}
    <3>1. CASE v = w
      BY <1>1, <1>2, <1>3, <1>5, <3>1 DEF ClientInv, Operations
    <3>2. CASE v # w
      BY <1>1, <1>2, <1>5, <3>2 DEF ClientInv
    <3> QED
      BY <3>1, <3>2
  <2>2. \A r \in sent : book'[r] \in Charged
    BY <1>1, <1>5 DEF ClientInv, TypeOK
  <2> QED
    BY <1>2, <2>1, <2>2 DEF ClientInv
<1> QED
  BY <1>7, <1>8, <1>9, <1>10

LEMMA FaultInv ==
  ASSUME IInv, Lose \/ \E w \in Writers : Die(w)
  PROVE  LockInv' /\ FreshInv' /\ BookInv' /\ ClientInv'
<1>1. TypeOK /\ LockInv /\ FreshInv /\ BookInv /\ ClientInv
  BY DEF IInv
<1> HIDE DEF IInv
<1>2. ASSUME NEW w \in Writers, Die(w)
      PROVE  LockInv' /\ FreshInv' /\ BookInv' /\ ClientInv'
  <2>1. /\ alive' = alive \ {w} /\ at'[w] = "out" /\ client'[w] = "done" /\ ~fresh'[w]
        /\ UNCHANGED <<guardFile, lock, ledger, quote, sent, book>>
        /\ Alone(w)
    BY <1>1, <1>2 DEF Die, Goto, Alone, TypeOK
  <2>2. LockInv'
    BY <1>1, <2>1 DEF LockInv, Alone, Inside
  <2>3. FreshInv'
    <3>1. ASSUME NEW v \in Writers, fresh'[v]
          PROVE  v # w /\ fresh[v] /\ at'[v] = at[v]
      BY <2>1, <3>1 DEF Alone
    <3>2. ASSUME NEW v \in Writers, NEW S, at'[v] \in S, "out" \notin S
          PROVE  at[v] \in S
      BY <2>1, <3>2 DEF Alone
    <3>3. \A v \in Writers : at'[v] \in {"out", "history"} \cup Changing => ~fresh'[v]
      BY <1>1, <3>1 DEF FreshInv
    <3>4. ~guardFile => \A v \in Writers : at'[v] \in {"out", "history", "create"}
      BY <1>1, <2>1 DEF FreshInv, Alone
    <3>5. ASSUME NEW u \in Writers, fresh'[u], at'[u] # "create"
          PROVE  /\ book = Empty /\ ledger = None
                 /\ \A v \in Writers \ {u} : ~(fresh'[v] /\ at'[v] # "create") /\ at'[v] \notin Changing
      <4>1. Fresh(u)
        BY <3>1, <3>5 DEF Fresh
      <4>2. /\ book = Empty /\ ledger = None
            /\ \A v \in Writers \ {u} : ~Fresh(v) /\ at[v] \notin Changing
        BY <1>1, <4>1 DEF FreshInv
      <4> QED
        BY <3>1, <3>2, <4>2 DEF Fresh, Changing
    <3> QED
      BY <1>1, <2>1, <3>3, <3>4, <3>5 DEF FreshInv, Fresh, Empty
  <2>4. BookInv'
    <3>1. ASSUME NEW v \in Writers, at'[v] \in Changing
          PROVE  /\ Content(base[v]) = book /\ Permitted(book, v)
                 /\ base'[v] = base[v] /\ client'[v] = client[v]
      BY <1>1, <2>1, <3>1 DEF BookInv, Alone, Changing
    <3>2. ASSUME NEW v \in Writers, at'[v] \in Changing
          PROVE  Content(base[v])' = book' /\ Permitted(book, v)'
      BY <2>1, <3>1, <3>2, PermittedSame DEF Content, Empty
    <3> QED
      BY <1>1, <2>1, <3>2 DEF BookInv
  <2>5. ClientInv'
    BY <1>1, <2>1 DEF ClientInv, Alone
  <2> QED
    BY <2>2, <2>3, <2>4, <2>5
<1>3. ASSUME Lose
      PROVE  LockInv' /\ FreshInv' /\ BookInv' /\ ClientInv'
  <2>1. /\ ledger' = None
        /\ UNCHANGED <<guardFile, lock, at, base, fresh, client, quote, alive, sent, book>>
    BY <1>3 DEF Lose, locks, tx
  <2>2. LockInv' /\ ClientInv'
    BY <1>1, <2>1 DEF LockInv, ClientInv
  <2>3. FreshInv'
    BY <1>1, <2>1 DEF FreshInv, Fresh, Empty
  <2>4. BookInv'
    <3>1. ASSUME NEW v \in Writers, at[v] \in Changing
          PROVE  Content(base[v])' = book' /\ Permitted(book, v)'
      BY <1>1, <2>1, <3>1, PermittedSame DEF BookInv, Content, Empty
    <3> QED
      BY <2>1, <3>1 DEF BookInv
  <2> QED
    BY <2>2, <2>3, <2>4
<1> QED
  BY <1>2, <1>3

\* A usage is counted only once its row is settled.
LEMMA QuoteUncounted ==
  ASSUME TypeOK, NEW r \in Requests, book[r] = "dispatched",
         \A v \in Writers \ {r} : quote'[v] = quote[v]
  PROVE  Book!Accounted(book, quote') = Book!Accounted(book, quote)
<1>1. ASSUME NEW v \in Writers
      PROVE  Book!Charge(book, quote', v) = Book!Charge(book, quote, v)
  <2>1. CASE v = r
    BY <2>1 DEF Book!Charge, Book!Held
  <2>2. CASE v # r
    BY <2>2 DEF Book!Charge
  <2> QED
    BY <2>1, <2>2
<1>2. [v \in Writers |-> Book!Charge(book, quote', v)] = [v \in Writers |-> Book!Charge(book, quote, v)]
  BY <1>1
<1> QED
  BY <1>2 DEF Book!Accounted

\* A call that starts, with the usage it may bring.
LEMMA CallsInv ==
  ASSUME IInv, NEW w \in Writers, NEW o \in Operations, w \in alive, at[w] = "out",
         w \in Legacy => o = "charge" /\ ledger # None,
         Calls(w, o),
         \/ quote' = quote
         \/ client[w] = "sent" /\ \A v \in Writers \ {w} : quote'[v] = quote[v]
  PROVE  LockInv' /\ FreshInv' /\ BookInv' /\ ClientInv'
<1>1. TypeOK /\ LockInv /\ FreshInv /\ BookInv /\ ClientInv
  BY DEF IInv
<1> HIDE DEF IInv
<1>2. /\ UNCHANGED <<guardFile, lock, ledger, base, fresh, alive, sent, book>>
      /\ Call(w, o)
  BY DEF Calls, locks
<1>3. o \in Clients
  BY DEF Clients
<1>4. /\ \A v \in Writers \ {w} : at'[v] = at[v] /\ client'[v] = client[v]
      /\ client'[w] = o /\ at'[w] \in Doors
      /\ at'[w] = "history" => ~guardFile
      /\ at'[w] = "begin" => guardFile
      /\ at'[w] = "lock" => w \in Legacy
  BY <1>1, <1>2, <1>3, CallDoors
<1>5. at'[w] = "history" \/ guardFile
  <2>1. w \in Legacy => guardFile
    BY <1>1 DEF FreshInv
  <2>2. at'[w] # "out"
    BY <1>1, <1>2, <1>3, CallDoors
  <2> QED
    BY <1>4, <2>1, <2>2 DEF Doors
<1>6. ~fresh[w]
  BY <1>1 DEF FreshInv
<1>7. LockInv'
  BY <1>1, <1>2, <1>4 DEF LockInv, Inside, Doors
<1>8. FreshInv'
  <2>1. ASSUME NEW v \in Writers, fresh'[v]
        PROVE  v # w /\ fresh[v] /\ at'[v] = at[v]
    BY <1>2, <1>4, <1>6, <2>1
  <2>2. ASSUME NEW v \in Writers, at'[v] \in Changing
        PROVE  at[v] \in Changing
    BY <1>4, <2>2 DEF Changing, Doors
  <2>3. \A v \in Writers : at'[v] \in {"out", "history"} \cup Changing => ~fresh'[v]
    BY <1>1, <2>1 DEF FreshInv
  <2>4. ~guardFile => \A v \in Writers : at'[v] \in {"out", "history", "create"}
    BY <1>1, <1>4, <1>5 DEF FreshInv
  <2>5. ASSUME NEW u \in Writers, fresh'[u], at'[u] # "create"
        PROVE  /\ book = Empty /\ ledger = None
               /\ \A v \in Writers \ {u} : ~(fresh'[v] /\ at'[v] # "create") /\ at'[v] \notin Changing
    <3>1. Fresh(u)
      BY <2>1, <2>5 DEF Fresh
    <3>2. /\ book = Empty /\ ledger = None
          /\ \A v \in Writers \ {u} : ~Fresh(v) /\ at[v] \notin Changing
      BY <1>1, <3>1 DEF FreshInv
    <3> QED
      BY <2>1, <2>2, <3>2 DEF Fresh
  <2> QED
    BY <1>1, <1>2, <2>3, <2>4, <2>5 DEF FreshInv, Fresh, Empty
<1>9. BookInv'
  <2>1. ASSUME NEW v \in Writers, at'[v] \in Changing
        PROVE  /\ Content(base[v]) = book /\ Permitted(book, v) /\ client'[v] = client[v] /\ v # w
    BY <1>1, <1>4, <2>1 DEF BookInv, Changing, Doors
  <2>2. CASE quote' = quote
    <3>1. ASSUME NEW v \in Writers, at'[v] \in Changing
          PROVE  Content(base[v])' = book' /\ Permitted(book, v)'
      BY <1>2, <2>1, <2>2, <3>1, PermittedSame DEF Content, Empty
    <3> QED
      BY <1>1, <1>2, <3>1 DEF BookInv
  <2>3. CASE client[w] = "sent" /\ \A v \in Writers \ {w} : quote'[v] = quote[v]
    <3>1. book[w] = "dispatched" /\ w \in Requests
      BY <1>1, <2>3 DEF ClientInv
    <3>2. Book!Accounted(book, quote)' = Book!Accounted(book, quote)
      <4>1. Book!Accounted(book, quote') = Book!Accounted(book, quote)
        BY <1>1, <2>3, <3>1, QuoteUncounted
      <4>2. Book!Accounted(book, quote)' = Book!Accounted(book', quote')
        OBVIOUS
      <4> QED
        BY <1>2, <4>1, <4>2
    <3>3. ASSUME NEW v \in Writers, at'[v] \in Changing
          PROVE  Content(base[v])' = book' /\ Permitted(book, v)'
      <4>1. Permitted(book, v)'
        BY <1>2, <2>1, <2>3, <3>2, <3>3, PermittedSame
      <4> QED
        BY <1>2, <2>1, <3>3, <4>1 DEF Content, Empty
    <3> QED
      BY <1>1, <1>2, <3>3 DEF BookInv
  <2> QED
    BY <2>2, <2>3
<1>10. ClientInv'
  <2>1. ASSUME NEW v \in Writers
        PROVE  /\ at'[v] # "out" => client'[v] \in Operations
               /\ at'[v] = "release" /\ client'[v] = "dispatch" => book[v] = "dispatched"
               /\ client'[v] \in {"dispatched", "sent"} => book[v] = "dispatched"
               /\ client'[v] = "sent" => v \in sent
               /\ v \in Legacy => /\ client'[v] \in {"new", "charge", "done"}
                                  /\ at'[v] \notin {"history", "create", "begin"}
    <3>1. CASE v = w
      <4>1. w \in Legacy => at'[w] \notin {"history", "create", "begin"}
        BY <1>2 DEF Call, Goto, Doors, Operations, IInv, TypeOK
      <4> QED
        BY <1>4, <3>1, <4>1 DEF Operations, Doors
    <3>2. CASE v # w
      BY <1>1, <1>4, <3>2 DEF ClientInv
    <3> QED
      BY <3>1, <3>2
  <2> QED
    BY <1>1, <1>2, <2>1 DEF ClientInv
<1> QED
  BY <1>7, <1>8, <1>9, <1>10

LEMMA SendInv ==
  ASSUME IInv, NEW r \in Requests, Send(r)
  PROVE  LockInv' /\ FreshInv' /\ BookInv' /\ ClientInv'
<1>1. TypeOK /\ LockInv /\ FreshInv /\ BookInv /\ ClientInv
  BY DEF IInv
<1> HIDE DEF IInv
<1>2. /\ at[r] = "out" /\ client[r] = "dispatched" /\ client' = [client EXCEPT ![r] = "sent"]
      /\ sent' = sent \cup {r}
      /\ UNCHANGED <<guardFile, lock, ledger, at, base, fresh, quote, alive, book>>
  BY DEF Send, Resting, At, locks
<1>3. LockInv' /\ FreshInv'
  BY <1>1, <1>2 DEF LockInv, FreshInv, Fresh, Empty
<1>4. BookInv'
  <2>1. ASSUME NEW v \in Writers, at[v] \in Changing
        PROVE  client'[v] = client[v] /\ Content(base[v]) = book /\ Permitted(book, v)
    BY <1>1, <1>2, <2>1 DEF BookInv, Changing, TypeOK
  <2>2. ASSUME NEW v \in Writers, at[v] \in Changing
        PROVE  Content(base[v])' = book' /\ Permitted(book, v)'
    BY <1>2, <2>1, <2>2, PermittedSame DEF Content, Empty
  <2> QED
    BY <1>1, <1>2, <2>2 DEF BookInv
<1>5. ClientInv'
  <2>1. book[r] = "dispatched" /\ r \notin Legacy
    BY <1>1, <1>2, LedgerAssumption DEF ClientInv
  <2>2. ASSUME NEW v \in Writers
        PROVE  /\ at'[v] # "out" => client'[v] \in Operations
               /\ at'[v] = "release" /\ client'[v] = "dispatch" => book[v] = "dispatched"
               /\ client'[v] \in {"dispatched", "sent"} => book[v] = "dispatched"
               /\ client'[v] = "sent" => v \in sent'
               /\ v \in Legacy => /\ client'[v] \in {"new", "charge", "done"}
                                  /\ at'[v] \notin {"history", "create", "begin"}
    BY <1>1, <1>2, <2>1 DEF ClientInv, TypeOK
  <2> QED
    BY <1>1, <1>2, <2>1, <2>2 DEF ClientInv, Charged
<1> QED
  BY <1>3, <1>4, <1>5

-----------------------------------------------------------------------------
(* The invariant.                                                          *)

LEMMA InitInv == Init => IInv
<1> SUFFICES ASSUME Init PROVE IInv
  OBVIOUS
<1>1. TypeOK
  <2>1. book \in Rows /\ ledger = None
    BY DEF Init, Rows, Empty, Book!States
  <2>2. faults \in 0..MaxFaults
    BY LedgerAssumption DEF Init
  <2> QED
    BY <2>1, <2>2 DEF Init, TypeOK
<1>2. LockInv /\ FreshInv /\ BookInv /\ ClientInv
  BY DEF Init, LockInv, FreshInv, Fresh, BookInv, ClientInv, Inside, Changing, Operations
<1> QED
  BY <1>1, <1>2 DEF IInv

LEMMA StepInv == IInv /\ [Next]_vars => IInv'
<1> SUFFICES ASSUME IInv, [Next]_vars PROVE IInv'
  OBVIOUS
<1>1. TypeOK /\ LockInv /\ FreshInv /\ BookInv /\ ClientInv
  BY DEF IInv
<1> HIDE DEF IInv
<1>2. ASSUME NEW w \in Writers, WriterStep(w)
      PROVE  IInv'
  <2>1. TypeOK'
    BY <1>1, <1>2, LedgerAssumption, TypeWriter DEF ClientInv
  <2>2. Quiet(w) \/ Publish(w) \/ Die(w)
    BY <1>2 DEF WriterStep, Step, Quiet
  <2> QED
    BY <2>1, <2>2, QuietInv, PublishInv, FaultInv DEF IInv
<1>3. ASSUME NEW r \in Requests, Request(r)
      PROVE  IInv'
  <2>1. TypeOK'
    BY <1>1, <1>3, TypeOther
  <2>2. CASE Send(r)
    BY <2>1, <2>2, SendInv DEF IInv
  <2>3. CASE ~Send(r)
    <3>1. PICK o \in Operations :
            /\ r \in alive /\ at[r] = "out" /\ Calls(r, o)
            /\ \/ quote' = quote
               \/ client[r] = "sent" /\ \A v \in Writers \ {r} : quote'[v] = quote[v]
      BY <1>1, <1>3, <2>3 DEF Request, Resting, At, Operations, TypeOK
    <3> QED
      BY <2>1, <3>1, CallsInv, LedgerAssumption DEF IInv
  <2> QED
    BY <2>2, <2>3
<1>4. ASSUME NEW l \in Legacy, LegacyCharge(l)
      PROVE  IInv'
  <2>1. TypeOK'
    BY <1>1, <1>4, TypeOther
  <2>2. /\ "charge" \in Operations /\ l \in alive /\ at[l] = "out" /\ ledger # None
        /\ Calls(l, "charge") /\ quote' = quote
    BY <1>4 DEF LegacyCharge, Resting, At, Operations
  <2> QED
    BY <2>1, <2>2, CallsInv DEF IInv
<1>5. CASE Lose
  BY <1>1, <1>5, TypeOther, FaultInv DEF IInv
<1>6. CASE UNCHANGED vars
  <2>1. TypeOK'
    BY <1>1, <1>6 DEF vars, locks, tx, TypeOK
  <2>2. LockInv' /\ FreshInv' /\ ClientInv'
    BY <1>1, <1>6 DEF vars, locks, tx, LockInv, FreshInv, Fresh, ClientInv, Empty
  <2>3. BookInv'
    BY <1>1, <1>6, PermittedSame DEF vars, locks, tx, BookInv, Content, Empty
  <2> QED
    BY <2>1, <2>2, <2>3 DEF IInv
<1> QED
  BY <1>2, <1>3, <1>4, <1>5, <1>6 DEF Next, WriterStep

LEMMA Invariance == Spec => []IInv
<1> QED
  BY InitInv, StepInv, PTL DEF Spec

-----------------------------------------------------------------------------
(* The theorems.                                                           *)

\* Type correctness.
THEOREM TypeCorrect == Spec => []TypeOK
<1>1. IInv => TypeOK
  BY DEF IInv
<1> QED
  BY <1>1, Invariance, PTL

\* A request the provider may have charged stays charged in the file, for any
\* writers, failures and deaths (budget-ledger.js, markDispatched, settle,
\* releasePrepared, markUnknown; p1.js, llm/stream).
THEOREM SentStaysChargedAlways == Spec => []SentStaysCharged
<1>1. IInv => SentStaysCharged
  BY DEF IInv, BookInv, ClientInv, Charged, SentStaysCharged
<1> QED
  BY <1>1, Invariance, PTL

\* Every step is one of the book, or none.
LEMMA StepBook == IInv /\ [Next]_vars => [Book!Next]_<<book, quote, sent>>
<1> SUFFICES ASSUME IInv, [Next]_vars PROVE [Book!Next]_<<book, quote, sent>>
  OBVIOUS
<1>1. TypeOK /\ BookInv /\ ClientInv
  BY DEF IInv
<1>2. CASE \E w \in Writers : Publish(w)
  <2>1. PICK w \in Writers : Publish(w)
    BY <1>2
  <2>2. /\ Permitted(book, w) /\ client[w] \in Operations
        /\ book' = Applied(book, w) /\ UNCHANGED <<quote, sent>>
    BY <1>1, <2>1 DEF Publish, At, BookInv, ClientInv, Changing
  <2>3. CASE client[w] \in {"reserve", "charge"}
    <3>1. book[w] = "none" /\ Book!Accounted(book, quote) + Reservation[w] <= Limit
      BY <2>2, <2>3 DEF Permitted
    <3>2. book' = [book EXCEPT ![w] = "prepared"]
      BY <2>2, <2>3 DEF Applied
    <3> QED
      BY <2>2, <3>1, <3>2 DEF Book!Next, Book!Reserve, Book!Row
  <2>4. CASE client[w] = "dispatch"
    BY <2>2, <2>4 DEF Permitted, Applied, Book!Next, Book!Row
  <2>5. CASE client[w] = "release"
    BY <2>2, <2>5 DEF Permitted, Applied, Book!Next, Book!Row
  <2>6. CASE client[w] = "settle"
    <3>1. book[w] \in Book!Held /\ quote[w] <= Reservation[w]
      BY <2>2, <2>6 DEF Permitted, Held
    <3>2. book' = [book EXCEPT ![w] = "settled"]
      BY <2>2, <2>6 DEF Applied
    <3> QED
      BY <2>2, <3>1, <3>2 DEF Book!Next, Book!Settle, Book!Row
  <2>7. CASE client[w] = "unknown"
    <3>1. CASE book[w] = "dispatched"
      BY <2>2, <2>7, <3>1 DEF Applied, Book!Next, Book!Row
    <3>2. CASE book[w] # "dispatched"
      BY <1>1, <2>2, <2>7, <3>2 DEF Applied, TypeOK, Rows
    <3> QED
      BY <3>1, <3>2
  <2> QED
    BY <2>2, <2>3, <2>4, <2>5, <2>6, <2>7 DEF Operations
<1>3. CASE \E r \in Requests : Send(r)
  <2>1. PICK r \in Requests : Send(r)
    BY <1>3
  <2>2. book[r] = "dispatched" /\ sent' = sent \cup {r} /\ UNCHANGED <<book, quote>>
    BY <1>1, <2>1 DEF Send, Resting, ClientInv
  <2> QED
    BY <2>2 DEF Book!Next, Book!Send
<1>4. CASE \E r \in Requests : /\ Resting(r, "sent") /\ Calls(r, "settle")
                             /\ \E q \in Quotes : quote' = [quote EXCEPT ![r] = q]
  <2>1. PICK r \in Requests : /\ Resting(r, "sent") /\ Calls(r, "settle")
                             /\ \E q \in Quotes : quote' = [quote EXCEPT ![r] = q]
    BY <1>4
  <2>2. r \in sent /\ book[r] # "settled" /\ UNCHANGED <<book, sent>>
    BY <1>1, <2>1 DEF Resting, Calls, ClientInv
  <2>3. quote' \in [Writers -> Nat] /\ \A v \in Writers \ {r} : quote'[v] = quote[v]
    <3>1. quote \in [Writers -> Nat]
      <4>1. quote \in [Writers -> Quotes \cup {0}]
        BY <1>1 DEF TypeOK
      <4>2. Quotes \cup {0} \subseteq Nat
        BY LedgerAssumption
      <4> HIDE DEF Writers
      <4> QED
        BY <4>1, <4>2
    <3>2. PICK q \in Nat : quote' = [quote EXCEPT ![r] = q]
      BY <2>1, LedgerAssumption
    <3> QED
      BY <3>1, <3>2
  <2> QED
    BY <2>2, <2>3 DEF Book!Next, Book!Quote
<1>5. CASE UNCHANGED <<book, quote, sent>>
  BY <1>5
<1>6. ASSUME NEW w \in Writers, Quiet(w) \/ Die(w)
      PROVE  UNCHANGED <<book, quote, sent>>
  BY <1>6 DEF Quiet, ReadHistory, CreateGuard, BeginGuard, TakeLock, MeetLock, TakeOver, Refused,
              Stamp, Load, Compare, Release, Throw, Die
<1>7. ASSUME NEW w \in Writers, Step(w) \/ MeetLock(w) \/ Throw(w) \/ Die(w)
      PROVE  Quiet(w) \/ Die(w) \/ Publish(w)
  BY <1>7 DEF Step, Quiet
<1>8. ASSUME NEW r \in Requests, Request(r)
      PROVE  \/ Send(r)
             \/ /\ Resting(r, "sent") /\ Calls(r, "settle")
                /\ \E q \in Quotes : quote' = [quote EXCEPT ![r] = q]
             \/ UNCHANGED <<book, quote, sent>>
  BY <1>8 DEF Request, Calls
<1>9. ASSUME NEW l \in Legacy, LegacyCharge(l)
      PROVE  UNCHANGED <<book, quote, sent>>
  BY <1>9 DEF LegacyCharge, Calls
<1>10. CASE Lose
  BY <1>10 DEF Lose
<1>11. CASE UNCHANGED vars
  BY <1>11 DEF vars
<1> QED
  BY <1>2, <1>3, <1>4, <1>5, <1>6, <1>7, <1>8, <1>9, <1>10, <1>11 DEF Next

\* The ledger, with any writers racing, failing and dying around the lock, is
\* one book of charges changed a row at a time under the limit
\* (budget-ledger.js, change; budget-lock.js, acquireBudgetLock).
THEOREM Refinement == Spec => ImplementsChargeBook
<1>1. Init => Book!Init
  BY DEF Init, Book!Init, Empty
<1> QED
  BY <1>1, StepBook, Invariance, PTL DEF Spec, ImplementsChargeBook, Book!Spec

-----------------------------------------------------------------------------
(* The limit.                                                              *)

\* A charge as a set of as many cells as it amounts to: the sum of the charges
\* is the number of cells, and what a fold over the charges computes.
Cell(f, w)  == {<<w, i>> : i \in 1..f[w]}
Cells(f, s) == UNION {Cell(f, w) : w \in s}

LEMMA CellCount ==
  ASSUME NEW f, NEW w, f[w] \in Nat
  PROVE  IsFiniteSet(Cell(f, w)) /\ Cardinality(Cell(f, w)) = f[w]
<1> DEFINE n == f[w]
<1> DEFINE b == [i \in 1..n |-> <<w, i>>]
<1>1. IsFiniteSet(1..n) /\ Cardinality(1..n) = n
  BY FS_Interval
<1>2. b \in [1..n -> Cell(f, w)]
  BY DEF Cell
<1>3. \A i, j \in 1..n : b[i] = b[j] => i = j
  OBVIOUS
<1>4. \A c \in Cell(f, w) : \E i \in 1..n : b[i] = c
  BY DEF Cell
<1>5. b \in Bijection(1..n, Cell(f, w))
  <2> HIDE DEF b, n
  <2>1. b \in Injection(1..n, Cell(f, w))
    BY <1>2, <1>3 DEF Injection, IsInjective
  <2>2. b \in Surjection(1..n, Cell(f, w))
    BY <1>2, <1>4 DEF Surjection
  <2> QED BY <2>1, <2>2 DEF Bijection
<1>6. ExistsBijection(1..n, Cell(f, w))
  BY <1>5 DEF ExistsBijection
<1> QED BY <1>1, <1>6, FS_Bijection

LEMMA CellsSplit ==
  ASSUME NEW f, NEW s, NEW x \in s, f[x] \in Nat, IsFiniteSet(Cells(f, s \ {x}))
  PROVE  /\ IsFiniteSet(Cells(f, s))
         /\ Cardinality(Cells(f, s)) = f[x] + Cardinality(Cells(f, s \ {x}))
<1>1. Cells(f, s) = Cell(f, x) \cup Cells(f, s \ {x})
  BY DEF Cells
<1>2. Cell(f, x) \cap Cells(f, s \ {x}) = {}
  BY DEF Cells, Cell
<1>3. IsFiniteSet(Cell(f, x)) /\ Cardinality(Cell(f, x)) = f[x]
  BY CellCount
<1>4. Cardinality(Cells(f, s \ {x})) \in Nat
  BY FS_CardinalityType
<1> HIDE DEF Cells, Cell
<1>5. /\ IsFiniteSet(Cell(f, x) \cup Cells(f, s \ {x}))
      /\ Cardinality(Cell(f, x) \cup Cells(f, s \ {x}))
           = Cardinality(Cell(f, x)) + Cardinality(Cells(f, s \ {x}))
               - Cardinality(Cell(f, x) \cap Cells(f, s \ {x}))
  BY <1>3, FS_Union, Zenon
<1>6. Cardinality(Cell(f, x) \cap Cells(f, s \ {x})) = 0
  BY <1>2, FS_EmptySet
<1> QED BY <1>1, <1>3, <1>4, <1>5, <1>6

\* What is so of the empty set, and of a set when it is so of that set without
\* any one of its elements, is so of every finite set.
LEMMA SubsetInduction ==
  ASSUME NEW W, IsFiniteSet(W), NEW G, {} \in G,
         \A s \in SUBSET W : s # {} /\ (\A x \in s : s \ {x} \in G) => s \in G
  PROVE  SUBSET W \subseteq G
<1> DEFINE S == {n \in Nat : \A s \in SUBSET W : Cardinality(s) = n => s \in G}
<1>1. \A s \in SUBSET W : IsFiniteSet(s) /\ Cardinality(s) \in Nat
  BY FS_Subset, FS_CardinalityType
<1>2. 0 \in S
  BY <1>1, FS_EmptySet
<1>3. ASSUME NEW n \in S PROVE n + 1 \in S
  <2> SUFFICES ASSUME NEW s \in SUBSET W, Cardinality(s) = n + 1 PROVE s \in G
    OBVIOUS
  <2>1. s # {}
    <3>1. n \in Nat /\ n + 1 # 0
      OBVIOUS
    <3>2. Cardinality({}) = 0
      BY FS_EmptySet
    <3> QED BY <3>1, <3>2
  <2>2. ASSUME NEW x \in s PROVE s \ {x} \in G
    <3>1. IsFiniteSet(s) /\ Cardinality(s \ {x}) = n + 1 - 1 /\ n \in Nat
      BY <1>1, FS_RemoveElement
    <3>2. s \ {x} \in SUBSET W /\ Cardinality(s \ {x}) = n
      BY <3>1
    <3> QED BY <3>2
  <2> QED BY <2>1, <2>2
<1>4. Nat \subseteq S
  <2> HIDE DEF S
  <2> QED BY <1>2, <1>3, NatSetInduction
<1> QED BY <1>1, <1>4

LEMMA CellsFinite ==
  ASSUME NEW W, IsFiniteSet(W), NEW f \in [W -> Nat], NEW s \in SUBSET W
  PROVE  IsFiniteSet(Cells(f, s)) /\ Cardinality(Cells(f, s)) \in Nat
<1> DEFINE G == {r \in SUBSET W : IsFiniteSet(Cells(f, r))}
<1>1. {} \in G
  <2>1. Cells(f, {}) = {}
    BY DEF Cells
  <2> QED BY <2>1, FS_EmptySet
<1>2. ASSUME NEW r \in SUBSET W, r # {}, \A x \in r : r \ {x} \in G PROVE r \in G
  <2>1. PICK x \in r : TRUE
    BY <1>2
  <2> QED BY <1>2, <2>1, CellsSplit
<1>3. SUBSET W \subseteq G
  <2> HIDE DEF G
  <2> QED BY <1>1, <1>2, SubsetInduction
<1> QED BY <1>3, FS_CardinalityType

\* The recursive function of the fold.
Chosen(s)     == CHOOSE x \in s : TRUE
Sums(g, f, W) ==
  g = [s \in SUBSET W |-> IF s = {} THEN 0 ELSE f[Chosen(s)] + g[s \ {Chosen(s)}]]

LEMMA SumsExists ==
  ASSUME NEW W, IsFiniteSet(W), NEW f \in [W -> Nat]
  PROVE  \E g : Sums(g, f, W)
<1> DEFINE g == [s \in SUBSET W |-> Cardinality(Cells(f, s))]
<1>1. ASSUME NEW s \in SUBSET W
      PROVE  g[s] = IF s = {} THEN 0 ELSE f[Chosen(s)] + g[s \ {Chosen(s)}]
  <2>1. CASE s = {}
    <3>1. Cells(f, s) = {}
      BY <2>1 DEF Cells
    <3> QED BY <2>1, <3>1, FS_EmptySet
  <2>2. CASE s # {}
    <3>1. Chosen(s) \in s
      BY <2>2 DEF Chosen
    <3>2. f[Chosen(s)] \in Nat /\ s \ {Chosen(s)} \in SUBSET W
      BY <3>1
    <3> QED BY <2>2, <3>1, <3>2, CellsSplit, CellsFinite
  <2> QED BY <2>1, <2>2
<1>2. Sums(g, f, W)
  <2> DEFINE h == [s \in SUBSET W |-> IF s = {} THEN 0 ELSE f[Chosen(s)] + g[s \ {Chosen(s)}]]
  <2>1. \A s \in SUBSET W : g[s] = h[s]
    BY <1>1
  <2>2. g = h
    BY <2>1, Zenon
  <2> QED BY <2>2 DEF Sums
<1> QED BY <1>2

LEMMA SumsCells ==
  ASSUME NEW W, IsFiniteSet(W), NEW f \in [W -> Nat], NEW g, Sums(g, f, W)
  PROVE  g[W] = Cardinality(Cells(f, W))
<1> DEFINE G == {s \in SUBSET W : g[s] = Cardinality(Cells(f, s))}
<1> DEFINE h == [s \in SUBSET W |-> IF s = {} THEN 0 ELSE f[Chosen(s)] + g[s \ {Chosen(s)}]]
<1>1. \A s \in SUBSET W : h[s] = IF s = {} THEN 0 ELSE f[Chosen(s)] + g[s \ {Chosen(s)}]
  OBVIOUS
<1>2. g = h
  BY Zenon DEF Sums
<1> HIDE DEF h
<1>3. {} \in G
  <2>1. Cells(f, {}) = {} /\ {} \in SUBSET W
    BY DEF Cells
  <2> QED BY <1>1, <1>2, <2>1, FS_EmptySet
<1>4. ASSUME NEW s \in SUBSET W, s # {}, s \ {Chosen(s)} \in G PROVE s \in G
  <2>1. Chosen(s) \in s
    BY <1>4 DEF Chosen
  <2>2. g[s] = f[Chosen(s)] + Cardinality(Cells(f, s \ {Chosen(s)}))
    BY <1>1, <1>2, <1>4
  <2>3. IsFiniteSet(Cells(f, s \ {Chosen(s)}))
    BY CellsFinite
  <2> QED BY <2>1, <2>2, <2>3, CellsSplit
<1>5. ASSUME NEW s \in SUBSET W, s # {}, \A x \in s : s \ {x} \in G PROVE s \in G
  BY <1>4, <1>5 DEF Chosen
<1>6. SUBSET W \subseteq G
  <2> HIDE DEF G
  <2> QED BY <1>3, <1>5, SubsetInduction
<1> QED BY <1>6

\* A fold of the charges of a finite set of writers is the sum ChargeBook means.
LEMMA TotalCells ==
  ASSUME NEW W, IsFiniteSet(W), NEW f \in [W -> Nat]
  PROVE  Book!Total(f) = Cardinality(Cells(f, W))
<1> DEFINE c == CHOOSE g : Sums(g, f, W)
<1>1. Sums(c, f, W)
  BY SumsExists
<1>2. Book!Total(f) = c[DOMAIN f] /\ DOMAIN f = W
  BY Zenon DEF Book!Total, Book!FoldFunction, Book!FoldFunctionOnSet, Book!MapThenFoldSet, Sums, Chosen
<1> QED BY <1>1, <1>2, SumsCells

LEMMA TotalIsAdditive == IsFiniteSet(Writers) => Book!Additive(Nat)
<1> SUFFICES ASSUME IsFiniteSet(Writers) PROVE Book!Additive(Nat)
  OBVIOUS
<1> HIDE DEF Writers
<1>1. Book!Total([w \in Writers |-> 0]) = 0
  <2> DEFINE z == [w \in Writers |-> 0]
  <2>1. z \in [Writers -> Nat]
    OBVIOUS
  <2>2. Cells(z, Writers) = {}
    BY DEF Cells, Cell
  <2> HIDE DEF z
  <2>3. Book!Total(z) = 0
    BY <2>1, <2>2, TotalCells, FS_EmptySet
  <2> QED BY <2>3 DEF z
<1>2. ASSUME NEW f \in [Writers -> Nat], NEW g \in [Writers -> Nat], NEW w \in Writers
      PROVE  /\ Book!Total(f) \in Nat
             /\ (\A v \in Writers \ {w} : f[v] = g[v])
                  => Book!Total(f) + g[w] = Book!Total(g) + f[w]
  <2>1. Book!Total(f) \in Nat
    BY TotalCells, CellsFinite
  <2>2. ASSUME \A v \in Writers \ {w} : f[v] = g[v]
        PROVE  Book!Total(f) + g[w] = Book!Total(g) + f[w]
    <3> DEFINE rest == Writers \ {w}
    <3>1. Cells(f, rest) = Cells(g, rest)
      BY <2>2 DEF Cells, Cell
    <3>2. /\ IsFiniteSet(Cells(f, rest)) /\ IsFiniteSet(Cells(g, rest))
          /\ Cardinality(Cells(f, rest)) \in Nat
      BY CellsFinite
    <3>3. /\ Cardinality(Cells(f, Writers)) = f[w] + Cardinality(Cells(f, rest))
          /\ Cardinality(Cells(g, Writers)) = g[w] + Cardinality(Cells(g, rest))
      BY <3>2, CellsSplit
    <3> HIDE DEF rest
    <3>4. Book!Total(f) = f[w] + Cardinality(Cells(f, rest))
      BY <3>3, TotalCells
    <3>5. Book!Total(g) = g[w] + Cardinality(Cells(f, rest))
      BY <3>1, <3>3, TotalCells
    <3> QED BY <3>2, <3>4, <3>5
  <2> QED BY <2>1, <2>2
<1> QED BY <1>1, <1>2 DEF Book!Additive

Cap == Book!Accounted(book, quote) <= Limit

\* The charges of the rows are natural numbers.
LEMMA ChargesTyped ==
  ASSUME NEW b \in Rows, NEW q \in [Writers -> Nat]
  PROVE  [w \in Writers |-> Book!Charge(b, q, w)] \in [Writers -> Nat]
  BY LedgerAssumption DEF Book!Charge

\* Changing one row changes the account by what its charge changes.
LEMMA RowAccounted ==
  ASSUME Book!Additive(Nat), NEW w \in Writers,
         NEW b \in Rows, NEW c \in Rows, NEW q \in [Writers -> Nat],
         \A v \in Writers \ {w} : c[v] = b[v]
  PROVE  /\ Book!Accounted(b, q) \in Nat /\ Book!Accounted(c, q) \in Nat
         /\ Book!Accounted(b, q) + Book!Charge(c, q, w) = Book!Accounted(c, q) + Book!Charge(b, q, w)
<1> DEFINE f == [v \in Writers |-> Book!Charge(b, q, v)]
           g == [v \in Writers |-> Book!Charge(c, q, v)]
<1>1. f \in [Writers -> Nat] /\ g \in [Writers -> Nat]
  BY ChargesTyped
<1>2. \A v \in Writers \ {w} : f[v] = g[v]
  BY DEF Book!Charge
<1>3. f[w] = Book!Charge(b, q, w) /\ g[w] = Book!Charge(c, q, w)
  OBVIOUS
<1>4. Book!Accounted(b, q) = Book!Total(f) /\ Book!Accounted(c, q) = Book!Total(g)
  BY DEF Book!Accounted
<1> HIDE DEF f, g
<1>5. /\ Book!Total(f) \in Nat /\ Book!Total(g) \in Nat
      /\ Book!Total(f) + g[w] = Book!Total(g) + f[w]
  BY <1>1, <1>2 DEF Book!Additive
<1> QED
  BY <1>3, <1>4, <1>5

\* No step of the book exceeds the limit.
LEMMA CapStep ==
  ASSUME Book!Additive(Nat), book \in Rows, book' \in Rows,
         quote \in [Writers -> Nat], Cap, Book!Next
  PROVE  Cap'
<1>1. PICK w \in Writers :
        \/ Book!Reserve(w) \/ Book!Settle(w) \/ Book!Send(w) \/ Book!Quote(w)
        \/ Book!Row(w, {"prepared"}, "dispatched")
        \/ Book!Row(w, {"prepared"}, "released")
        \/ Book!Row(w, {"dispatched", "unknown"}, "unknown")
  BY DEF Book!Next
<1>2. Limit \in Nat /\ Reservation[w] \in Nat
  BY LedgerAssumption
<1>3. ASSUME NEW from, NEW to, Book!Row(w, from, to)
      PROVE  /\ book[w] \in from /\ book'[w] = to /\ quote' = quote
             /\ Book!Accounted(book, quote)' = Book!Accounted(book', quote)
             /\ Book!Accounted(book, quote) \in Nat /\ Book!Accounted(book', quote) \in Nat
             /\ Book!Accounted(book, quote) + Book!Charge(book', quote, w)
                  = Book!Accounted(book', quote) + Book!Charge(book, quote, w)
  <2>1. /\ book[w] \in from /\ book'[w] = to /\ quote' = quote
        /\ \A v \in Writers \ {w} : book'[v] = book[v]
    BY <1>3 DEF Book!Row, Rows
  <2>2. Book!Accounted(book, quote)' = Book!Accounted(book', quote')
    OBVIOUS
  <2> QED
    BY <2>1, <2>2, RowAccounted
<1>4. Book!Accounted(book, quote)' = Book!Accounted(book', quote')
  OBVIOUS
<1>5. CASE Book!Reserve(w)
  <2>1. Book!Charge(book, quote, w) = 0 /\ Book!Charge(book', quote, w) = Reservation[w]
    BY <1>3, <1>5 DEF Book!Reserve, Book!Charge, Book!Held
  <2>2. Book!Accounted(book, quote) + Reservation[w] <= Limit
    BY <1>5 DEF Book!Reserve
  <2> QED
    BY <1>2, <1>3, <1>5, <2>1, <2>2 DEF Cap, Book!Reserve
<1>6. CASE Book!Settle(w)
  <2>1. Book!Charge(book, quote, w) = Reservation[w] /\ Book!Charge(book', quote, w) = quote[w]
    BY <1>3, <1>6 DEF Book!Settle, Book!Charge, Book!Held
  <2>2. quote[w] <= Reservation[w] /\ quote[w] \in Nat
    BY <1>6 DEF Book!Settle
  <2> QED
    BY <1>2, <1>3, <1>6, <2>1, <2>2 DEF Cap, Book!Settle
<1>7. CASE Book!Row(w, {"prepared"}, "dispatched")
  <2>1. Book!Charge(book, quote, w) = Reservation[w] /\ Book!Charge(book', quote, w) = Reservation[w]
    BY <1>3, <1>7 DEF Book!Charge, Book!Held
  <2> QED
    BY <1>2, <1>3, <1>7, <2>1 DEF Cap
<1>8. CASE Book!Row(w, {"prepared"}, "released")
  <2>1. Book!Charge(book, quote, w) = Reservation[w] /\ Book!Charge(book', quote, w) = 0
    BY <1>3, <1>8 DEF Book!Charge, Book!Held
  <2> QED
    BY <1>2, <1>3, <1>8, <2>1 DEF Cap
<1>9. CASE Book!Row(w, {"dispatched", "unknown"}, "unknown")
  <2>1. Book!Charge(book, quote, w) = Reservation[w] /\ Book!Charge(book', quote, w) = Reservation[w]
    BY <1>3, <1>9 DEF Book!Charge, Book!Held
  <2> QED
    BY <1>2, <1>3, <1>9, <2>1 DEF Cap
<1>10. CASE Book!Send(w)
  <2>1. book' = book /\ quote' = quote
    BY <1>10 DEF Book!Send
  <2> QED
    BY <1>4, <2>1 DEF Cap
<1>11. CASE Book!Quote(w)
  <2>1. ASSUME NEW v \in Writers
        PROVE  Book!Charge(book, quote', v) = Book!Charge(book, quote, v)
    BY <1>11, <2>1 DEF Book!Quote, Book!Charge, Book!Held
  <2>2. [v \in Writers |-> Book!Charge(book, quote', v)] = [v \in Writers |-> Book!Charge(book, quote, v)]
    BY <2>1
  <2>3. Book!Accounted(book, quote') = Book!Accounted(book, quote)
    BY <2>2 DEF Book!Accounted
  <2>4. book' = book
    BY <1>11 DEF Book!Quote
  <2> QED
    BY <1>4, <2>3, <2>4 DEF Cap
<1> QED
  BY <1>1, <1>5, <1>6, <1>7, <1>8, <1>9, <1>10, <1>11

\* The reservations of finitely many writers racing, failing and dying never
\* exceed the limit (budget-ledger.js, reserve, settle, summarizeBudget).
THEOREM CapHeldAlways == ASSUME IsFiniteSet(Writers) PROVE Spec => []CapHeld
<1>0. Book!Additive(Nat)
  BY TotalIsAdditive
<1>1. TypeOK => book \in Rows /\ quote \in [Writers -> Nat]
  <2> SUFFICES ASSUME TypeOK PROVE book \in Rows /\ quote \in [Writers -> Nat]
    OBVIOUS
  <2>1. book \in Rows /\ quote \in [Writers -> Quotes \cup {0}]
    BY DEF TypeOK
  <2>2. Quotes \cup {0} \subseteq Nat
    BY LedgerAssumption
  <2> HIDE DEF Writers
  <2> QED
    BY <2>1, <2>2
<1>2. Init => Cap
  <2> SUFFICES ASSUME Init PROVE Cap
    OBVIOUS
  <2>1. [w \in Writers |-> Book!Charge(book, quote, w)] = [w \in Writers |-> 0]
    BY DEF Init, Empty, Book!Charge, Book!Held
  <2>2. Book!Accounted(book, quote) = 0
    BY <1>0, <2>1 DEF Book!Accounted, Book!Additive
  <2> QED
    BY <2>2, LedgerAssumption DEF Cap
<1>3. TypeOK /\ TypeOK' /\ Cap /\ [Book!Next]_<<book, quote, sent>> => Cap'
  <2> SUFFICES ASSUME TypeOK, TypeOK', Cap, [Book!Next]_<<book, quote, sent>> PROVE Cap'
    OBVIOUS
  <2>1. book \in Rows /\ quote \in [Writers -> Nat] /\ book' \in Rows
    BY <1>1 DEF TypeOK
  <2>2. CASE Book!Next
    BY <1>0, <2>1, <2>2, CapStep
  <2>3. CASE UNCHANGED <<book, quote, sent>>
    BY <2>3 DEF Cap
  <2> QED
    BY <2>2, <2>3
<1>4. IInv /\ Cap => CapHeld
  <2> SUFFICES ASSUME IInv, Cap, ledger # None PROVE Book!Accounted(ledger, quote) <= Limit
    BY DEF CapHeld
  <2>1. ledger = book
    BY DEF IInv, BookInv
  <2> QED
    BY <2>1 DEF Cap
<1>5. IInv => TypeOK
  BY DEF IInv
<1> QED
  BY <1>2, <1>3, <1>4, <1>5, InitInv, StepInv, StepBook, PTL DEF Spec
==============================================================================
