---------------------------- MODULE JsonlHandle ----------------------------
(***************************************************************************)
(* A session's write handle of the JSONL backend                           *)
(* (session-persistence-jsonl storage.ts) over its log file (index.ts),    *)
(* with the set-up window of the session (core/agent-loop index.ts) before *)
(* it, and crashes, reopening and the reader's torn-tail recovery.         *)
(*                                                                         *)
(* The handle is event-loop code: each action runs up to its next await.   *)
(* Published events wait in a write-behind buffer until a timer, a flush   *)
(* or a close drains it through the promise chain that serializes every    *)
(* mutation.  The head of `chain` is the operation that is running once    *)
(* `at` is not "idle".                                                     *)
(*                                                                         *)
(* An event is its position in the log and the incarnation of the process  *)
(* that wrote it, so that an event written again after a crash is told     *)
(* from the one that was lost.  The file is a header and a sequence of     *)
(* frames: a compressed frame for a batch (Framed), or a line for an       *)
(* event.  `durable` is what the last successful fsync made safe.          *)
(***************************************************************************)
EXTENDS Integers, Sequences, SequencesExt

CONSTANTS Flushers,      \* callers of the session/flush barrier
          MaxEvents,     \* bound on the events of the log
          MaxFaults,     \* bound on failing file-system calls
          MaxCrashes,    \* bound on crashes
          Framed         \* zstd frames (TRUE) or plain lines (FALSE)

ASSUME BoundsAssumption == MaxEvents \in Nat /\ MaxFaults \in Nat /\ MaxCrashes \in Nat

VARIABLES
  log,      \* the session's events in memory; after a crash, what is readable
  epoch,    \* incarnations of the process
  life,     \* "setup" until published, "live", "failed", "down" after a crash
  unrouted, \* events appended while the last suffix was being stored
  state,    \* StorageHandleState
  lease,    \* the cross-process write lock
  buffered, \* routed live events not yet taken by a drain
  timer,    \* batchTimer is armed
  paused,   \* drainPaused
  draining, \* the single-flight drain: "spent" and "failed" until its promise is cleared
  chain,    \* operations queued on the mutation chain
  at,       \* the await at which the running operation is
  batch,    \* the events of the running operation
  before,   \* the file as the running append found it
  closing,  \* how far close() is; "no" before it is called
  ahead,    \* operations close() still awaits on the chain
  closeFailed, \* close() will reject
  seen,     \* the events that were stored, or being stored, when close last looked
  flush,    \* per caller of flush: where it is, the events it was called for, and
            \* why its answer is not for all of them
  file,     \* the log file as readers of this machine see it
  durable,  \* the part of it that is known to be on stable storage
  residue,  \* what failed appends left: "none", "left" at its end, "buried" in it
  promised, \* length of the prefix promised to survive; -1 before any promise
  faults, crashes

bufferVars  == <<buffered, timer, paused, draining>>
opVars      == <<at, batch, before>>
closeVars   == <<closing, ahead, closeFailed, seen>>
diskVars    == <<file, durable, residue>>
sessionVars == <<log, epoch, life, unrouted>>
limitVars   == <<faults, crashes>>
vars == <<sessionVars, state, lease, bufferVars, chain, opVars, closeVars,
          flush, diskVars, promised, limitVars>>

Event   == [seq : 1..MaxEvents, epoch : 1..(MaxCrashes + 1)]
NoTear  == -1
Absent  == [there |-> FALSE, frames |-> <<>>]
Awaits  == {"lease", "truncate", "write", "sync", "rollback", "link", "dirsync"}
Phases  == {"no", "drain", "chain", "settle", "release", "closed"}
Op(kind, n, who) == [kind |-> kind, upTo |-> n, who |-> who]
Fresh(n)         == [cursor |-> n, materialized |-> FALSE, torn |-> NoTear, recovered |-> <<>>]
NotFlushing      == [at |-> "idle", asked |-> 0, excuse |-> "none"]

(* ------------------------- The log file ------------------------------- *)

Frame(es) == [events |-> es, whole |-> TRUE]

\* What one batch adds to the file.
Encode(es) == IF Framed THEN <<Frame(es)>> ELSE [i \in DOMAIN es |-> Frame(<<es[i]>>)]

\* What an interrupted write may leave of frames: a compressed frame may give
\* back the records that were flushed into it, an incomplete line gives none.
Torn(f) ==
  {[events |-> SubSeq(f.events, 1, k), whole |-> FALSE] :
     k \in IF Framed THEN 0..Len(f.events) ELSE {0}}

Partials(fs) ==
  {SubSeq(fs, 1, k) : k \in 0..Len(fs)}
    \cup UNION {{Append(SubSeq(fs, 1, k - 1), t) : t \in Torn(fs[k])} : k \in DOMAIN fs}

Events(fs) == FlattenSeq([i \in DOMAIN fs |-> fs[i].events])

Continues(es, n) == \A i \in DOMAIN es : es[i].seq = n + i

\* The number of leading frames that a reader accepts.
Sound(fs) ==
  Max({k \in 0..Len(fs) : /\ \A i \in 1..k : fs[i].whole
                          /\ Continues(Events(SubSeq(fs, 1, k)), 0)})

\* The longest part of es that continues a log of n events.
Continuing(es, n) ==
  SubSeq(es, 1, Max({k \in 0..Len(es) : Continues(SubSeq(es, 1, k), n)}))

\* Complete records in the torn last frame.
Recoverable(fs) ==
  IF Sound(fs) < Len(fs) /\ ~fs[Sound(fs) + 1].whole
  THEN Continuing(fs[Sound(fs) + 1].events, Len(Events(SubSeq(fs, 1, Sound(fs)))))
  ELSE <<>>

\* Anything but a torn last frame makes a compressed log unreadable; a plain
\* log is read up to its first bad line.
Damaged(fs) ==
  Framed /\ Sound(fs) < Len(fs) /\ (Sound(fs) + 1 < Len(fs) \/ fs[Sound(fs) + 1].whole)

\* Mutant: the complete frames are forgotten when the last one is torn.
ScanDropsTornLog(f) ==
  IF f.there /\ Sound(f.frames) = Len(f.frames) THEN Events(f.frames) ELSE <<>>

\* What a reader gets.
Scan(f) ==
  IF f.there /\ ~Damaged(f.frames)
  THEN Events(SubSeq(f.frames, 1, Sound(f.frames))) \o Recoverable(f.frames)
  ELSE <<>>

\* What may be left of the file after a crash: the operating system may have
\* written back any part of what was not yet synced.
Survivors ==
  {durable, file} \cup
  IF durable.there /\ IsPrefix(durable.frames, file.frames)
  THEN {[file EXCEPT !.frames = durable.frames \o p] :
          p \in Partials(SubSeq(file.frames, Len(durable.frames) + 1, Len(file.frames)))}
  ELSE {}

(* ---------------------- Ends of an operation -------------------------- *)

\* The running operation leaves the chain, whatever comes after it.
Leaves(rest) ==
  /\ chain' = rest /\ ahead' = Max({0, ahead - 1})
  /\ at' = "idle" /\ batch' = <<>> /\ before' = Absent
  /\ UNCHANGED <<timer, closing, closeFailed>>

\* Mutant: the batch of a failed drain goes behind what came in meanwhile.
OpFailsReordered ==
  LET op == Head(chain) IN
  /\ Leaves(Tail(chain))
  /\ IF op.kind = "drain"
     THEN buffered' = buffered \o batch /\ paused' = TRUE /\ draining' = "failed" /\ seen' = 0
     ELSE UNCHANGED <<buffered, paused, draining, seen>>
  /\ life' = IF op.kind = "append" THEN "failed" ELSE life
  /\ flush' = IF op.kind = "header" THEN [flush EXCEPT ![op.who] = NotFlushing] ELSE flush
  /\ UNCHANGED <<unrouted, promised>>

\* A failed drain puts its batch back in front, where a close that has taken its
\* last look does not see it; a failed append fails the set-up; a failed header
\* write rejects the flush that asked for it.
OpFails ==
  LET op == Head(chain) IN
  /\ Leaves(Tail(chain))
  /\ IF op.kind = "drain"
     THEN buffered' = batch \o buffered /\ paused' = TRUE /\ draining' = "failed" /\ seen' = 0
     ELSE UNCHANGED <<buffered, paused, draining, seen>>
  /\ life' = IF op.kind = "append" THEN "failed" ELSE life
  /\ flush' = IF op.kind = "header" THEN [flush EXCEPT ![op.who] = NotFlushing] ELSE flush
  /\ UNCHANGED <<unrouted, promised>>

\* Mutant: the drain ends with the batch it took.
DrainSucceedsOnce ==
  /\ Leaves(Tail(chain)) /\ draining' = "spent"
  /\ UNCHANGED <<buffered, paused, life, unrouted, seen, flush, promised>>

\* A drain looks at its buffer again; the promise it keeps is its flushers'.
DrainSucceeds ==
  /\ IF buffered = <<>>
     THEN Leaves(Tail(chain)) /\ draining' = "spent"
     ELSE Leaves(Append(Tail(chain), Head(chain))) /\ UNCHANGED draining
  /\ UNCHANGED <<buffered, paused, life, unrouted, seen, flush, promised>>

\* The suffix is stored: the set-up goes on, or publishes the session, whatever
\* came into its log meanwhile.
AppendSucceeds ==
  /\ Leaves(Tail(chain))
  /\ promised' = Max({promised, Head(chain).upTo})
  /\ \/ UNCHANGED <<life, unrouted>>
     \/ /\ life = "setup" /\ closing = "no" /\ life' = "live"
        /\ unrouted' = Len(log) - Head(chain).upTo
  /\ UNCHANGED <<buffered, paused, draining, seen, flush>>

\* The events of the file that are not to be written again: without the records
\* that were recovered from a torn tail.
Base == state.cursor - Len(state.recovered)

\* A flush resolves on a log that is there, without writing a recovered tail.
Flushed(f) ==
  /\ Leaves(Tail(chain))
  /\ promised' = Max({promised, Base})
  /\ flush' = [flush EXCEPT ![f].at = "done",
                            ![f].excuse = IF state.recovered # <<>> THEN "tail" ELSE @]
  /\ UNCHANGED <<buffered, paused, draining, life, unrouted, seen>>

OpSucceeds ==
  /\ state' = [state EXCEPT !.cursor = @ + Len(batch), !.materialized = TRUE]
  /\ CASE Head(chain).kind = "drain"  -> DrainSucceeds
       [] Head(chain).kind = "append" -> AppendSucceeds
       [] Head(chain).kind = "header" -> Flushed(Head(chain).who)

(* ------------------------- The chain's turns --------------------------- *)

Starts(es) ==
  /\ at' = "lease" /\ batch' = es
  /\ UNCHANGED <<sessionVars, state, lease, timer, paused, draining, chain, before,
                 closeVars, flush, diskVars, promised, limitVars>>

NextIs(kind) == at = "idle" /\ chain # <<>> /\ Head(chain).kind = kind

\* A drain takes what is buffered when its turn comes.
TakeDrain ==
  /\ NextIs("drain")
  /\ Starts(buffered) /\ buffered' = <<>>

\* run() refuses, behind the chain, a handle whose close has begun.
TakeAppend ==
  /\ NextIs("append")
  /\ IF closing = "no"
     THEN Starts(SubSeq(log, state.cursor + 1, Head(chain).upTo)) /\ UNCHANGED buffered
     ELSE OpFails /\ UNCHANGED <<log, epoch, state, lease, diskVars, limitVars>>

TakeHeader ==
  /\ NextIs("header")
  /\ CASE closing # "no" ->
            OpFails /\ UNCHANGED <<log, epoch, state, lease, diskVars, limitVars>>
       [] closing = "no" /\ state.materialized ->
            Flushed(Head(chain).who) /\ UNCHANGED <<log, epoch, state, lease, diskVars, limitVars>>
       [] OTHER -> Starts(<<>>) /\ UNCHANGED buffered

Fault == faults < MaxFaults /\ faults' = faults + 1

\* The running operation goes on to its next await.
Goes(next) ==
  /\ at' = next
  /\ UNCHANGED <<life, unrouted, bufferVars, chain, batch, closeVars, flush, promised>>

\* Mutant: only the first write of a session takes the lock.
AcquireLeaseForHeader ==
  /\ at = "lease"
  /\ lease' = IF lease = "none" /\ Head(chain).kind # "drain" THEN "held" ELSE lease
  /\ Goes(CASE state.torn # NoTear  -> "truncate"
            [] state.materialized /\ state.torn = NoTear -> "write"
            [] OTHER                -> "link")
  /\ UNCHANGED <<log, epoch, state, before, diskVars, faults, crashes>>

\* ensureLease keeps the lease it has, a released one included; then the batch
\* must continue the stored log.
AcquireLease ==
  /\ at = "lease"
  /\ \/ /\ lease' = IF lease = "none" THEN "held" ELSE lease
        /\ IF Continues(batch, state.cursor)
           THEN /\ Goes(CASE state.torn # NoTear -> "truncate"
                          [] state.torn = NoTear /\ state.materialized -> "write"
                          [] OTHER -> "link")
                /\ UNCHANGED before
           ELSE OpFails
        /\ UNCHANGED faults
     \/ lease = "none" /\ Fault /\ OpFails /\ UNCHANGED lease
  /\ UNCHANGED <<log, epoch, state, diskVars, crashes>>

\* Mutant: the torn tail is forgotten, not removed.
TruncateNothing ==
  /\ at = "truncate"
  /\ state' = [state EXCEPT !.torn = NoTear]
  /\ Goes("write")
  /\ UNCHANGED <<before, faults, log, epoch, lease, diskVars, crashes>>

\* The torn bytes go before anything is added.  The truncation, its fsync and
\* the close behind it may each fail: then it is done once more.
TruncateTail ==
  LET cut == [file EXCEPT !.frames = SubSeq(@, 1, state.torn)] IN
  /\ at = "truncate"
  /\ \/ /\ file' = cut /\ durable' = cut
        /\ state' = [state EXCEPT !.torn = NoTear]
        /\ Goes("write") /\ UNCHANGED <<before, faults>>
     \/ /\ Fault /\ OpFails
        /\ \/ UNCHANGED <<file, durable>>
           \/ file' = cut /\ durable' \in {durable, cut}
        /\ UNCHANGED state
  /\ UNCHANGED <<log, epoch, lease, residue, crashes>>

\* Records recovered from the torn tail are written again first.
Payload == IF state.recovered # <<>> THEN state.recovered ELSE batch

\* What a failed append left is buried when the next one writes behind it.
WriteBatch ==
  /\ at = "write"
  /\ before' = file
  /\ residue' = IF residue = "left" THEN "buried" ELSE residue
  /\ \/ /\ file' = [file EXCEPT !.frames = @ \o Encode(Payload)]
        /\ Goes("sync") /\ UNCHANGED faults
     \/ /\ Fault /\ Goes("rollback")
        /\ \E p \in Partials(Encode(Payload)) : file' = [file EXCEPT !.frames = @ \o p]
  /\ UNCHANGED <<log, epoch, state, lease, durable, crashes>>

Remains == IF residue = "buried" THEN "buried" ELSE "left"

\* Mutant: the records of the recovered tail move the cursor once more.
SyncBatchCountsTail ==
  /\ at = "sync"
  /\ \/ /\ durable' = file
        /\ IF state.recovered # <<>>
           THEN /\ state' = [state EXCEPT !.recovered = <<>>, !.cursor = @ + Len(state.recovered)]
                /\ Goes("write") /\ UNCHANGED before
           ELSE OpSucceeds
        /\ UNCHANGED <<residue, faults>>
     \/ Fault /\ Goes("rollback") /\ UNCHANGED <<durable, residue, state, before>>
     \/ /\ Fault /\ durable' = file /\ residue' = Remains
        /\ OpFails /\ UNCHANGED state
  /\ UNCHANGED <<log, epoch, lease, file, crashes>>

\* fsync; the recovered tail is followed by the batch itself.  When the close of
\* the file fails after the fsync, the batch is stored and the operation fails.
SyncBatch ==
  /\ at = "sync"
  /\ \/ /\ durable' = file
        /\ IF state.recovered # <<>>
           THEN state' = [state EXCEPT !.recovered = <<>>] /\ Goes("write") /\ UNCHANGED before
           ELSE OpSucceeds
        /\ UNCHANGED <<residue, faults>>
     \/ Fault /\ Goes("rollback") /\ UNCHANGED <<durable, residue, state, before>>
     \/ /\ Fault /\ durable' = file /\ residue' = Remains
        /\ OpFails /\ UNCHANGED state
  /\ UNCHANGED <<log, epoch, lease, file, crashes>>

\* Mutant: the partial append is not cut off.
RollbackNothing ==
  /\ at = "rollback" /\ OpFails
  /\ UNCHANGED <<log, epoch, state, lease, diskVars, limitVars>>

\* The partial append is cut off and the operation rejects; the clean-up may fail
\* before it has cut anything off.  (A failure after the cut changes nothing here:
\* the operation rejects all the same.)
Rollback ==
  /\ at = "rollback" /\ OpFails
  /\ \/ file' = before /\ durable' = before /\ UNCHANGED <<residue, faults>>
     \/ /\ Fault /\ UNCHANGED <<file, durable>>
        /\ residue' = IF file = before THEN residue ELSE Remains
  /\ UNCHANGED <<log, epoch, state, lease, crashes>>

\* The first batch is written beside the log and linked into place, never over
\* a log that is there.
LinkLog ==
  /\ at = "link"
  /\ \/ /\ ~file.there
        /\ file' = [there |-> TRUE, frames |-> IF batch = <<>> THEN <<>> ELSE Encode(batch)]
        /\ Goes("dirsync") /\ UNCHANGED <<faults, before>>
     \/ file.there /\ OpFails /\ UNCHANGED <<file, faults>>
     \/ Fault /\ OpFails /\ UNCHANGED file
  /\ UNCHANGED <<log, epoch, state, lease, durable, residue, crashes>>

SyncDirectory ==
  /\ at = "dirsync"
  /\ \/ durable' = file /\ OpSucceeds /\ UNCHANGED faults
     \/ Fault /\ OpFails /\ durable' \in {durable, file} /\ UNCHANGED state
  /\ UNCHANGED <<log, epoch, lease, file, residue, crashes>>

Turn ==
  \/ TakeDrain \/ TakeAppend \/ TakeHeader \/ AcquireLease \/ TruncateTail
  \/ WriteBatch \/ SyncBatch \/ Rollback \/ LinkLog \/ SyncDirectory

(* --------------------- The write-behind buffer ------------------------ *)

\* drainLive: join the drain that is under way, or start one.  A drain that
\* finds nothing ends at once, but its promise is cleared only later.
DrainLive ==
  IF draining = "none"
  THEN /\ timer' = FALSE /\ paused' = FALSE
       /\ IF buffered = <<>>
          THEN draining' = "spent" /\ UNCHANGED chain
          ELSE draining' = "queued" /\ chain' = Append(chain, Op("drain", 0, "drain"))
  ELSE UNCHANGED <<timer, paused, draining, chain>>

\* Mutant: the window is not opened again while a drain is writing.
LiveAppendUnarmed ==
  LET e == [seq |-> Len(log) + 1, epoch |-> epoch] IN
  /\ life = "live" /\ closing # "closed" /\ Len(log) < MaxEvents
  /\ log' = Append(log, e)
  /\ buffered' = Append(buffered, e)
  /\ timer' = (timer \/ (~paused /\ draining = "none"))
  /\ UNCHANGED <<epoch, life, unrouted, state, lease, paused, draining, chain, opVars,
                 closeVars, flush, diskVars, promised, limitVars>>

\* session/event routes a published event to enqueueLive, as long as the handle
\* is registered; it arms the timer unless it is armed or the last drain failed.
LiveAppend ==
  LET e == [seq |-> Len(log) + 1, epoch |-> epoch] IN
  /\ life = "live" /\ closing # "closed" /\ Len(log) < MaxEvents
  /\ log' = Append(log, e)
  /\ buffered' = Append(buffered, e)
  /\ timer' = (timer \/ ~paused)
  /\ UNCHANGED <<epoch, life, unrouted, state, lease, paused, draining, chain, opVars,
                 closeVars, flush, diskVars, promised, limitVars>>

\* The batching window ends.  A timer is a task of its own: it never falls
\* between a drain's end and the clearing of its promise.
TimerFires ==
  /\ timer /\ draining \notin {"spent", "failed"}
  /\ IF draining = "none" THEN DrainLive
     ELSE timer' = FALSE /\ UNCHANGED <<paused, draining, chain>>
  /\ UNCHANGED <<sessionVars, state, lease, buffered, opVars, closeVars, flush, diskVars,
                 promised, limitVars>>

\* The events of a running drain, and the last event the handle has been given.
Taken  == IF at # "idle" /\ Head(chain).kind = "drain" THEN batch ELSE <<>>
Handed == IF Taken \o buffered = <<>> THEN state.cursor ELSE Len(log)

\* session/flush, or the service's flush of every writer, which reaches a
\* session before it is published too: drain, then the header barrier.  A drain
\* that has seen its buffer empty is joined like any other.
FlushCall(f) ==
  /\ life \in {"setup", "live"} /\ closing # "closed" /\ flush[f].at \in {"idle", "done"}
  /\ DrainLive
  /\ flush' = [flush EXCEPT ![f] =
                 [at |-> "drain", asked |-> Handed,
                  excuse |-> IF draining = "spent" /\ buffered # <<>> THEN "late" ELSE "none"]]
  /\ UNCHANGED <<sessionVars, state, lease, buffered, opVars, closeVars, diskVars, promised,
                 limitVars>>

\* The drain's promise settles and is cleared: who waited for it goes on, or is
\* rejected with it.
DrainSettles ==
  /\ draining \in {"spent", "failed"}
  /\ draining' = "none"
  /\ flush' = [f \in Flushers |->
                 CASE flush[f].at # "drain" -> flush[f]
                   [] flush[f].at = "drain" /\ draining = "spent" -> [flush[f] EXCEPT !.at = "drained"]
                   [] OTHER -> NotFlushing]
  /\ IF closing = "drain"
     THEN /\ closing' = IF draining = "spent" THEN "chain" ELSE "settle"
          /\ closeFailed' = (draining = "failed")
          /\ ahead' = Len(chain) /\ UNCHANGED seen
     ELSE UNCHANGED closeVars
  /\ UNCHANGED <<sessionVars, state, lease, buffered, timer, paused, chain, opVars, diskVars,
                 promised, limitVars>>

\* After the drain, flush() queues the barrier, or finds the handle closing.
FlushBarrier(f) ==
  /\ flush[f].at = "drained"
  /\ IF closing = "no"
     THEN /\ chain' = Append(chain, Op("header", 0, f))
          /\ flush' = [flush EXCEPT ![f].at = "barrier"]
     ELSE /\ flush' = [flush EXCEPT ![f] = NotFlushing] /\ UNCHANGED chain
  /\ UNCHANGED <<sessionVars, state, lease, bufferVars, opVars, closeVars, diskVars, promised,
                 limitVars>>

(* ---------------------- The set-up of a session ------------------------ *)

Storing == \E i \in DOMAIN chain : chain[i].kind = "append"

\* Before publication an event is not routed; it waits for the suffix append.
SetupAppend ==
  /\ life = "setup" /\ Len(log) < MaxEvents
  /\ log' = Append(log, [seq |-> Len(log) + 1, epoch |-> epoch])
  /\ UNCHANGED <<epoch, life, unrouted, state, lease, bufferVars, chain, opVars, closeVars, flush,
                 diskVars, promised, limitVars>>

\* appendUnstoredSuffix: with nothing to store, the session is published.
StoreSuffix ==
  /\ life = "setup" /\ closing = "no" /\ ~Storing
  /\ IF state.cursor < Len(log)
     THEN chain' = Append(chain, Op("append", Len(log), "setup")) /\ UNCHANGED life
     ELSE life' = "live" /\ UNCHANGED chain
  /\ UNCHANGED <<log, epoch, unrouted, state, lease, bufferVars, opVars, closeVars, flush,
                 diskVars, promised, limitVars>>

(* ----------------------------- Closing -------------------------------- *)

BeginClose ==
  /\ life # "down" /\ closing = "no"
  /\ closing' = "drain" /\ DrainLive
  /\ UNCHANGED <<sessionVars, state, lease, buffered, opVars, ahead, closeFailed, seen,
                 flush, diskVars, promised, limitVars>>

\* Mutant: one drain is enough.
CloseLoopOnce ==
  /\ closing = "chain" /\ ahead = 0
  /\ closing' = "settle" /\ ahead' = Len(chain)
  /\ seen' = IF Taken = <<>> THEN Base ELSE Len(log)
  /\ UNCHANGED <<sessionVars, state, lease, bufferVars, chain, opVars, closeFailed, flush,
                 diskVars, promised, limitVars>>

\* Drain again until a pass leaves the buffer empty.
CloseLoop ==
  /\ closing = "chain" /\ ahead = 0
  /\ IF buffered = <<>>
     THEN /\ closing' = "settle" /\ ahead' = Len(chain)
          /\ seen' = IF Taken = <<>> THEN Base ELSE Len(log)
          /\ UNCHANGED <<timer, paused, draining, chain>>
     ELSE closing' = "drain" /\ UNCHANGED <<ahead, seen>> /\ DrainLive
  /\ UNCHANGED <<sessionVars, state, lease, buffered, opVars, closeFailed, flush, diskVars,
                 promised, limitVars>>

\* The lock goes even if giving it up reports an error.
ReleaseLease ==
  /\ closing = "settle" /\ ahead = 0
  /\ closing' = "release"
  /\ lease' = IF lease = "held" THEN "released" ELSE lease
  /\ \/ UNCHANGED <<closeFailed, faults>>
     \/ lease = "held" /\ Fault /\ closeFailed' = TRUE
  /\ UNCHANGED <<sessionVars, state, bufferVars, chain, opVars, ahead, seen, flush, diskVars,
                 promised, crashes>>

\* Mutant: a close that failed does not give the session free.
ReleaseHandleUnlessFailed ==
  /\ closing = "release" /\ ~closeFailed /\ closing' = "closed"
  /\ UNCHANGED <<sessionVars, state, lease, bufferVars, chain, opVars, ahead, closeFailed,
                 seen, flush, diskVars, promised, limitVars>>

\* releaseHandle, whatever failed: events are routed here no longer.
ReleaseHandle ==
  /\ closing = "release" /\ closing' = "closed"
  /\ UNCHANGED <<sessionVars, state, lease, bufferVars, chain, opVars, ahead, closeFailed,
                 seen, flush, diskVars, promised, limitVars>>

CloseStep == CloseLoop \/ ReleaseLease \/ ReleaseHandle

(* ------------------------ Crash and reopening ------------------------- *)

\* The process, or the machine, dies.
Crash ==
  /\ life # "down" /\ crashes < MaxCrashes /\ crashes' = crashes + 1
  /\ \E s \in Survivors : file' = s /\ durable' = s /\ log' = Scan(s)
  /\ life' = "down" /\ unrouted' = 0
  /\ residue' = IF residue = "buried" THEN "buried" ELSE "none"
  /\ state' = Fresh(0) /\ lease' = "none"
  /\ buffered' = <<>> /\ timer' = FALSE /\ paused' = FALSE /\ draining' = "none"
  /\ chain' = <<>> /\ at' = "idle" /\ batch' = <<>> /\ before' = Absent
  /\ closing' = "no" /\ ahead' = 0 /\ closeFailed' = FALSE /\ seen' = 0
  /\ flush' = [f \in Flushers |-> NotFlushing]
  /\ UNCHANGED <<epoch, promised, faults>>

\* open(id, write) takes the lock and primes the handle from what it reads; a
\* session that never reached the disk may be created again.
Reopen ==
  LET fs == file.frames IN
  /\ life = "down" /\ ~Damaged(fs)
  /\ life' = "setup" /\ epoch' = epoch + 1
  /\ lease' = IF file.there THEN "held" ELSE "none"
  /\ state' = [cursor |-> Len(log), materialized |-> file.there,
               torn |-> IF Sound(fs) < Len(fs) THEN Sound(fs) ELSE NoTear,
               recovered |-> Recoverable(fs)]
  /\ UNCHANGED <<log, unrouted, bufferVars, chain, opVars, closeVars, flush, diskVars, promised,
                 limitVars>>

(* ----------------------------- The whole ------------------------------ *)

Init ==
  /\ log = <<>> /\ epoch = 1 /\ life = "setup" /\ unrouted = 0
  /\ state = Fresh(0) /\ lease = "none"
  /\ buffered = <<>> /\ timer = FALSE /\ paused = FALSE /\ draining = "none"
  /\ chain = <<>> /\ at = "idle" /\ batch = <<>> /\ before = Absent
  /\ closing = "no" /\ ahead = 0 /\ closeFailed = FALSE /\ seen = 0
  /\ flush = [f \in Flushers |-> NotFlushing]
  /\ file = Absent /\ durable = Absent /\ residue = "none" /\ promised = -1
  /\ faults = 0 /\ crashes = 0

Next ==
  \/ Turn \/ TimerFires \/ DrainSettles \/ CloseStep
  \/ \E f \in Flushers : FlushCall(f) \/ FlushBarrier(f)
  \/ SetupAppend \/ StoreSuffix \/ LiveAppend \/ BeginClose
  \/ Crash \/ Reopen

Spec == Init /\ [][Next]_vars

\* Promises continue, timers fire and file-system calls return.
FairSpec ==
  /\ Spec
  /\ WF_vars(Turn) /\ WF_vars(TimerFires) /\ WF_vars(DrainSettles) /\ WF_vars(CloseStep)
  /\ \A f \in Flushers : WF_vars(FlushBarrier(f))

(* ---------------------------- Properties ------------------------------ *)

TypeOK ==
  /\ log \in Seq(Event) /\ Len(log) <= MaxEvents
  /\ epoch \in 1..(MaxCrashes + 1)
  /\ life \in {"setup", "live", "failed", "down"} /\ unrouted \in 0..MaxEvents
  /\ state.cursor \in 0..MaxEvents /\ state.materialized \in BOOLEAN
  /\ state.torn \in {NoTear} \cup Nat /\ state.recovered \in Seq(Event)
  /\ lease \in {"none", "held", "released"}
  /\ buffered \in Seq(Event) /\ timer \in BOOLEAN /\ paused \in BOOLEAN
  /\ draining \in {"none", "queued", "spent", "failed"}
  /\ \A i \in DOMAIN chain : chain[i].kind \in {"drain", "append", "header"}
  /\ at \in {"idle"} \cup Awaits /\ (at # "idle" => chain # <<>>)
  /\ batch \in Seq(Event)
  /\ closing \in Phases /\ ahead \in Nat /\ closeFailed \in BOOLEAN /\ seen \in 0..MaxEvents
  /\ \A f \in Flushers : /\ flush[f].at \in {"idle", "drain", "drained", "barrier", "done"}
                         /\ flush[f].asked \in 0..MaxEvents
                         /\ flush[f].excuse \in {"none", "late", "tail"}
  /\ {file, durable, before} \subseteq [there : BOOLEAN, frames : Seq([events : Seq(Event), whole : BOOLEAN])]
  /\ residue \in {"none", "left", "buried"}
  /\ promised \in -1..MaxEvents
  /\ faults \in 0..MaxFaults /\ crashes \in 0..MaxCrashes

\* Whatever a crash leaves of the file, a reader finds every event that was
\* stored for somebody who was told so, and a flushed session exists; unless an
\* append was written behind what a failed one had left in the file.
PromisedSurvives ==
  residue # "buried" =>
    \A s \in Survivors :
       promised >= 0 => s.there /\ IsPrefix(SubSeq(log, 1, promised), Scan(s))

\* What the handle was given and has not stored is, in order, the batch of the
\* drain that is running and the buffer: a failed write loses, doubles and
\* reorders nothing of it.  And between two operations the synced file is what
\* the cursor says, unless a failed append has left something in it.
LogConserved ==
  /\ life = "live" => Taken \o buffered = SubSeq(log, state.cursor + unrouted + 1, Len(log))
  /\ at = "idle" /\ residue = "none" /\ state.materialized /\ state.torn = NoTear /\ state.recovered = <<>>
       => /\ durable = file /\ Scan(file) = SubSeq(log, 1, state.cursor)
          /\ \A i \in DOMAIN file.frames : file.frames[i].whole

\* Nothing touches the log file without the lock, except for events that came
\* after close had looked at the buffer for the last time; and what that look
\* found stored is on stable storage when the handle is gone.
Writing == at \in Awaits \ {"lease"}
LockOutlivesWrites ==
  /\ Writing /\ lease # "held"
       => closing \in {"release", "closed"} /\ \A i \in DOMAIN batch : batch[i].seq > seen
  /\ closing = "closed" /\ residue # "buried" => IsPrefix(SubSeq(log, 1, seen), Scan(durable))

\* A flush that resolves has made durable every event the handle had been given
\* when it was called; unless it joined a drain that had finished, or the events
\* recovered from a torn tail were still to be written again.
FlushCovers ==
  \A f \in Flushers :
     flush[f].at = "done" => flush[f].asked <= promised \/ flush[f].excuse # "none"

\* The contract of flush: when it resolves, no event it was called for is still
\* to be stored.
FlushDrains ==
  \A f \in Flushers : flush[f].at = "done" =>
     \A i \in DOMAIN (Taken \o buffered) : (Taken \o buffered)[i].seq > flush[f].asked

\* The contract of flush for a session that was opened again: when it resolves,
\* every event that was read back from the log survives another crash.
ReadBackSurvives ==
  \A f \in Flushers, s \in Survivors : flush[f].at = "done" =>
     \A i \in 1..flush[f].asked :
        log[i].epoch < epoch => i <= Len(Scan(s)) /\ Scan(s)[i] = log[i]

\* An event appended during the set-up's last write is stored by a later one.
SuffixStored ==
  life = "live" => Taken \o buffered = SubSeq(log, state.cursor + 1, Len(log))

\* The first batch of a session never meets a log file that is already there.
MaterializeFindsNoLog == at = "link" => ~file.there

\* The handle is a durable log: it never takes back what it promised.
Durable == INSTANCE DurableLog WITH buried <- residue = "buried"
ImplementsDurableLog == Durable!Spec

\* A flush is answered and a close ends, whatever fails under them and whatever
\* drain they joined; and a published event reaches stable storage without
\* anybody asking for it, unless a write failed or an event before it was never
\* given to the handle.
EverythingSettles ==
  /\ \A f \in Flushers : flush[f].at \notin {"idle", "done"} ~> flush[f].at \in {"idle", "done"}
  /\ closing # "no" ~> closing \in {"closed", "no"}
  /\ \A n \in 1..MaxEvents :
       life = "live" /\ Len(log) >= n
         ~> \/ life # "live" \/ paused \/ closeFailed \/ unrouted > 0 \/ residue = "buried"
            \/ Len(Scan(durable)) >= n
=============================================================================
