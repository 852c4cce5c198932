# TLA+ verification of the DSH SEP agent core

DSH SEP is a TypeScript harness that runs language-model agents.  An agent owns
one append-only session log; a driver turns queued messages into turns and
steps, streams a model request in each step, runs the tool calls the model asks
for, and records all of it in the log, which is the only thing that survives a
crash.  Everything else in the repository (tools, persistence, the remote API,
clients, the system enhancement package) is a plugin around that core.

This directory models the core and two of the recovery and accounting protocols
of the system enhancement package (SEP) in TLA+, checks the models with TLC on
small instances, and proves their safety properties with TLAPS for all instances.

## Inventory

| Component | State | Operations | Talks to | Hard behaviour |
|---|---|---|---|---|
| Agent driver (`core/agent-loop/src/agent.ts`) | phase (idle, maintenance, running with turn, step, abort controller, latch) | send, followup, steer, inject, cancel, runMaintenance, the driver coroutine kick/turn/preStep/step | inbox, log, plugins through awaited events, model, tools | callers interleave with every await; listeners call back on the same stack; cancel, wake and retire race |
| Inbox (`inbox.ts`) | two lists, projected from the log | splice, claim, clear, remove, replace | log (a splice is an event) | claimed input must not be lost, doubled or run after a cancel |
| Log rules (`core/session/src/invariant.ts`) | open turn and step, next numbers, pending calls | validateEvent, applyTransition | everything that appends | every writer must keep to them through failures |
| Session store (`core/session/src/index.ts`) | events, projections, observers | append, flush, prepare, enter | all | appends do not nest; observers are contained |
| Tool scheduler (`tool-calls.ts`) | pool of dispatches, slots, committed prefix | executeToolCalls, runGroup | log, tool registry, inbox | completion order, barriers, aborts, failures while others run |
| Tool registry (`core/tools/src/index.ts`) | tools, per-call cancellation state | prepare, dispatch, finalize | wrappers, bodies | what an abort lets the model believe |
| Repair (`core/session/src/repair.ts`) | pending calls of the open step | ToolCallRecovery, openTurnClosers | log | failed steps, crashed processes |
| JSONL persistence (`session/session-persistence-jsonl`) | file, write-behind buffer, mutation chain, torn tail, lease | append, drainLive, flush, close, open | file system | crashes between write and sync, failed batches, two processes |
| Checkpoint policy (`session/session-checkpoint-policy`) | none | flush before a request, a tool body, a pre-step | persistence | a body must not run before its call is durable |
| Lifecycle (`core/agent-loop/src/index.ts`, `core/agent/src/index.ts`) | registry of agents and sessions, ownership | create, resume, publish, dispose | persistence, scopes | setup racing with disposal; identities freed exactly once |
| Owner lease (`sep/recovery/src/owner-lease.mjs`) | lease file, publication receipt, ledger | acquire, reconcile, release | SQLite lock, file system | a crash between any two steps of the publication |
| Budget ledger (`sep/system-enhancement-package/src/budget-ledger.js`, `budget-lock.js`) | reservations, phases, lock file | reserve, markDispatched, settle, release, reconcile | file system | charges of a process that died, stale locks |
| Jobs, schedule, goals, subagents | queues, timers | start, stop, notify | agents | long-running work |
| Compaction, LLM transport | content | transform, stream | driver | outcomes only |
| API, clients, hosts, tools, sandbox | views, side effects | many | driver | out of scope |

What makes each component correct:

* **Driver**: a cancel stops work and is never reported as success; a cancelled
  agent becomes idle and stays silent until it is woken; a wake accepted behind
  a dying activity is not lost; every path leaves the log balanced; a message is
  never lost track of or logged twice; the ceiling outcome is sticky.
* **Tool scheduler and registry**: results in model order, one for each call; the
  pool bound; exclusive calls alone; nothing started after an abort or a
  failure; the step closed only when its tools are quiet; what the model is told
  about a call that "never ran" is true.
* **Persistence, repair, checkpoints**: what was acknowledged survives; the
  buffer keeps every event in order through failed writes; a flush covers what it was
  called for; a repaired log is accepted and closed; a body never runs before its call is
  durable.
* **Lifecycle**: one live agent for an identity, under the write claim of its session; a
  failed set-up and a disposal leave nothing; a teardown ends although a backend hangs.
* **Lease and ledger**: one owner at a time, and the one the path names; a dead owner
  can be replaced; no charge is lost, doubled or released after it was dispatched;
  the limit holds; every call ends.

## Modules

| Module | Models | Notes |
|---|---|---|
| `SessionTrace` | `core/session/src/invariant.ts` | pure operators `Accepts` and `Advance` on the small trace the code validates with; every module that writes the log goes through them |
| `AgentLoop` | `agent.ts`, `inbox.ts` | one agent, its callers and listeners |
| `AgentLoop_proofs` | | its inductive invariant and theorems |
| `AnsweredStep` | | abstract: the results of a step's calls appear in order, once each, before the step closes |
| `ToolCalls` | `tool-calls.ts`, the staged pipeline of `core/tools/src/index.ts`, `ToolCallRecovery` | one step's calls; implements `AnsweredStep` |
| `ToolCalls_proofs` | | its inductive invariant and theorems, the refinement included |
| `DurableLog` | | abstract: a log that grows, and of which a crash takes back only what was not promised |
| `JsonlHandle` | `session-persistence-jsonl` `storage.ts` and the file mechanics of `index.ts`, `format.ts`; `appendUnstoredSuffix` of `core/agent-loop/src/index.ts` | one session's write handle through crashes; implements `DurableLog` |
| `JsonlHandle_proofs` | | what the file operators compute, its inductive invariant and theorems, the refinement included |
| `CrashRepair` | `core/session/src/repair.ts`, the seed of `fork.ts`, `resumeWith` of `core/agent-loop/src/index.ts`, the barriers of `session-checkpoint-policy` | a session across crashes: what the agent writes, what a crash takes back, how a resume or a fork closes the open turn |
| `CrashRepair_proofs` | | what the scan computes, its inductive invariant and theorems |
| `SequenceLaws` | | induction over the naturals, flattening and recursion along a sequence, for the proofs |
| `AgentLifecycle` | `core/agent-loop/src/index.ts`, the registry of `core/agent/src/index.ts`, the write claims of `session-persistence-jsonl` | the attempts to bring an agent to life under one identity, and their disposal |
| `AgentLifecycle_proofs` | | its inductive invariant and theorems |
| `OwnerLease` | `sep/recovery/src/owner-lease.mjs` | contenders for one owner file, older writers, deaths and failures between any two steps |
| `OwnerLease_proofs` | | its inductive invariant and theorems |
| `ChargeBook` | | abstract: one book of charges against one limit, changed a row at a time |
| `BudgetLedger` | `sep/system-enhancement-package/src` `budget-ledger.js`, `budget-lock.js`, `budget-continuity.js`, and the `llm/stream` handler of `p1.js` | requests that charge one ledger file under its locks; implements `ChargeBook` |
| `BudgetLedger_proofs` | | its inductive invariant and theorems, the refinement included |
| `MCAgentLoop`, `MCToolCalls`, `MCJsonlHandle`, `MCCrashRepair`, `MCAgentLifecycle`, `MCOwnerLease`, `MCBudgetLedger` | | instances for TLC |

How they compose: every module that writes the log (`AgentLoop`, `ToolCalls`,
`CrashRepair`) appends through `SessionTrace`; `AgentLoop` chooses the outcome of a
step's tools, of which `ToolCalls` has the detail; `CrashRepair` reduces both to
what they write, adds the checkpoints between them, and loses in a crash what
`DurableLog`, which `JsonlHandle` implements, allows a log to lose.  `AgentLifecycle`
is what surrounds them: it has the repair and the storing of the set-up's events as a
step each, a live agent's driver only as what a disposal waits for, and says who may
hold the handle that `JsonlHandle` details.

Operators whose comment starts with "Mutant:" are wrong on purpose: each is a
plausible bug of the definition it precedes, and no other definition uses it.
They document what the properties are able to catch.

### AgentLoop

The code is single-threaded: between two awaits it runs alone, and the
interleaving that matters is at the awaits and in the listeners it calls
synchronously.  `pc` is the driver's position.  Most positions are awaits
(`preStep`, `streaming`, `retryAsk`, `tools`, `stopping`); the positions in
`Sync` are points *inside* a synchronous event, where only listeners may act
before the driver goes on.  An awaited function of the driver itself has returned one
microtask before its caller resumes, and another caller may run in between; where the
caller does not look at the signal again the gap is a position of its own: `rejected`,
`emptied` and `entered` (`Answered`) lie between the last check of preStep() (agent.ts:283)
and the resumption of turn() (:316), `configured` between that of prepareRequest() (:594)
and step()'s appends.  A cancel that falls there is seen by `OpenStep` and `Launch`, while
`CloseRejected` and `CloseEmptied` close the turn as they would have without it.  The gap
between step()'s return and step/end is merged: turn() appends the same event in either
order and looks at the signal right after it.  In `Appending` (inside an append to the log) the log
refuses nested appends, so a listener may cancel or wake but not queue a message;
in `Notifying` (inside agent/status or agent/error) it may do both.
`frame` is the one caller, or retirement, that is suspended inside its own
listeners: `SendBegin`/`SendEnd`, `CancelBegin`/`CancelEnd`, `Retire`/`RetireEnd`
split a call at its notification so that re-entrant calls fall in between;
`SendReentrant` and `CancelReentrant` are those calls.  Calls nested deeper than
one level are left out.  `Propose` and `ClearInbox` are two splices in the code
(inbox.ts:110-111, :99-100), each announced to the observers of its append; the second
follows whatever those do, the log refuses every change of a list from inside them, and a
cancel that keeps the inbox has the same effect before or after the pair.

The variables after the log (`sent`, `spent`, `copies`, `quiet`, `owed`,
`ceiling`) are history: no guard of an operation reads
them, the properties do.  `quiet` starts when a cancel that silences the agent returns
(`Silences`: of a busy agent, that the driver is still going to look at) and ends with the
next waking send; `owed` starts when a wake is
latched over pending input and ends when a turn opens, or a cancel or a removal
takes it back.

`Faults` lets plugins, the request and the tools throw.  `MaxCancels`,
`MaxSteps`, `MaxAttempts` and `MaxMaintenance` bound otherwise unbounded
repetition; each appears in the guard of the action it bounds.

### ToolCalls

The scheduler is one coroutine whose `pc` names its await; the dispatches in
`inFlight` run beside it, and the signal may fire at any await (`Awaits`), never
between two awaits (`Sync`).  The preparation of a call is two actions: in `PrepareAnswers`
the registry looks at the signal for the last time (core/tools index.ts:1532) and answers,
in `Prepared` the scheduler resumes and looks at the failure only (tool-calls.ts:171), so a
call that was cleared is dispatched although the signal has fired since; the registry then
keeps its body from starting (`AskBody`).  The corresponding gaps behind a dispatch and a
post-execute stage are merged with the resumption: the continuation stores or commits the
answer it was given whatever happened meanwhile.  Each dispatch is a wrapper around a body: the
wrapper may veto, may return an outcome of its own, and may ask for the body
again, up to `MaxTries` times.  `failed` is `schedulerFailure`; it is looked at
only where the code calls `throwSchedulerFailure`.  The execution mode of a call
is chosen anew each time the code reads it, because the registry may change
while a pool runs.  `disowned` holds the calls whose result in the log says that
they never ran.

### JsonlHandle

One write handle of one session.  `life` is the session: `setup` until it is
published (its events are stored by `StoreSuffix`, not routed), `live` afterwards
(`LiveAppend` routes each event into `buffered`), `down` after a crash until
`Reopen`.  `chain` is the promise chain that serializes the mutations; its head
is running when `at` is not `idle`, and `at` names the file-system call it
awaits: the lease, the truncation of a torn tail, write, fsync and rollback of an
append, or the link and directory fsync of the first batch.  Every one of them may fail
(`Fault`), the clean-up of a failed append too (`Rollback`), and the close of a file behind a
successful fsync (`SyncBatch`).  What a failed append could not take back is the `residue`
of the file: `left` at its end, and `buried` once another append has been written behind
it.  `draining` is the single-flight drain: `spent` or `failed` is the
moment between its end and the clearing of its promise.  `closing` follows
`close()`, `ahead` counts the operations it waits for, and `seen` is how much of the log
was stored, or being stored, when it looked at the buffer for the last time.

The file is a list of frames.  A batch is one frame when the log is compressed
and one frame for each event when it is plain lines; a write may be cut off
anywhere (`Partials`), and `Scan` is what the reader makes of the result, records
recovered from a torn compressed frame included.  `durable` is what the last
successful fsync made safe; `Survivors` are the files a power failure may leave, or the
death of the process, which loses nothing that was written.
`promised` is the length of the log that some resolved flush, or append, answers
for: the seam promises this for flushes only, this backend writes each batch
before the append resolves, so the model holds it to both.  `flush` remembers, for each
caller, how many events the handle had been given when it called (`asked`) and what kept
the answer from covering them (`excuse`): it joined a drain that had finished (`late`), or
found records recovered from a torn tail that were not written again yet (`tail`).
`unrouted` counts the events that came into the log while the set-up's last suffix was
being stored.

Publishers, flushes and closes are not restricted: an event may be published until the
handle is released, a flush may be called in the same turn of the event loop in which a
drain has just ended, and the set-up may append while its suffix is stored.  A handle that
is closed goes on existing until the process ends: a timer may still fire, and writes
without the lock, since `ensureLease` keeps the lease it has given up.  `Reopen` follows a
crash only, so two handles of one session in one process do not occur.

### CrashRepair

`log` and `durable` outlive the process, and so do its effects on the world:
`effects` are the calls whose body was started in any life, `sent` the steps whose
request reached the model.  The driver is reduced to what it writes and to the
flushes it waits for: `barrier` before a step's request is built and before it is
sent, `need[c]` before a body runs; a flush answers when `durable` has caught up.
`Persist` is a drain of the buffer of any length, `Crash` takes the log back to any
length not below `durable`.  `Resume` is the scan (`Observe`, one clause per event
the code's two visitors react to) and the append of `Closers`; the session goes live
when they are stored (`Repaired`), and a crash in between leaves any part of
them.  `ForkSeed` is the seed a fork at the log's end starts with.  A failed append
of the closers is a crash that leaves the log as it was.

### AgentLifecycle

An attempt is one call of `createAgent` or `resume`, or an agent of the configuration,
whose call (`restoreOrCreateConfigured`) waits until the identity is free, resumes it
and creates it when nothing is stored.  `pc` is where the attempt is, `io` its operation
in the backend, which runs on when the attempt no longer waits for it (`Abandon`,
`CloseAbandoned`), and `disp` its disposal: registered by `Prepare`, started by whoever
comes first (`Fail`, `Dispose`, `OwnerUnloads`, `FactoryUnloads`), run once in three
stages (`Quiet`, `HandleClosed`, `Detach`), each of which may fail and leaves the
attempt in `broken`.  `writer` is the process's write claim on the session: a claim
whose operation has not ended is in it too.  `session` and `agent` are the two
registries' entries, `told` what their listeners saw.  `stored` says that a log exists;
one may be there from an earlier run of the program.

Two incarnations of the factory share the registries and the backend: a reload starts the
second while the first is draining, which tests/config-session-id.spec.ts:160 of the
package has as a case.  `Aborted` is the fused signal of `prepare`, `OpenAborted` what an
open is raced with: for a creation the caller's signal only, for a resume the owner and
the factory too.

### OwnerLease

A process is one incarnation (the owner record holds its birth time, so a reused pid
is another process).  `lease` is the SQLite write transaction on `lease.sqlite`, which
the system rolls back when its holder dies; `target` is whose record the path
names, `whole` whether that record has been written, `stage` each process's staged
file and `receipt` the publication recorded in the ledger.  `Advance` is the sequence
of `acquireOwnerFile`, one file operation a step: reconcile the receipt of a dead
predecessor, retire its file, record the intent, stage, link, unstage, record the
publication, open and verify.  `Throw` fails any step; once there is a receipt the
clean-up (`DropTarget`, `DropStage`, `DropReceipt`) runs, and may itself fail.
`Inspect` is `inspectOwnerFile`, whose answer is `Verdict`.  Older writers create
the path exclusively, write it and remove it; only on Windows can their death be
told (`Stale`).

### BudgetLedger

A change of the ledger is a transaction of one writer: `at` is its place in it,
`base` the ledger it read, `fresh` its proof that nothing was ever accounted here
(the SQLite file and the lock file were missing when it looked, and it created the
former itself).  `guard` is the SQLite transaction, `lock` the lock file with its
metadata complete or not (`stamped`).  `client` is where the request of `p1.js` is:
reserve, mark dispatched, send, settle or mark unknown, and release in the clean-up.
`Applied` is what an operation writes, `Permitted` what it checks.  `Throw` fails a step, `Die`
kills a process, `Lose` moves the ledger away from outside.  `book` is the ledger as last
published, also after a loss; `sent` the requests the provider has been asked.

## Runs

| Run | Instance | Shows |
|---|---|---|
| `agent_loop` | 2 messages, 2 cancels, 2 steps, 1 retry, 1 maintenance, faults, under `FairSpec` | `LogAccepted`: no append the log refuses; `MessageConserved`: no message lost track of or logged twice; `LatchOnlyBehindDeadActivity`; `CancelStopsWork`; `EndReasonIsTrue`: how a turn ends is decided on a live signal; `CancelSilences`; `CancelConverges`; `LatchedWakeOpensTurn` |
| `tool_calls` | 3 calls, pool of 2, under `FairSpec` | `HonestAnswers`, `PoolSound`: the limit holds and exclusive calls run alone; `ClosedIsQuiet`, `NoLateWork`, `ImplementsAnsweredStep`; `StepCloses` |
| `retried_body` | 1 call, 2 tries | finding: `HonestAnswers` fails when a wrapper retries |
| `jsonl_handle` | compressed log, 2 events, 1 flusher, 2 faults, 2 crashes, under `FairSpec` | `LogConserved`: file, running batch and buffer are the log in order; `LockOutlivesWrites`: nothing is written without the lock but what came after a close's last look, and what that look saw is stored; `FlushCovers`: a flush answers for the events it was called for; `PromisedSurvives`, `ImplementsDurableLog`; `EverythingSettles`: flushes are answered, closes end, published events reach the disk |
| `materialize_retry` | compressed log, 1 fault | finding: `MaterializeFindsNoLog` fails |
| `stale_join` | plain lines, no faults | finding: `FlushDrains` fails |
| `late_setup` | plain lines, no faults | finding: `SuffixStored` fails |
| `recovered_tail` | compressed log, 1 crash | finding: `ReadBackSurvives` fails |
| `crash_repair` | 2 calls, 2 turns, 2 steps, 2 crashes | `RepairSound`: every repaired or forked log is accepted, closed and fully answered, and a repair cut short is continued; `ActsRemembered`: nothing that left the process is forgotten or disowned |
| `agent_lifecycle` | a creation and a resume through a factory, a configured agent through its successor, 1 cancel or owner unload, 1 failing step, under `FairSpec` | `IdentityHeld`: who works with the session holds its write claim, and a usable agent is the one both registries name; `NothingLeft`: what was rejected or disposed leaves nothing; `Settles` |
| `owner_lease` | 3 processes, 1 older writer, Windows, 2 faults, under `FairSpec` | `OwnerNamed`: one owner, the one the path names, and no inspection denies it; `StageAttributed`, `OwnFileOnly`; `TakeoverSucceeds` |
| `budget_ledger` | 2 requests, 1 older writer, limit 3, 2 faults, under `FairSpec` | `CapHeld`, `SentStaysCharged`, `ImplementsChargeBook`; `CallsEnd` |

Every passing run checks its module's type invariant too.

Why the bounds are enough.  Two messages give a queue with something before and
after the one that matters, both lists occupied, and a send racing a claim; two
cancels give a user cancel followed by a disposal, and a cancel of an activity
that is already aborted; two steps give a boundary with a decision on each side,
and the sticky outcome; one retry distinguishes the first attempt from the
second; one maintenance gives a latch behind each kind of activity.  Three calls with a pool of two
give a full pool, a refill, a barrier after a pool and a pool after a barrier.

In `JsonlHandle` two events give one stored or in the running batch and one behind it, or
two records in a frame that is torn between them; the findings have three.  One flusher
calls again and again, so that it joins a drain, comes after it or between its end and the
clearing of its promise, and closes and the timer join the same drains.  Two faults give a
failure and a failed clean-up or a failing retry of it; two crashes give a crash while the damage
of the first one is being repaired, and one behind a buried residue.  Plain lines are
instances of two findings and are covered by the theorems, which hold for either encoding.

In `CrashRepair` two turns of two steps give an event behind every kind of closed and open
bracket; two calls give one answered and one not, one started and one not; two crashes
give a crash in the repair of a crash.  In `AgentLifecycle` three attempts give one that is live, one
that meets it and one that waits for it or abandons its open; the two factories unload at
any time on top of the one cancel or owner that goes, and one failing step is enough for
each error path, the failing disposal of an attempt that the signal stopped included.
In `OwnerLease` three processes give a dead one, one
that takes over and one that inspects or contends meanwhile; two faults give a failed
publication and a failed clean-up of it.  In `BudgetLedger` one request reserves 2 and
the other writers 1 each against a limit of 3, so that two fit and three do not; the
quotes 1 and 3 are a usage below and one above the reservation; two faults give a failed
call and a failed clean-up, a death and a take-over that fails, or a lost ledger and a failure.

`CHECK_DEADLOCK FALSE` is set where the system may really stop: `AgentLoop` (an idle
agent whose callers have used up their bounds), `JsonlHandle` (a closed handle),
`CrashRepair` (a live session whose bounds are used up), `AgentLifecycle` (every attempt has
ended, and so have the factories), `OwnerLease` (everyone has
died) and `BudgetLedger` (every request has ended).  `ToolCalls` is checked for
deadlock; its end is the explicit `Terminated`.

### Fairness

`AgentLoop!FairSpec` is weakly fair to the driver and to the return of calls that
are suspended in their listeners: a resolved promise continues, synchronous
listeners return, and what the driver awaits settles, because plugins,
providers and tools are required to observe the signal they are given.  Callers
get no fairness: nobody has to send or cancel.  `ToolCalls!FairSpec` is weakly
fair to the scheduler and to each dispatch, for the same reason.  The abort gets none.
`JsonlHandle!FairSpec` is weakly fair to the chain (file-system calls return, with
a result or an error), to the timer, and to the continuations of drains, flushes
and a close that has begun.  `OwnerLease!FairSpec` is weakly fair to a call that has
started (its steps are file operations that return or throw) and strongly fair to a
contender's attempt: a caller that was refused tries again, and the lease is busy
during an inspection, so the attempt is not continuously enabled.  Processes need
not inspect, release or die.  `AgentLifecycle!FairSpec` is weakly fair to what goes on by
itself, as one action (`Progress`): no step of an attempt is ever repeated, so fairness to
all is fairness to each.  It covers file operations on a handle, listeners that were told
of the signal, a create in the backend, which is not raced with an unload, and the
teardowns; the opens of a resume, set-ups and callers may hang for ever.  `BudgetLedger!FairSpec` is weakly fair to the steps of
a change that has started; nothing makes a request start one.

### What the runs do not agree with

* **A retried body can be disowned** (`retried_body`).  A wrapper that calls
  `next()` a second time, after an abort, gets "aborted before dispatch" for a
  call whose body has run.
* **A first batch cannot be retried** (`materialize_retry`).  When the directory
  fsync after link() fails, the log is there but the handle does not know;
  every retry is refused as if the log were another session's.
* **A flush can resolve early** (`stale_join`).  The promise of a finished drain is
  cleared a microtask later; a flush that joins it in between covers nothing
  published since the drain saw its buffer empty.
* **Events appended during the last set-up write are lost** (`late_setup`).  The suffix is
  sliced before the await; what is appended meanwhile is in no batch, and publication
  does not look again.  Every later batch of the session is then refused as a gap.
* **A flush does not cover what was read back from a torn tail** (`recovered_tail`).  The
  handle counts the recovered records as stored and a flush returns at once; the next
  append truncates the torn frame before it writes them again, and a crash in between
  loses events that the session was resumed with and a flush was resolved for.

The passing run of `JsonlHandle` has all of these behaviours in it, and its properties say
what holds in spite of them: `LogConserved` speaks of the events the handle was given
(`unrouted` are not), `FlushCovers` names the two excuses, and `PromisedSurvives`,
`ImplementsDurableLog` and the end of `LockOutlivesWrites` end where a residue is buried.
Three more places where the code does less than its comments say are stated by those
properties rather than hidden from them:

* The comment of close() says that "backend teardown loses nothing regardless of which
  fiber unwinds first" (storage.ts:220-221).  After its last look at the buffer (:242) it still awaits
  the chain (:245) and the lock's release (:254); an event published then is accepted and
  close resolves without it.  `LockOutlivesWrites` promises what that look saw, `seen`, and no more.
* Such an event, or the batch of a close whose drain failed, is written later if a timer
  fires or a flush is under way: `ensureLease` (storage.ts:356) keeps the lease that was
  released, so the write happens without the lock.  `LockOutlivesWrites` allows it for
  events beyond `seen` and for no other.
* "Leaving partial bytes would create duplicate sequence numbers" (index.ts:1340), and a failed rollback
  (index.ts:1359-1364) leaves them: the cursor does not move, and the retry writes the batch
  behind them.  A compressed log that was torn there cannot be opened any more.

The timer that an event arms while a drain is writing is not stopped when that drain
fails, so the automatic path does not pause.

Seen while modelling the driver, and not kept as runs.  wakeDriver looks at the cause of
the current controller, and a controller keeps its first cause: after a user cancel, a
disposal of the same activity goes unseen and a later send still latches, although
the function's comment says disposal never does.  When the first pre-step of a turn
ends up with an empty batch, the turn completes without looking at the next-step
list, which a steer may have filled meanwhile.  Inside an observer of an append the log
refuses the inbox's own append, so a cancel of a non-empty queue throws before it
aborts.  A keepInbox cancel from an observer of turn/end is forgotten when the turn
goes on, because the driver takes a fresh controller, and any cancel is forgotten that
falls between the preStep() which found nothing more for a finished turn and turn()'s
resumption when input arrives after it: the loop is left without a look at the signal
(agent.ts:321) and the next turn has a new one, which works on that input and on what the
cancel kept (`Silences` excludes both; two messages do not reach the harm of the second,
the theorem covers it for any number).  A
cancel in the same gap also lets a turn close as blocked or completed (agent.ts:317-327),
although the notes say that "The loop checks interruption before and after awaited
boundaries" (.agents/notes/implemented/architecture/2026-07-16-explicit-turn-cancellation.md:29);
`EndReasonIsTrue` therefore asks for a live signal where the driver decides and not where
it closes.  A cancel between prepareRequest()'s last check and step()'s resumption commits
the prompt and the claimed messages before the stream is refused, although "cancellation
during either commits neither" (core/agent-loop/README.md:119).
Messages claimed by a step that is then aborted or rejected are dropped, which the
contract says; `spent` accounts for them.

Seen while modelling the lifecycle.  An owner that unloads while a disposal is in
progress does not wait for it (core/agent-loop/src/index.ts:582): its fiber is gone, and
with it the agent's scope, while the teardown still drains the driver, although the
comments say that every racing owner awaits one quiescence (:523) and that the owner's
disposal owns the same boundary (:580).  The factory's teardown is a `Promise.all` (:143),
which the first failing disposal ends while the others are still running; `broken` has
it, and `NothingLeft` promises nothing of the factory then.  A configured agent waits for
a healthy occupant of its identity just as for one that drains, although the
comment calls that a collision the create or resume surfaces (:452); `Settles` therefore
speaks of draining occupants only.  A creation's open is raced with its caller only, a
resume's with owner and factory too, so a backend that never answers a create pins the
factory's teardown.

Seen while modelling the budget ledger.  A lock file whose metadata is incomplete refuses
every later change until someone removes it, and a process that dies before the first
ledger is published leaves history without a ledger, which blocks the next: both are
intended, and tests say so.  When two processes initialize the same
directory at once and the one that did not create the SQLite file wins its
transaction, it is refused with BUDGET_LEDGER_MISSING although nothing was lost
(`CreateGuard`, then `Load` of the other), which the test "parallel processes
initialize once and retain one shared spending authority" (tests/budget-continuity.test.mjs)
does not expect.  A change that was published and whose release then fails rejects: a
mark that failed this way can no longer be released, and a reservation stays in the book.
In both the charge errs on the side of the limit, which `CapHeld` and
`SentStaysCharged` confirm.

## Proofs

Each proof module has one inductive invariant `IInv`, a conjunction of named parts, and a
lemma for each part that every step preserves it, with one step per action.  The
theorems assume nothing but the named assumptions on the constants, except that
`HonestAnswers` is proved for one try and `CapHeld` for finitely many writers; every safety invariant, every action property and every
refinement that a passing run checks is stated by one of them.

`AgentLoop_proofs` proves, for any set of messages and any bounds,

    Spec => []IInv,   IInv == TypeOK /\ PhaseInv /\ LogInv /\ LatchInv
                                 /\ SilenceInv /\ CeilingInv

from `BoundsAssumption`, that the bounds are natural numbers.  None of the properties is
inductive alone:

* `LogAccepted` needs `LogInv`, which says what the log's trace is at each
  position of the driver (`Between` turns, `InTurn`, `InStep`), so that each append
  is seen to be the one the rules expect; that needs `TypeOK` and, for callers
  acting on the phase, `PhaseInv`.
* `LatchOnlyBehindDeadActivity` needs to know that a send that classified itself
  as "after an abort" finds the same aborted activity when its listeners
  return: the second conjunct of `LatchInv`.
* `CancelSilences` needs `SilenceInv`: while the agent is to be silent there is no
  latch, no send about to latch, and no running driver that is not aborted,
  except one that has just closed its last turn with nothing pending.
* `EndReasonIsTrue` needs `CeilingInv`, which fixes the possible endings of a turn
  that is still open, one for each of the positions at which it has been decided.
* `MessageConserved` needs `PlaceInv`, beside `IInv`: for each message, that it is
  in no list twice, in one place only, and in one exactly when it was sent
  (`Placed`), and that the claimed batch is still to be logged until the first
  attempt has logged it (`BatchInv`).  Counting comes last (`PlacedCounts`): the
  lemmas before it say what a claim, a drop, a removal or a replacement does to the
  places of one message.

Every part is split along the actions of the driver (`TurnSteps`, `RequestSteps`,
`BoundarySteps`), the returns of suspended calls (`Unwind`) and the callers
(`Callers`).  The action properties follow from a lemma about one step from a state of
`IInv`.

`ToolCalls_proofs` proves, for any number of calls, any pool limit and any number of
tries, that the scheduler implements `AnsweredStep`, and `TypeOK`, `PoolSound`,
`ClosedIsQuiet` and `NoLateWork`.  `PlaceInv` says which calls the
coroutine's place lets be in flight, `PoolInv` bounds the pool and keeps an exclusive
call alone, `CallInv` follows a call through its stages and ties the settled
outcomes to the slots, `LogInv` says which results the log holds at each place, so that the
next answer is the one the step waits for.  `HonestAnswers` is proved for
`MaxTries = 1`, with `HonestInv` on top; `retried_body` shows that it fails beyond.

`JsonlHandle_proofs` proves, for any flushers, any number of events, faults and crashes
and either encoding of the log, that the handle implements `DurableLog`, and `TypeOK`,
`LogConserved`, `FlushCovers`, `PromisedSurvives` and `LockOutlivesWrites`, from
`BoundsAssumption` alone: publishers, flushes, set-up and close may come at any time and
every clean-up may fail.  First it shows what the file operators compute:
what `Scan` makes of a file whose frames are whole but for the last, and that a cut of
such a file leaves one with a first part of its events.  The invariant is

    IInv == Types /\ LogInv /\ ChainInv /\ BatchInv /\ DrainInv /\ DiskInv
              /\ FlushInv /\ LeaseInv /\ SeenInv

`ChainInv` says whose operations the chain holds, each once; `BatchInv` that the stored
part of the log, what was never routed, the running batch and the buffer follow one
another, and that a batch behind events that were never routed goes no further than the
contiguity check; `DrainInv` that a drain is never for nothing.  `DiskInv` is `FileInv`,
which holds whatever is in the file, and, unless a residue is buried, `Sane`: what the file and its
durable part hold at each await, which is where a failed write, a rollback, its failure
(`LeftOver`) and a torn tail come in.  `FlushInv` says that a flush without an excuse finds
its events stored when its drain has ended; `LeaseInv` that nothing writes that has not
taken the lock first, and that only a close gives it up; `SeenInv` that what a close saw at its last look is
stored, or in the drain that it still waits for.  A reopened file with a
buried residue satisfies `FileInv` only, and `DurableLog` has `Bury` for the step from which its
crashes may lose anything.

`CrashRepair_proofs` proves, for any calls and any number of turns, steps and crashes,
`TypeOK`, `RepairSound` and `ActsRemembered`.  The invariant about the log speaks of every
prefix (`LogInv`): validation accepts it, repair reads the same open turn and step from
it, what repair has pending is what was asked for and not answered, in order,
and a call is marked as started when its `tool/call` is there.  Since a crash leaves a prefix,
crashes and cut repairs need no case of their own.  An event appended to a good log makes a
good log when validation accepts it and it is the next answer, or no answer; the closers are a
series of such events, which gives `RepairSound` by induction along them.  `DriverInv` ties the
driver's place to the position in the log, and `ActsInv` says that what left the
process was durable when it left, and that no result disowns it.

`AgentLifecycle_proofs` proves, for any attempts, any factories and any number of signals
and faults, `TypeOK`, `IdentityHeld` and `NothingLeft`.  `PlaceInv` says what an
attempt's place implies for its operation in the backend and for its disposal (so that
who is on the way or unwinds has its handle, and who is rejected has none), `ClaimInv`
that the claim belongs to the attempt whose operation has taken it, `ReadyInv` that a
disposal which has not begun has its owner and its factory, `EntryInv` that both
registries name an attempt from its publication to the end of its disposal, and `DrainInv`
that nothing starts in a factory that is down.

`OwnerLease_proofs` proves, for any processes, older writers and number of faults and on
either platform, `TypeOK`, `OwnerNamed`, `StageAttributed` and `OwnFileOnly`.  `LeaseInv` says that only the holder of the lease is on the way,
`TargetInv` that the path names a process from its link to its removal, and `StageInv`
that a stage has its receipt from before its creation until after its removal.

`BudgetLedger_proofs` proves, for any requests, older writers, reservations, limit and
number of faults, that the ledger implements `ChargeBook`, and `TypeOK` and
`SentStaysCharged`.  `LockInv` says that between the lock's creation and its
release its owner is alone in the transaction; `FreshInv` that a writer with the proof of
a first use meets an empty book; `BookInv` that what a writer read is still the book when it
publishes; `ClientInv` which rows a request's place allows.  The argument uses the lock
file alone: the SQLite transaction adds nothing to safety.  `CapHeld` is proved for finitely
many writers: then the library's fold over their charges is a sum (`TotalIsAdditive`), because
it counts, whatever order it chooses, as many cells as each charge amounts to; and one row's change
changes the account by as much as its charge.

The library states induction with an operator parameter, which the provers cannot
instantiate.  `SequenceLaws!NatSetInduction` says the same of a set that holds 0 and
the successors of its naturals, and the recursive definitions (`FlattenSeq`, the scan and the
trace of a log, the fold over the charges) are treated with it: a function that obeys the
recursion exists, so the one the definition chooses obeys it.

Model-checked only: the liveness properties (`CancelConverges`, `LatchedWakeOpensTurn`,
`StepCloses`, `EverythingSettles`, `Settles`, `TakeoverSucceeds`, `CallsEnd`), which rest on
fairness and so on ENABLED, outside the prover's reach.  The excuses and exemptions in the properties are there because
the code does what they exempt: see "What the runs do not agree with".

## Not modelled

* **Driver**: failing appends of step/end and turn/end; notifications nested deeper than
  one; `whenIdle`; a throwing observer's effect on a batch; the contents of messages,
  requests, tool results and contexts; `concluded` of the tool calls
  (AgentLoop's `ToolsReturn` chooses it); the invocation of nested tools.
* **Persistence**: the failure of a rollback behind its truncation, which leaves the file as
  a successful one does but for its fsync; the reopening of a compressed log with a buried
  residue, which the reader refuses; reads of a live write handle, read handles, listing, the migration of
  old log generations, Windows paths and the lock file's inode checks.
* **Repair**: the wording of the results.  A fork at an earlier event starts from a prefix of
  the log, which is itself a log that the run reaches.
* **Agent lifecycle**: the microtask between an owner's unload and the disposers it runs
  (`OwnerUnloads` is one step); sessions without a backend, presets and their handoff, listeners that
  dispose the agent they are told of from inside the announcement, other users of the
  registries, and the lock of another process on the session's log.
* **Owner lease**: power failures that reorder directory entries, a reused pid of an older
  writer, path and record checks, the recovery controller's commands.
* **Budget ledger**: task and session limits, policy revisions, the migration of versions 1
  and 2, child bindings, reconciliation, read-only snapshots; a request has a process and a
  row of its own.  `Init` is a directory never used: in one that has a ledger but no
  SQLite file yet (an upgrade), a ledger lost before the first change reads it would be
  begun anew.
* Jobs, schedules, goals, subagents, compaction, transports, the remote API, clients and hosts, tool bodies and
  their sandbox, the vendored plugin runtime: see PROJECT.json.
* Telemetry and logging throughout.

## Plan

1. The composition of `CrashRepair` and `DurableLog` as a theorem: what a crash may take back
   in the former is what the latter allows.
2. The sessions without a backend and the re-entrant disposals of the lifecycle.
3. The reconciliation and the child bindings of the budget ledger.
