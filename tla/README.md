# Verification of Dinkster

TLA+ models of the stateful parts of Dinkster, the TLC configurations that
check them on small instances, and TLAPS proofs of their most important
properties for instances of any size. Paths below are relative to the
repository; `packages/dinkster-X/src/dinkster_X/` is shortened to `X/`.

## 1. The system

Dinkster executes node graphs. A client submits a graph to the **server**,
whose job queue hands it to the **engine**. The engine walks the graph, asks a
**cache** for each node's result and otherwise invokes the node in a
**worker**, usually another process behind an ordered connection. Large objects
(models) stay in the worker as *residents* and travel as references. One
**memory governor** per instance decides what may be allocated and which
consumer has to give memory back. A **supervisor** installs environments and
restarts servers. Each process is one asyncio event loop plus helper threads,
so the hard behaviour is what happens across an `await`, across the wire and
across a crash.

| Component | State | Operations | Talks to | What makes it correct |
|---|---|---|---|---|
| Job queue (`server/queue.py`) | jobs by key and by run, pending, running, bounded history, pause/maintenance flags, slot limit | submit, cancel, clear, pause, resume, maintenance, set limit, close; dispatcher; one task per job | engine (runs the job), history store (durability), event hub | tables agree, one verdict per job, no lost wakeup, order and limit of dispatch, idle maintenance |
| Durable history (`server/history.py`) | accepted rows, history rows | job_accepted, job_started, job_terminal, recover_interrupted, delete | queue, HTTP readers | an acknowledged run is recorded exactly once through crashes and failed writes |
| Release gate (`workers/relay.py`, `values/pins.py`, `memory/resident.py`) | pins, condemned ids, resident pool with use clock | two-phase release: propose, invalidate and condemn, commit, absolve | governor (asks for memory), session and host (frames), engine (pins), cache | no reference in use dangles, released ids stay dead, no id is condemned for nothing |
| Worker session and host (`workers/session.py`, `workers/host.py`) | pending invocations, invocation tasks, in-flight holds | invoke, result, resultAck, cancel | engine, release gate | results are handed over without a gap; every invocation ends |
| Engine (`engine/engine.py`) | produced values, pins of a run, single-flight table, admission lanes | run a node: look up, wait for a twin, invoke, pin, put | cache, session, queue | a computation has one owner, waiters survive its death, lanes do not deadlock |
| Memory governor and lease broker (`memory/governor.py`, `memory/leases.py`) | budgets, reservations, shedders, leases with TTL | reserve, shed, wait, release; acquire, renew, expire, close | every consumer, peers | reservations never exceed a budget, waiters are woken, leases end |
| Caches (`caches/memory.py`, `disk.py`, `cas.py`, `layered.py`) | entries, blobs, pins | get, put, evict, trim, pin, adopt | engine, governor | no entry without its blobs, no trim of what is pinned |
| Event hub (`server/events.py`, replay in `server/app.py`) | replay buffer and floor of each job, subscriber buffers | publish, subscribe, pump, replay after a sequence number, close | queue, engine, WebSocket clients | a replay that is not refused is complete; what is not chatter arrives |
| Execution journal (`server/execution_journal.py`, `journal.py`) | pending records, last progress, streams, finished runs | observe, flush, write, finalize, expire, bootstrap, close | event hub, a writer thread | facts are not dropped, finished streams are pruned right, retention counts every run |
| Collaboration (`collab/`) | documents, operations, revisions, store | append, checkpoint, acl, close | HTTP clients | one order of operations, durable before acknowledged |
| Training sessions (`server/training_sessions.py`) | claim ledger | claim, commit, expire | workers | a claim is counted once |
| Supervisor (`supervisor/environment*.py`) | generations, `current`, settings, engine records, journals, history, receipts, quarantine | setup, update, restore, rollback, gc, start, stop, recover | server processes | a crash anywhere leaves one whole generation in use and an operation done or undone |
| Resumable conversations (`workers/resume.py`, `session.py`, `host.py`) | invocation keys, retained results, records, epochs | invoke, result, ack, cancel, detach, attach, rebind, replay, expire | engine, daemon | replay applies once, a hold lasts until adoption, a cancel survives the gap |
| Lazy workers (`src/dinkster/lazy_worker.py`) | activation future | start, close | session | one activation |

The hazards this leads to, each at its line and with the properties that would
catch it, are listed in `PROJECT.json`.

## 2. Modules

| Module | What it is |
|---|---|
| `JobLifecycle` | abstract: what the database promises about an accepted run |
| `JobQueue` | the queue, its tasks, its database and the process that dies |
| `MCJobQueue` | instances for TLC |
| `JobQueueProofs` | theorems about `JobQueue` |
| `ReleaseGate` | result handoff and two-phase release between engine, session, relay, host and pool |
| `MCReleaseGate` | instances for TLC |
| `ReleaseGateProofs` | theorems about `ReleaseGate` |
| `MemoryGovernor` | admission, budgets, shedding and waiting over several residency classes |
| `MCMemoryGovernor` | instances for TLC |
| `MemoryGovernorProofs` | theorems about `MemoryGovernor` and `LeaseBroker` |
| `LeaseBroker` | reservations with a handle and a term, for peers |
| `MCLeaseBroker` | instances for TLC |
| `EnvironmentVersions` | abstract: what an environment operation is, seen from outside |
| `Environment` | generations, journals, engines, the tool that dies, recovery and collection |
| `MCEnvironment` | instance for TLC |
| `EnvironmentProofs` | theorems about `Environment` |
| `Conversation` | a resumable connection: session, socket, daemon, host loop |
| `MCConversation` | instances for TLC |
| `ConversationProofs` | theorems about `Conversation` |
| `SingleFlight` | shared computations, admission and leases of the engine |
| `MCSingleFlight` | instance for TLC |
| `SingleFlightProofs` | theorems about `SingleFlight` |
| `EventHub` | replay buffers and subscriptions of job events |
| `MCEventHub` | instance for TLC |
| `EventHubProofs` | theorems about `EventHub` |
| `ExecutionJournal` | the batched journal of what runs did |
| `MCExecutionJournal` | instance for TLC |
| `ExecutionJournalProofs` | theorems about `ExecutionJournal` |

Definitions whose comment begins with "Fault" are wrong variants of a definition
near them. No specification uses them; they exist so that each property can be
seen to fail when the code is changed that way (`mutants` in `PROJECT.json`).

The modules meet at these places. `ReleaseGate` contains the pins and the cache
that `SingleFlight` reduces to a choice ("a result that cannot be used").
`LeaseBroker` sees `MemoryGovernor` as an admission that is granted, refused or
never decided; `AdmissionDecides` is what it may expect. `JobQueue` assumes that
a job's body ends, which is `EveryCallEnds` for each of its nodes.
`ExecutionJournal` is fed by the events that `EventHub` publishes and that
`JobQueue` orders: one final event per run, and none after it. `Conversation` is
the connection of `ReleaseGate` made breakable; both have the same handoff of a
result (hold, adopt, acknowledge, let go).

### JobQueue

The queue lives on one event loop, so one action is one stretch of code between
two awaits. `Submit`, `CancelQueued`/`CancelRunning`, `Clear`, `Pause`,
`Resume`, `BeginMaintenance`, `EndMaintenance`, `SetMaxRunning` and `Close` are
the public methods with everything they do; `Dispatch` is one whole turn of
`_dispatch_loop` (its inner `while` does not await); `TaskStart`, `BodyEnds` and
`FinishRun` are the three stretches of `_run_job` (before its first statement,
up to the await of `settle_job`, and the `finally` after it). `FinishAll` is
`_finish` with its durable write, its history append and its eviction, for the
jobs an operation finishes one after the other.

A run number stands for the Job object, its run id and its submission order.
The content of a job is abstracted to its key and its priority: the
fingerprint only chooses between two replies that change nothing. The database
is the `state` column of each run's accepted and history row. `Crash` forgets
the memory, `Restart` is `recover_interrupted` followed by a new queue, in the
order of `server/app.py`. Any durable write may fail where the code only logs
the failure (`Saves`). A submission whose write fails changes nothing and is
not an action.

Bounds: `MaxRuns` jobs are ever accepted, `MaxCrashes` deaths, `MaxErased`
deleted rows. Three jobs on two keys suffice for a resubmission of a terminal
key with an eviction between, and for a queue that is longer than its slots.

### ReleaseGate

Parent and child with an ordered channel each way. In the parent, a run looks a
result up (`LookupHit`, `PinHit`) or invokes the node (`LookupMiss`); the
session reads the result, takes a handoff pin (`Decode`), adopts and
acknowledges (`SendAck`), drops the handoff pin and returns (`Settle`, with
`Vetted` when saved artifacts have to be checked in a thread); the engine pins
(`PinFresh`), puts (`Put`) and unpins at the end (`EndRun`); `Abandon` is
cancellation or a failed adoption. The relay's release is `StartShed`,
`ReadReply`, `Gate` (synchronous over all candidates), `Absolve`, and `GiveUp`
for a timeout or cancellation at any await. In the child, `Read...` is the read
loop, `Obtain`, `Encode`, `SendResult`, `SendError` the invocation's task,
`RunQuery` and `RunCommit` the release tasks.

Each run makes one invocation whose result names one resident; each shed is one
release. So the payload of a frame can stay under the run or shed it is about,
and a frame is just its kind and its subject. The pool's global use clock is
kept per resident, which is what the token comparison tells apart. What the
pool refuses for reasons of its own (an invalidator, a failed unload) and what
memory pressure picks are free choices. The worker does not die and the
connection is not resumable: both are later modules. `MaxRes` bounds how many
resident ids are minted.

### MemoryGovernor

One call of the reservation service (`memory/reservations.py`) is a request: it
merges its plan and takes one governor reservation per class, in sorted order
(`Class`). `_admit` is split where it awaits: `Enter` and `Wake` run a pass up to
the next await (`Score`, and `Settle` for the pass after a shed), `ShedStep` is
the answer of one consumer inside `shed`, `ShedBreaks` an exception or timeout
of it, `Abort` a cancellation or the timeout of a wait. A pass ends in `Leave`
(the exit stack releases everything and notifies), `Record`, `Sleep` or
`BeginShed`. The condition's lock is never held across another await, so
release and notification are one step.

What consumers hold is one number per class, because only the sum is compared
with the budget; who frees how much is free. The list of consumers is kept
exactly: `register_shedder` sorts into the list object that running sheds
iterate over, `unregister_shedder` binds a new one (`walk[q].shared`). `due` is
an observation: which consumers a shed still owes a question. A live RAM
shortfall may or may not be reported (`MayPress`). Between two classes the model
lets others run, which the code does not: a superset of its behaviours.

### LeaseBroker

A lease stands for one call of `acquire`, with the future it waits on and the
task that runs `hold()`. `Grant`, `Deny`, `EnterAdmission` see the governor from
outside; `HolderWakes` is the end of the task's sleep, by the event or by a timer that
was set before a renewal; `Cancelled` is the step of a cancelled task, which in
Python never enters the coroutine if it would have been its first. `AcquireCut`
and `ReleaseCut` are callers that are cancelled while they wait. Time is a
counter; terms that would end after `MaxClock` are not started, so the last
steps of time only let leases expire.

### Environment

The disk (`tree`, `parked`, `current`, `settings`, journals, history, receipts)
survives; `cli` is the one tool that holds the writer lock. An action is one
durable write, rename, start or stop, so `Crash` may strike between any two, in
a recovery as well. Every command begins with `RecoverPending`
(`_recover_pending`), which takes the journals in order: an interrupted
operation goes through `RecoverStop` ... `RolledBack`, a completed one gets its
history entry, a collection goes back (`Unpark`) or is cleaned up (`Clean`).
`setup`, `update` and `restore` share `Build`, `Activate`, `StartTarget`,
`Revalidate`, `WriteSettings`, `SetCurrent`, `StopPrevious` and `Complete`;
`repair` is an update with the same settings and `rollback` a restore of an
older entry. A tree is absent, partial or whole, because `generation.json` is
written last. An engine is "lost" when its supervisor died and its identity can
not be checked; every start and stop of it is refused, as the code does. It is
"pending" when its launch was recorded and nobody has claimed it: the tool died in
between (`CrashInStart`), or the candidate ended too early (`StartFails`). No start
accepts such a record; a stop cancels the launch. A launch that is claimed and the
wait for it are one step. A step
that raises (`Raise`, `RecoveryRaises`, `StartFails`) follows the code's
handlers: the inner one recovers, the command's own one recovers again.

`EnvironmentVersions` is the promise: the selected generation and the settings
change together, to a number never selected before, or nothing changes. Under
the mapping, `Committed` is the pointer as it will be if the open operation is
undone, so the abstract step is the write of "complete".

### Conversation

The engine's session and the daemon's conversation with a socket between them.
`Invoke`, `SendInvoke`, `Cancel`, `Adopt`, `AdoptFails` are the stretches of
`invoke()`; `Receive...` the session's read loop; `Detach`, `Redial`,
`SendRebind`, `RebindApplied`, `RebindRolledBack` the reconnection. At the
daemon `Pump` is the socket reader, `Host...` the host loop, `Retain`,
`WriteResult`, `TaskEnds` the invocation's task, `CompleteCancel` the task that
answers a cancel, and `FinishRebind` the end of a rebind with its replay. A
frame carries its kind and its invocation; frames of a replaced socket carry an
old epoch and are dropped (`DropStale`); an invoke the reader has recorded by then
keeps its record without a task. A `BoundaryError` is the outcome
"refused" of either side. Both grace timers may run out at any moment while
their side is detached. Memory, event, run-control and blob frames are left
out; a payload transfer is the state "sending". `invokeAccepted` is left out as
well: it sets an event that nothing waits for (`session.py:2475-2482`), and a
session that has forgotten the invocation refuses it like the frame that follows.

### SingleFlight

A caller is one evaluation of a node by a run. `Join`, `Own`, `Coalesce`,
`ShareFailure` and `OwnerDied` are the loop on `_inflight`; `Lookup`, `Hit`,
`Acquire`, `Admitted`, `Return`, `Put`, `Finish` the owner's way; `Suspend`,
`Arrive`, `Resumed`, `LateReleased` the invocation lease of a node that waits
for another one. A caller may fail or be cancelled there as well (the worker dies
while the node waits); it then leaves what its lease still holds (`Leave`) at once,
or, if a resume is under way, when that comes back. Both outcomes are in the model
because a worker session cancels its run-control tasks with the invocation
(`session.py:1592-1600`). Resolving the future and leaving `_inflight` are one step,
since nothing awaits between them. A permit is a lane or the global slot, which
is number 0; `NextPermit` is the order in which `_admission` takes them, the
lanes by their sorted names whatever order they were declared in, then the slot.
Values are not represented: whether a result
can be used (validated, pinned) is a choice, counted in `excuses`, so that
`NoNeedlessRun` can say that a key is computed once and then once more per
reason.

### EventHub

An event is its place in the log of everything published. `Publish` is
`_publish_job_event` with what it does to the replay buffer and to every open
subscription, after the queue has dropped what it retired; both buffers are
`Pushed` by the same rule as in the code: evict the oldest chatter, else shed
the new chatter, else grow. `floor` is the highest sequence number dropped.
`Get` is one turn of the pump.

A boundary of `ProtectedDelivered` worth knowing: the pump asks whether the job
can still be found (`visible`, `server/app.py:4135`). Events buffered for a job
that the queue has retired meanwhile, its terminal one too, are passed over
(`skipped`), although `push` keeps them because "terminal events must not
silently disappear" (`server/events.py:216`).

### ExecutionJournal

`Observe` buffers a record (chatter only while there is room), `Flush` takes the
buffer, `Write` is one transaction in the writer thread, `WriteFails` the logged
loss of a batch. The end of a run carries its last progress along, which is
stored as a fact before the chatter is pruned. `Restart` is a death followed by
`bootstrap`, which stamps unfinished runs and expires. `gap` remembers which runs
a failure cost something; the properties excuse exactly those.

## 3. Runs

| Run | Instance | Shows |
|---|---|---|
| `queue` | one process, 3 jobs, 2 clients, 2 priorities, limits 1 and 2, history of 1 | `QueueInStep`, `NoLostWakeup`, `MaintenanceIdle`, `DispatchInOrder` |
| `queue_durable` | 2 jobs, 2 crashes, failing writes, deletion, fair loop | `JobQueue` implements `JobLifecycle`, `QueuedJobsMove`, `CloseEnds` |
| `queue_dead_job` | one job of one client | finding: a job cancelled before its task's first step stays running |
| `gate` | 2 runs and 1 release, or 1 run, a warm cache and 2 overlapping releases; 1 resident id, artifacts, fair loops | `PinnedIsResident`, `HeldIsResident`, `CondemnedForAReason`, `GateSettles` |
| `governor` | 2 requests, 2 classes, 2 consumers of different priority, a budget of 1 or none, fair loop | `AccountsInStep`, `SkipsNobody`, `GrantsFit`, `AdmissionDecides` |
| `leases` | 2 leases, terms 1, 2 and 6 with a cap of 3, 5 steps of time, a governor that may never decide | `NothingLeaks`, `LivesItsTerm`, `SilenceIsRelease`, `BrokerCloses` |
| `environment` | 2 engines, 2 settings, 3 generations, 4 commands, 1 crash, 1 raising step, 1 lost supervisor | `GenerationsWhole`, `OneGenerationServes`, `LogsTellTheTruth`, `RolledBackRestores`, `RecoverySettles`, implements `EnvironmentVersions` |
| `conversation` | 2 invocations (one transfers payloads, the other may be cancelled), 1 break | `HoldUntilAdopted`, `ReturnedIsReleased`, `RecordsInStep`, `CancelSettles`, `StartedCallEnds` |
| `conversation_cancel` | 2 invocations, no break | finding: a cancel that crosses the end of its invocation ends the session or the conversation |
| `flight` | 5 callers (3 share a key), 2 lanes declared in different orders, 1 slot, 1 cancel, 1 failure, 1 unusable result | `OneFlight`, `NoNeedlessRun`, `OthersSurvive`, `PermitsInStep`, `EveryCallEnds` |
| `hub` | 2 runs, 2 sockets, a replay of 2, a buffer of 1, 5 events | `ReplayComplete`, `ProtectedDelivered` |
| `journal` | 2 runs, a buffer of 1, 1 run kept, 5 events, 1 failed write or death | `JournalInStep`, `DurableKept`, `EndsFinished` |

**Bounds.** Three jobs on two keys suffice for a resubmission of a terminal key
with an eviction between. One resident is what pins, holds, a cache entry and the
releases fight over. The second release of `gate` begins once one of the runs has
ended and left its result in the cache, and before the other run and the other
release begin (`Calm`), so that what two overlapping releases condemn and absolve
meets a run that hits the cache or invokes the node anew. More releases, runs and
resident ids are left to the proofs. Two classes and two requests make a circle of waiters possible if the
order is wrong; two consumers of different priority let one be inserted before,
and one removed from before, the place a shed has reached. Two leases with a cap
of 3 and 5 steps of time allow a renewal that shortens, one that is capped, and
an expiry in each order. Four commands allow a setup, two activations and a
collection, or an operation after one that was interrupted and recovered; with
one crash and one raising step, a recovery can be interrupted in both ways. One
break with two invocations puts one invocation in every phase while the other
is in any other; a second break multiplies the states and would only add the
replacement of a socket in the middle of a rebind. Three callers of one key are
an owner, a waiter that takes over, and one that joins the second computation.
Buffers of one and two events overflow at once. Symmetry (of clients) is used
only in `queue`, which has no liveness property.

`CHECK_DEADLOCK FALSE` stands where every participant is used a bounded number
of times, so that the instance comes to rest: the runs and sheds of the gate,
the requests of the governor, leases, commands, invocations, callers and events.

**Fairness.** `JobQueue`: the event loop runs what is ready (weak fairness of
the dispatcher, of a task's stretches and of `close`). That a job's body ends is
the engine's promise and is assumed. Nothing is assumed of clients. `ReleaseGate`:
both read loops and every started task go on; a node's work is assumed to end.
No fairness is assumed of lookups, sheds, timeouts or cancellations, so
`GateSettles` holds without the timeout's help. `MemoryGovernor`: the loop runs
what is ready, consumers answer a shed, and bodies end; no timeout is assumed.
Each request is made once: with an endless supply of others a waiter could
starve, since admission is not first come, first served. `LeaseBroker`: time
passes and ready tasks run. `Environment`: the tool, once started, goes on; no
command, crash or failure has to happen. `RecoverySettles` is about a tool that
is left alone (no crash or failing step any more). It excuses a lost supervisor,
which the code leaves to the user, and the launch a recovery was cut off from
(`LaunchStuck`, below). `Conversation`: both processes go on, node
code returns and the grace timers run out. `SingleFlight`: the loop runs and
workers return. `ExecutionJournal`: the flush loop wakes up and a write comes
back, well or not. `EventHub` promises nothing about time and has no fairness.
In `Conversation`, `SingleFlight`, `Environment` and `ReleaseGate` weak fairness
is stated of the disjunction of the steps: no behaviour takes such steps for ever, so it
says the same as fairness of each of them.

**Findings.** The two violation runs are disagreements between comments, tests
or design and the code, quoted in `PROJECT.json`. The other properties are
stated so that they hold in spite of them: `QueuedJobsMove` excepts a slot held
by a dead job, and the properties of `Conversation` except a conversation that
was ended. Further causes of a refusal that the model of `Conversation` contains
are a cancel during a payload transfer (the daemon was never sent the invocation,
`session.py:2130`), a result acknowledged twice, and an invocation sent right
behind a rebind (the daemon's reader records it before the host loop handles the
rebind, which then does not name every record).

**Known exceptions, described without a run of their own.**

* The engine expects that "Fresh worker results should never reference a
  condemned resource" (`engine/engine.py:1985`). The hold keeps the child from
  dropping the resident, but the parent may have condemned it already: the child
  proposes the resident, then encodes a result that names it; the parent reads
  the proposal, condemns, then decodes the result, whose pins are refused
  (`engine.py:1992`). The node fails although nothing broke the contract.
  `GateSettles` counts a refused result as an end.
* A hold is "cleared by the parent's validated resultAck or cancellation"
  (`workers/host.py:1005`). On a connection that is not resumable the cancel
  handler only cancels the task (`host.py:2927`); if the result has been sent, the
  entry stays, and the residents it names can not be released any more.
* `LeaseBroker.close()` cancels every holder task without an entry
  (`memory/leases.py:174`). A task that has not taken its first step is never
  entered, so nothing resolves the future `acquire()` waits for, although
  "nothing can deadlock waiting on a ghost" (`leases.py:9`). `BrokerCloses` is
  about `close()`, not about that caller.
* "A client that finds a journal with an incomplete operation at startup finishes
  the rollback before doing anything else" (`docs/environments-and-updates.md:588`).
  If the tool dies in a recovery after it recorded the launch of an engine of the
  previous generation and before the supervisor claims it
  (`environment_runtime.py:91`), the next recovery finds a record that is neither
  ready nor stopped and refuses: "stop it first" (`environment_runtime.py:72`). But
  `stop` begins with the same recovery (`environment.py:1135`), and a recovery
  cancels pending launches of the target only, so the journal stays incomplete.
  Without its exception `LaunchStuck`, TLC refutes `RecoverySettles` with this.
* An invoke that the daemon's reader recorded and that is then dropped because its
  socket was replaced (`resume.py:233-240`) leaves a running record without a task.
  A rebind reports it running, and its call waits until it is cancelled or the
  session ends. `RecordsInStep` counts the record, and `StartedCallEnds` is about
  calls whose run was started.

## 4. Proofs

`JobQueueProofs` proves, for every set of clients, every number of jobs, crashes
and slots, and with failing writes:

* `QueueInvariant`: `Spec => []QueueInv`. `QueueInv` is the conjunction of the
  type invariant, the safety properties below and three facts that make it
  inductive: `Fresh` (unused run numbers have left no trace), `TaskPhase` (a
  task under way belongs to a running job, a settling one has its verdict) and
  `DownEmpty` (no jobs without a process). Without `TaskPhase`, `FinishRun`
  could end a job twice; without `Fresh`, `Submit` could overwrite one.
* `QueueTypes`, `RunsAreNeverLost`, `HistoryTellsTheTruth`, `RunIdsResolve`,
  `TablesStayInStep`, `MaintenanceFindsQueueIdle` for its parts; `JobsEndOnce`
  for the action property that a verdict is never replaced.
* `QueueStaysInStep`, `NoWakeupIsLost`, `DispatchesInOrder`: the bound of the
  history, the slots and the order of dispatch, which count. `HistoryInv` says
  that retained jobs carry different finish stamps, none above the number of
  jobs that ended; without it "the newest `HistoryLimit`" could be more jobs than
  the limit. A set whose members have different ranks below n has at most n
  members (`FewRanks`), which bounds a dispatcher's batch by the free slots
  (`BatchFits`) and shows that a batch smaller than the queue fills them
  (`SlotsFill`), so a sleeping dispatcher leaves nothing behind.
* `QueueImplementsLifecycle`: initial states map to initial states and every
  step to a step of `JobLifecycle` or to none.

`ReleaseGateProofs` proves, for every number of runs, releases and residents:

* `GateInvariant`: `Spec => []GateInv`. Beyond the properties, `GateInv` says
  what is in flight: a commit is on the wire or being served at most once and
  only before its answer (`CommitOnce`), what a release has staked is condemned
  for that release alone and alive until that release drops it, and what a
  commit may drop while a result holds it has been used since it was proposed
  (`Stakes`); pins and condemnations exclude each other (`PinsLive`).
* `GateTypes`, `PinsProtect`, `CacheResolves`, `HoldsProtect`, `CondemnationsEnd`,
  `TombstonesStand`.

`MemoryGovernorProofs` proves, for every number of requests, classes and
consumers and any budgets:

* `GovernorInvariant`: `Spec => []GovernorInv`: a request holds what it needs
  from the lowest class on (`Orderly`), a walk over the shared list sees the
  list as it is (`SharedList`), and a walk owes its questions only to consumers
  ahead of it (`SkipsNobody`). `SharedList` is what makes an insertion harmless.
* `GovernorTypes`, `ShedReachesAll`, `AdmissionFits`.
* `AccountsHold`: what a class has reserved is the sum of what its holders need,
  and a waiter waits for a holder. The sum is a fold, a recursive function on the
  subsets of a set, which no installed prover can unfold; the lemmas show that
  such a function exists for a finite set (`TallyExists`), that two of them agree
  (`TalliesAgree`) and that the sum is what it says (`TotalByTally`,
  `TallyOfTotal`), each by taking a smallest subset where it fails
  (`SmallestSubset`). From this come the three facts that the steps use: the sum
  of nothing, the sum without one member (`TotalWithout`) and equal terms having
  equal sums (`TotalAgrees`). `AccountInv`
  adds that only finitely many requests hold a class, since each step changes
  one of them: the number of requests itself is not bounded.
* `NoCircle`: the one who waits on the greatest class waits for somebody who does
  not wait, so the waiters are never all waiting for each other.

It also holds the proofs about `LeaseBroker`, whose definitions have names of
their own (`LeaseSpec`, `leaseVars`) so that one module can extend both. For any
number of leases, terms and bound on time: `LeaseInvariant` and from it
`LeaseTypes`, `MemoryFlowsBack`, `CapHolds`, `CloseReleasesAll` and `TermIsKept`.
The strengthening is `HolderCutByRelease`: a holder is cancelled only by a
release that was cut short, so its event is set.

`ExecutionJournalProofs` proves, for any set of runs, any buffer and retention and
any number of events, failed writes and deaths:

* `JournalInvariant`: `Spec => []JournalInv`. The end of a run travels with its
  event and carries the run's last progress (`ItemsReal`, `EndsTogether`), it is
  the last event of its run and batches keep the order (`EndIsLast`, `InOrder`),
  so a batch that ends a run leaves nothing of it in the buffer (`EndClosesRun`)
  and pruning loses nothing that is still to come. `EndFollows` is why a run
  whose rows are all written has been marked finished; `DoneIsQuiet` why a retired
  run does not come back with a late row; `StreamReal` why chatter kept under a
  mark "durable" can only be the last progress.
* `RetentionHolds` and `FactsAreKept`. Retention is "fewer than `keep_runs` runs
  finished later": finish times are places in the log of different runs, so the
  numbers of newer runs are all different (`RanksApart`) and exactly the numbers
  from 0 up, hence at most `keep_runs` runs are kept, and exactly that many once
  there were enough (`KeptRuns`). The second half is what makes "retired only for
  newer ones" stay true when later transactions retire more.

`EventHubProofs` proves, for any number of runs, sockets and events and for any
bounds:

* `HubInvariant`: `Spec => []HubInv`. `KeptOrUnderFloor` says that every event of
  a known run is in its replay buffer or at most at its floor, and that what an
  unknown run left is empty: a buffer that is pushed to either keeps everything
  or raises the floor to what it dropped. `CleanSockets` says that a socket that
  is not subscribed has nothing buffered, so that `Subscribe` starts from
  scratch.
* `HubTypes`, `ReplayIsComplete`, `NothingProtectedIsLost`, and
  `BoundsBendForFactsOnly` (a buffer over its bound holds no chatter). The lemmas
  about `Oldest` rest on the well-foundedness of the natural numbers.

`SingleFlightProofs` proves, for any callers, keys, lanes, slots and number of
cancels, failures and unusable results:

* `FlightInvariant`: `Spec => []FlightInv`. `NoNeedlessRun` is not inductive:
  `RunsExcused` adds that a caller about to invoke the worker still has a run to
  its credit, and so has a key whose result is neither stored nor under way.
  `LanesInOrder` says that whoever lacks a lane holds only lanes before it, and
  `PermitsPlaced` where a permit can be held at all.
* `FlightsAreSingle`, `RunsHaveReasons`, `CancelsStayApart`, `PermitsStayInStep`.
* `LanesCannotDeadlock`: of any set of callers that lack a lane, one wants a lane
  that none of the others holds (the least lane that is missing), so a circle of
  waiters is impossible. This is the safety half of `EveryCallEnds`.

`EnvironmentProofs` proves, for any engines and settings and any number of
generations, commands, crashes, raising steps and lost supervisors:

* `EnvInvariant`: `Spec => []EnvInv`. Only the last journal can be open. Its stage
  says what is left to undo and the place of the tool how far it has come, so
  `EnvInv` relates the two to the trees (`Installed`), the quarantine
  (`Collected`), the engines (`Serving`), the settings (`Configuration`), the
  history and the receipts (`HistoryKept`, `ReceiptsKept`). `Numbers` says that
  generation numbers grow, which is why a new target is never a tree in use.
  `Placed` says what must be true at each place of the tool, a crash being
  harmless because the journal, and not the tool, carries what recovery needs.
* `GenerationsStayWhole`, `OneServes`, `LogsAreTrue` for its consequences, and
  `RollbackRestores` for the action property.
* `EnvironmentImplementsVersions`: the refinement. `Writers` lists which actions
  write a journal, the pointer or the settings; all but `Complete` leave the
  generation in force (`Base`) alone, and `Complete` selects a number that was
  never selected before.

`ConversationProofs` proves, for any finite set of invocations, whichever of them
transfer payloads or are given up, and for any number of breaks:

* `ConvInvariant`: `Spec => []ConvInv`. The properties speak of two sides that
  see each other only through frames, so `ConvInv` says what the frames under way
  may claim (`FramesRight`) and where an invocation or a rebind can be
  (`StartedOnce`, `BoundOnce`). `Held` ties the resources to the places of a call.
  `MissingIsGone` is why a status "missing" of a call that waits for its `acked`
  may be read as success: between the plan of the answer and its application
  nothing is adopted. `CancelsFlagged` and `AwaitedCovered` are why nothing the
  engine waits for is forgotten: a record goes only with a frame that says so or
  in a rebind that reports the invocation cancelled.
* `HeldUntilAdoption`, `ReturnsRelease`, `RecordsStayInStep` for the properties the
  run checks; `StartsAtMostOnce` and `StopsOnlyGivenUp` for two consequences.
* Most actions are dealt with by a few facts about what never goes back
  (`Onward`, `Advance`) and by the lemma that only five of them touch a rebind
  (`MostlySteady`).

Assumptions are those of the modules' `ASSUME`s: limits are positive, bounds
are natural numbers, `None` is not a run, key, resident, number, consumer or
caller, runs and sheds are disjoint, terms are positive, a socket watches runs,
callers with the same cache key have the same kind of node (the key contains
the node's schema), and a session has finitely many invocations.

Only model-checked:

* liveness (`QueuedJobsMove`, `CloseEnds`, `GateSettles`, `AdmissionDecides`,
  `SilenceIsRelease`, `BrokerCloses`, `RecoverySettles`, `CancelSettles`,
  `StartedCallEnds`, `EveryCallEnds`, `EndsFinished`), which is out of the
  prover's reach; `NoCircle`, `LanesCannotDeadlock` and `NoWakeupIsLost` are the
  safety halves of three of them;
* the findings, which are single behaviours: `NoDeadRunningJob` and `NoRefusal`
  are refuted by their runs.

Every safety property that a passing run checks, both refinements included, is
also a theorem.

## 5. Plan

1. `BlobStore` and the layered cache: publication, pins, trim, crash.
2. `DocumentSession` (collaboration) and the training claim ledger.
3. Lazy activation; work groups as a composition of conversations.
4. Full release as an extension of `ReleaseGate`; two breaks in `Conversation`.

## 6. Not modelled

Most of the repository's lines are data rather than control: node bodies and
numeric code, the ComfyUI translation, graph compilation (pure functions of
their input), generated aliases, manifests, provisioning, installers and the
composition root (I/O and wiring), HTTP parsing and rendering, authentication.
They keep no state of their own that steps of several actors could spoil, so the
share of lines the models stand for is small, while most of the stateful
machinery is covered.

Stateful parts without a module yet: the disk cache and content-addressed store,
training sessions, collaborative documents, lazy activation, work groups, the
supervisor's process control and ingress.

Within the modelled components: log texts, event payloads, timestamps, history
queries, the advisory vram lane and full release, shared-memory segments and
blob transfer; previews and authority in the event hub; retirement by age in the
journal; the ready-set scheduler and expansion in the engine; in the supervisor,
moving a project, collection of shared stores and registries, import, download,
edits made outside the tool, and an engine that becomes busy between
`require_idle` and the switch; in conversations, memory, event and run-control
frames with their outbox, and a restart of the daemon, which the design excludes.
