# IDA Nexus: TLA+ models and proofs

IDA Nexus gives several programs access to one IDA database (IDB). A process
that owns an IDB, a GUI session or a headless worker (`idalib`), runs an HTTP
server; clients find it in a registry on disk, hold *leases* on it, and run code
in it. A managed worker goes away when nobody holds a lease any more.

This directory models the parts of the program in which threads and processes
meet, on both sides of the connection: who may use the IDB, when it is closed,
which operation a cancellation reaches, which registry record may be removed,
what a client is told of a call, a close or a loss. The models are translated
from `src/ida_nexus/`; `PROJECT.json` maps each definition to its lines.

## Inventory

| part | source | state | operations | hard |
|---|---|---|---|---|
| lease server | `_server.py` | `_leases`, `_active_requests`, `_shutdown_at`, `_draining`, `_shutdown_requested`, `_save_on_shutdown`, `_stream_stop` | open, stream, detach, release, request, shutdown, watchdog sweep, `stop()` | handler threads against the watchdog and the host thread; deadlines against late requests; a client lost at any step |
| worker host | `cli/worker.py`, `_session.py` | where the main thread is, signals | start, analyse, serve, stop, close, release | stop before serve; the join of the analysis thread; failed start |
| operations | `_server.py`, `_runtime.py` | `_backend_lock`, `_foreground_waiters`, `_pending_operations`, `_cancelled_operations`, running fields; `_active_*` and its generation, deadlines, IDA's cancelled flag | run, cancel, deadline, lease cleanup, analysis slice | a late cancellation and a successor; flags left behind; lock fairness |
| IDB events | `_server.py`, `_runtime.py` (`_idb_events.py` makes the events) | subscribers, hook lock, hook, bounded queues, completion of analysis | subscribe, enable, record, send, unsubscribe | callbacks on IDA's main thread against stream threads |
| registry | `_registry.py` | record and lock files, `flock` per inode | register, publish, withdraw, release; scan, probe, reap, sweep | several processes, crashes at any step, files that are unlinked while open |
| resolver, launch, database state | `_resolver.py`, `_launch.py`, `database_state.py` | spawn lock, startup guard file, unpacked files | resolve, spawn, await, recover | double spawn; failure of a start that served somebody |
| handle | `handle.py`, `instances.py` (the wait of a final close) | `_closed`, `_disconnected`, lease socket, RPC connection, active operation, subscriptions, callback | open, call, cancel, close, subscribe | the monitor thread against callers, closers and the owner that registers its callback |
| manager | `manager.py` | `_instances`, current selection, forgotten sessions, `_open_lock` | open, select, close, call, shutdown | disconnect callbacks during open and close; a call between two regions of the lock |
| HTTP pool | `_http.py` | worker and idle counts, request queue, active connections | accept, serve, close | idle accounting; close against running handlers |
| GUI plugin | `plugin.py`, `_session.py` | component, session, deferred release | load, start, unload, reload, release | a release that is still queued when the provider is loaded again |
| the rest | `_remote.py`, `_suggest.py`, `reference.py`, options, paths, models, CLI, scripts | none that is shared | pure functions, I/O | data, not control |

How they interact. A client resolves a path: it scans the registry (flock and an
HTTP probe decide whether an instance is live), or takes the spawn lock, scans
again and starts a worker. The worker publishes its record under its lifetime
lock, then arms the startup grace. The client's handle opens a lease (an SSE
stream: heartbeats show the server that the client lives) and sends each request
with the lease identifier; the end of the stream tells its monitor thread, and
through a callback the manager, that the instance is gone. Requests are
serialised by the backend lock and executed on IDA's main thread with
`execute_sync`. When the last lease goes, the watchdog drains, `on_shutdown` ends
the host's serve loop, and the host stops the server, closes the IDB and only
then withdraws record and lock, which a final `close()` waits for. In the GUI the
plugin takes the host's place: it stops the server when IDA unloads it, and
releases the lock only after IDA has closed the database.

What makes each part correct: *server*: nobody is cut off by an idle drain, a
granted shutdown is exclusive, an abandoned worker stops. *Operations*: a
cancellation or deadline reaches exactly its own operation and every request is
answered. *Events*: no gap in a history, a hook exactly while somebody listens.
*Registry*: a record is removed only when its owner is gone, and then it is.
*Resolver*: at most one worker per IDB, no unpacked data lost. *Handle*: what it
answers is true, nothing is replayed, nothing outlives it, a loss is heard of.
*Manager*: one event per session, no leaked lease, no dead session selected.
*Pool*: exact counts, nothing served after close. *Plugin*: one registration per
database, which a close of the database does not give up before the files are
closed, and which an unload always gives up in the end.

## Modules

| module | content | proofs |
|---|---|---|
| `NexusLeases` | lease server, watchdog and worker host | `NexusLeases_proofs` |
| `WorkerService` | what a server promises its clients: an abstract specification | |
| `NexusLeasesService` | the refinement mapping from `NexusLeases` to `WorkerService` | in `NexusLeases_proofs` |
| `NexusOperations` | backend queue, cancellation, deadlines, lease cleanup, startup analysis | `NexusOperations_proofs` |
| `InstanceRegistry` | owners, scanners and GUI finders over record and lock files | `InstanceRegistry_proofs` |
| `IdbEventHook` | subscriptions to IDB events and the hook on the main thread | `IdbEventHook_proofs` |
| `SpawnResolver` | resolvers, the workers they start, a foreign IDA and the database files | `SpawnResolver_proofs` |
| `DatabaseHandle` | one handle, the threads that use it and the instance behind it | `DatabaseHandle_proofs` |
| `HandleContract` | what a handle promises its owner: an abstract specification | |
| `DatabaseManager` | sessions over handles that keep `HandleContract` | `DatabaseManager_proofs` |
| `HTTPWorkerPool` | the threads of the HTTP service | `GuiProcess_proofs` |
| `GuiSession` | plugin providers in one IDA process | `GuiProcess_proofs` |
| `MC...` | symmetry sets and bounds for the small instances | |

Definitions marked *variant* are the plausible mistakes each property has been
seen to catch; no specification uses them.

### NexusLeases

One action per critical section of the Condition `_activity`. A *handler* is a
pool thread that serves one request; `pc` says where it is. A `_Lease` object is
the record of the handler that created it, and `leases` maps identifiers to that
handler, so an object can outlive its entry as in the code: after an explicit
release the stream still sees `stop` and ends without a second detach. Deadlines
are the time that remains; `Tick` takes one unit from all of them, and a deadline
that is due stays due until the watchdog looks. The stages of `stop()` (set
`_stream_stop`; then, in `_activity`, stop the leases and drain; then join the
thread of the startup analysis) are separate actions, once for the watchdog, which
notifies the host, and once for the host, which closes the IDB. The joins of the
other threads have a bounded time and are no condition; the join of the analysis
has not: it is the guard of `WatchdogNotifies` and `HostCloses`. `analysis` says
where that thread is; a *slice* waits for IDA's main thread or runs there (how
slices take turns with operations is in `NexusOperations`). A host that has left
`serve()` under a slice is `Stranded`: whether IDA executes the slice then is
unknown, so the model lets it happen and does not count on it. `HostServes`
consumes or forgets an earlier `stop_serving()` according to
`StopServingLatched`. Requests that are refused change nothing and are no
actions. `drainCause`, `shutdownOwner` and `retired` are history variables.

### WorkerService and the refinement

The abstract service has a phase (`serving`, `committed`, `closed`), the attached
clients, and whether its process was told to stop. It may commit only when nobody
is attached, when the one attached client asks, or when told. `ServicePhase`
computes the phase from `_draining`, `_shutdown_requested` and the host. The
refinement has two halves. `ImplementsService` (proved) says that no interleaving
of handlers, watchdog, host and signals cuts off a client in another way;
`KeepsCommitments` (checked, in `StopsInTheEnd`) that a commitment ends in a close,
unless a signal has stranded the process for ever, and a signal in a commitment.

### NexusOperations

`_run_operation` of each request, step by step: publish the key and the intent,
queue for the backend, be admitted, run, clear, release, leave. Below it
`_run_sync` as *jobs*: enter (a new generation), invoked on the main thread,
return, leave. Cancellation reads the generation in one critical section of
`_active_lock` and interrupts in a second one, as the code does; `activity` has an
explicit holder because `_cancel_operation` keeps `_activity` across both. A job
runs once, so it names its generation. `hits` records who interrupted what.

### InstanceRegistry

Each record has a record file and a lock *path* that leads to an inode; locks are
held on inodes through descriptors, so unlinking a path leaves its lock held by
whoever opened it. `Split(r)` says that an owner's lock is not the one its path
leads to. Scans and sweeps are one pass over a snapshot of the directory, one file
operation per action; a prober may die between any two. These are the semantics
of POSIX; Windows refuses to unlink an open file and is outside the model.

### IdbEventHook

Threads are the event streams, IDA's main thread and the thread that completes
the analysis. A step "on the main thread" (`MainRunsFor`) is possible when the
main thread is not itself waiting: that is `execute_sync`, the one external
definition. Events are revision numbers.

### SpawnResolver

A resolver is one call of `resolve_instance`; the worker it starts bears its name
(the record suffix of the code). The registry is abstract here: a scan is one step
that reports the live instances, which is what `InstanceRegistry` promises about
real scans. The state of the files is computed as `probe_database_state` does,
lock of `.id0` first. The content of a file is the set of edits it holds. What IDA
does when it opens, closes or fails to open a database is external: it restores a
packed base over crash leftovers, repairs leftovers without a base, and may leave
a torn extraction behind; an IDA that Nexus did not start may also close without
packing (`LeavesUnpacked`), which is how a probe comes to find unpacked files that
are not crash leftovers. `waived` collects the edits a client gave up
(`new_database`, close without save) or a foreign IDA overwrote.

Early returns that only release the lock (deadline, missing source, a copy or an
exec that fails) are one action, `GivesUp`. Explicit output paths and the Windows
launcher, whose successful exit proves nothing, are left out.

### DatabaseHandle

One handle with its monitor thread, the owner that registers a disconnect
callback, callers, a canceller, closers and subscribers, and the instance behind
it, which may crash or pack its database at any step. A step is one region of
`_lock`, one read or write of `_closed` or `_disconnected`, or one exchange. The
instance is seen through what decides the client's answers: whether it is up,
whether it holds the lease, and the fate of each operation. It is `queued`, or
`flagged` by a cancellation, until it gets the backend; it has `entered` once it
passed its last look at the tables, is `running` once `_run_sync` made it the
active one and `stopping` once it was interrupted; then `done`, `cancelled` or
`rejected`. Between `entered` and `running` neither a cancellation
(`CancelPosts`) nor the release of the lease (`ReleaseCancels`) reaches it:
`cancel_active()` finds nothing, the cancellation is acknowledged all the same,
and the release, which looks only once, has missed it. `NexusOperations` has the
same steps with the locks they take. A connection is named for the call
that made it; `CallSends` reopens a closed one, as `http.client` does. Two
closers may both pass the test of `_closed`.

### HandleContract and DatabaseManager

`HandleContract` is the handle as its owner sees it: `opening`, then `live` or
`failed`, then `closed` or `lost`; a registered callback runs once or twice after
a loss and never not at all. `DatabaseHandle` implements it (`ImplementsContract`
for its steps, `OwnerHears`, in `EverybodyIsServed`, for the notice).
`DatabaseManager` is composed over it: its handles do what the contract allows
(`HandlesKeepContract`, proved), and around them run the openers under
`_open_lock`, the closers, a caller and shutdown, one region of `_lock` or one
call to a handle per step. A session is named for its handle. `_open_lock` is
reentrant: the event an open emits may itself shut the manager down
(`ShutdownStarts`).

### HTTPWorkerPool

The listener, the worker threads and `server_close`, one region of
`_worker_condition` or one operation of the queue per step. A connection is
served until its client leaves or its socket is shut: for a lease or an event
stream nothing else ends it. The pool and the plugin are parts of one process
whose variables one proof module takes together; hence the names `PoolInit`,
`PoolNext`, `PoolSpec`.

### GuiSession

Several providers (copies of the plugin) in one IDA. All of it runs on the main
thread, so a start ends before anything else begins; its steps are apart because
other processes look at lock and record at any time. The kernel opens and closes
databases, loads and unloads plugins, and runs queued requests when it
dispatches: that part is external. Failures of a start at each step are choices.

## Runs

| run | instance | shows |
|---|---|---|
| `leases` | 3 handlers, 2 leases, keepalive 0 or 1, idle timeout 1 or none, a managed worker | exact accounting, requests suspend expiry, drains cut nobody off; what is abandoned or committed ends, but for a process a signal has stranded; refinement of `WorkerService` |
| `operations_safety` | GUI, 2 requests, 1 canceller, 1 lease, 1 operation id | cancel, deadline and native flag reach only their own operation; a cancelled queued operation never runs; exact tables |
| `operations_live` | idalib, 2 requests, 1 canceller, 1 lease, 1 operation id, 1 slice | analysis yields; every request is answered, cancelled and released ones too, and every lease cleaned up |
| `operations_release_peers` | 2 requests, 2 leases | **violated**: a lease cleanup can interrupt a peer |
| `registry` | 1 record, 2 scanners, 3 inodes, deaths at any step | live instances are reported, only dead ones reaped, and nothing is left behind |
| `events_safety` | 2 streams, queue of 2, 4 revisions | complete histories, hook exactly while used |
| `events_hook_deadlock` | 1 stream | **violated**: a waiting stream and the main thread deadlock |
| `spawn_resolver` | 2 resolvers with 2 workers, 1 foreign IDA, 1 edit | no edit is lost, a discard removes only what is saved, creators share a worker, every resolver ends |
| `handle` | 1 call, 1 canceller, 1 closer, 1 subscriber, 1 owner | true answers, no replay, nothing survives, refinement of `HandleContract`, everybody is woken but a call that close cannot end |
| `manager` | 2 openers, 1 closer, 1 caller, 2 handles, 2 paths, 1 instance | one event per session, no leaked lease, a call hears of a loss as a loss and "unknown" is said only of sessions that are over, lost sessions are forgotten, shutdown releases |
| `gui` | 2 providers, 2 databases, 3 registrations | one live record per database; its lock is not given up while IDA closes or exits, nor before its session has detached; an unload gives it up in the end |
| `pool_starvation` | 2 connections, 1 prewarmed worker of 3 | **violated**: a connection can wait behind a stream while no thread is started for it |

Deadlock checking is on in `handle` and `manager`, where `Over` names the states
in which everybody is done; elsewhere it is off because the modelled system may
stop: a process ends, each request runs once, streams end.

**Bounds.** Three handlers are a lease stream, a request and a third party
(release, second stream, shutdown) at the same time; each property relates at most
three threads. Two leases give "the last of several"; the keepalives 0 and 1 are
the two cases of the code, and timers beyond 1 add only waiting. `leases` checks
liveness, where symmetry is unsound; its action constraint `Bounded` takes the
place: idle handlers and fresh identifiers are taken in order (`InOrder`, no
behaviour lost but for names), and a lease has a keepalive or an idle timeout, not
both, and neither while three threads are busy or the analysis runs (`FewOptions`); a
third thread becomes busy only while the host serves and no analysis runs
(`FewThreads`). It restricts steps of clients only, which no fairness condition
asks for. In `operations_live` the requests start in order (`InOrder`), and a
request names both the lease and the operation id or neither, which leaves one
that can be cancelled and released and one that cannot. Two requests are an
operation and its successor; two leases (in the violation run) an owner and a
peer. Two scanners and an owner are the three parties of a split lock, three
inodes let a lock path be recreated twice. A queue of two with four revisions
overflows and refills. Two resolvers are a launch and the recovery after it, or
two rivals; one edit is enough to be lost. In `handle` one thread of each kind
meets one of every other kind; calls serialise on `_request_lock`. In `manager`
two paths to one instance make two openers install the same record, and two
handles are a session and the one too many. In `gui` three registrations are
those of two providers and of one reload. Every number in this paragraph is free
in the theorems.

**Fairness.** Threads run (weak fairness of each thread's own progress), time
passes, a job that was started returns, an exchange with an instance that is gone
fails. In `leases` a slice ends while the host serves, and the analysis thread
ends once it may not start another one. In `handle` an operation that was
interrupted ends (the interrupt is an exception in its thread), and one that
entered starts. Clients, signals, crashes and cancellations owe nothing: nobody has to
open, call, close or shut down, and an operation need not end by itself. Locks
grant no order: `AnalysisYields` therefore rests on the foreground intent and not
on lock fairness, as the comments in `_run_operation` say. `operations_live` is
finite because each request runs once, so a request cannot be overtaken for ever;
with an endless stream of rivals Python's locks promise nothing.
`NothingIsLeftBehind` states its assumptions in the formula: scans go on and
probers stop dying. In `manager` a handle owes its owner the first call of a
registered callback, which is what `HandleContract` grants. In `gui` a queued
release is strongly fair: IDA runs queued requests whenever it dispatches, and
dispatching may be interrupted again and again by databases that open and close.
The fair specifications of the violation runs are the weakest under which the
refuted promise could be expected.

**Assumption on idalib.** `StopServingLatched = TRUE`: a `stop_serving()` that
comes before `serve()` makes it return at once. See (b) below.

## What is proved

All theorems are about `Spec`, for every value of the constants that satisfies the
module's assumption. Each proof module opens with its argument, has an inductive
invariant as a conjunction of named parts, and a step lemma for each part or each
group of actions.

The assumptions say little. `LeasesAssumption`: handlers are finitely many, the
"none" values are no members, the timeouts have their types.
`OperationsAssumption`, `EventsAssumption`, `RegistryAssumption`,
`HandleAssumption`, `ManagerAssumption`, `GuiAssumption`, `ResolverAssumption`:
names of threads of different kinds are different, and "nobody" is no thread.
`HTTPWorkerPool` assumes nothing.

**NexusLeases_proofs.** The invariant `IInv` is the conjunction of

1. `TypeInv`: `TypeOK`, and that a handler of a lease stream has a real lease as
   its target;
2. `NoOrphanLease`: without it `leases[l]` might be a handler that does other
   things, and detaching would touch a foreign object;
3. `RequestAccounting`: shutdown is granted on `_active_requests = 1`, and only
   accounting says that the one request is the requester's own;
4. `DeadlineInv`: the deadline discipline, with what holds before the watchdog
   exists (`start()` arms the grace last);
5. `CommitInv`: once committed (drained or requested) nobody is admitted; an idle
   drain finds nobody; after a grant the owner's lease is the only one and its
   handler is the only counted request until it commits.

(5) uses (3), and (2) to (5) use (1). Actions that touch neither the tables nor
the counters (watchdog, host, signal, time) are treated together in `QuietStep`.
From it follow `AccountsStayExact`, `NobodyIsCutOff`, `SaveChoiceIsFinal` and,
with `UnmanagedInv`, `UnmanagedServerStays`. `OnlySignalsDo` has an invariant of
its own, `StrandInv`: without a signal the host is called out of `serve()` by
nobody but a watchdog that has joined the analysis, and no analysis starts after
that. `RequestsKeepTheirLease` assumes `~ReuseLeaseIds` and adds `SuspendInv`:
each lease counts exactly the requests that name it, so that one that is marked as
expiring has none.

`KeepsService` is the step simulation of `WorkerService`: opening a lease is
`Attach`, detaching is `Detach` or `DetachAndCommit`, the sweep that drains and the
grant of a shutdown are `Commit`, closing the IDB is `Close`, a signal is `Tell`, and
everything else is a stutter. The steps that need an invariant are those of the
threads that only carry out a stop: `StopsAreOwed` says that a thread which is
stopping the server was told to by a signal or completes a drain, so that the
drain of `stop()` itself is a stutter or a commitment that was asked for; and that
admission has ended before the IDB is being closed.

**NexusOperations_proofs.** `OperationsInv`: the backend has the request that is
past its acquire, one job at a time is in the runtime and it is the active
generation, a request's job runs only while the running fields name it, and these
cannot change while a canceller holds `_activity`. From it `TablesStayExact`,
`CancelledNeverRuns`, `InterruptsStayOwn` and the action property
`AnalysisAlwaysYields`.

**InstanceRegistry_proofs.** The argument is about the inode a prober has open:
lists are made of published records, so a prober opened the lock after its owner
did; while the path still leads to the owner's inode it is that one, which the
owner has locked, so the prober cannot acquire it and has to report the record.
From `RInv`: `OnlyTheDeadAreReaped`, and `RegistryStaysTrue` from `RecordsAreLocked`
and `NothingLiveIsMissed`.

**IdbEventHook_proofs.** The subscribers are counted exactly, the flag says what
is installed whenever the hook lock is free, the last one to leave is on its way
to the lock, and what was sent and what is queued is one history up to the last
revision unless the queue overflowed: `HookForSubscribers`, `HistoriesAreComplete`.

**DatabaseHandle_proofs.** `HandleInv` says of each actor what the tests it has
passed still mean, and of each operation what may still happen to it. From it `NothingOutlivesTheHandle`, `AnswersHold`,
`NothingIsReplayed`, and `KeepsContract`: initial states and steps map to those of
`HandleContract`, the safety half of the refinement.

**DatabaseManager_proofs.** `MInv` follows a handle from opening through being a
session to being lost or popped by one closer. From it `SessionsEndOnce`,
`LeasesHaveOwners`, `UnknownIdsAreOver`, `SelectionStaysHeld`, `ShutdownStaysFinal`,
and `HandlesStayInContract`, which joins the two client modules: the manager
relies on no more than what the handle is proved to implement.

**SpawnResolver_proofs.** `WorkPreserved` is far from inductive: a discard, an open
over crash leftovers and the save after a repair each destroy files because of what
a resolver saw many steps earlier. `SpawnInv` goes from the locks to the files: who
holds the spawn lock and the lock of `.id0`; a worker that clients can reach has no
startup guard; a worker no scan can see yet is waited for by its resolver, under
the spawn lock, hence `AloneInLaunch`; and `Safe`, which says what a pending launch
still knows of the files it looked at: nobody else has the database open, crash
leftovers that IDA will restore over are copied, the files that may be discarded
hold nothing that is not saved while the guard exists, a repair has no base to
overwrite, and a packed base is contained in the files that will replace it. `Safe`
holds until a launch is overtaken (`raced`). The files that may be discarded are
never ones that a foreign IDA left unpacked on purpose. From it
`CreatorsShareAWorker`, `NoEditIsLost`, `DiscardsAreSafe` and `GuardsAreRevoked`
(the last has no run: it is a part of the invariant). The abstract registry of
`SpawnResolver` is the promise `NothingLiveIsMissed` of `InstanceRegistry_proofs`.

**GuiProcess_proofs.** Of `GuiSession`: every live record is known to its provider, as the server
of its session or as its pending release; a loaded provider has no release
pending; nothing else happens during a start. `OneLiveRecord`,
`KeptRegistrations`. Of `HTTPWorkerPool`: `CountersAreExact`, and `ClosingIsComplete`: after
`server_close` has begun nothing is left in the queue, nothing slips from the queue
into a handler, and what is still served has had its socket shut. The argument is
that a connection is in one place and that a pool that closes holds at least a
`None` for each worker that may still wait. The two theorems about the pool have no
run of their own: its run is the violation below.

So every invariant and every action property that a passing run checks, and the
safety of both refinements, is proved. Model-checked only: the liveness properties,
`KeepsCommitments`, `OwnerHears` and `NothingIsLeftBehind` among them, because
fairness and `ENABLED` are outside the prover.

## Disagreements between the code and what it says

Shown by a run (see `findings` in `PROJECT.json` for lines and quotations):

1. *Release spares peers.* `_finish_lease_close` decides on the running lease in
   `_activity` and cancels outside it.
2. *Subscription before analysis.* `mark_complete` wakes the waiting stream before
   the main thread runs its completion callback; each then holds what the other
   needs.
3. *Unbounded growth for streams.* `process_request` starts no thread while a
   worker counts as idle, and a worker that was given a connection counts until it
   gets there: `k + 1` quick connections with `k` idle workers leave the last one
   behind the streams of the others.

Stated in a module and refuted by TLC, without a run of their own:

4. *Cleanup before close* (`CleanupBeforeClose` in `NexusLeases`). A granted
   `shutdown_database` drains without regard to a counted lease cleanup, against
   "managed shutdown cannot close the IDB before cleanup completes" in
   `_detach_lease`. Two handlers and one lease suffice.
5. *Only DEAD records may be removed* (`OnlyDeadRemoved` in `InstanceRegistry`).
   `sweep_orphan_locks` and `_reap_locked_record` close a lock before they unlink
   its path, so an owner's lock can be split from its path and its record reaped.
   This is why `LiveInstancesReported` and `ReapedOnlyWhenDead` speak of instances
   whose lock is not split. One record and two scanners suffice.

Met while modelling and kept as an assumption or a hazard:

* (a) *Lease identifiers used again.* `_request_finished` finds the lease by
  identifier. If a client released lease `x` with a request in flight and opened
  `x` again, that request's end would decrement the new lease's count:
  `RequestsSuspendExpiry` fails with `ReuseLeaseIds = TRUE`. `handle.py` draws a
  fresh uuid, hence `FALSE` in `leases` and in `RequestsKeepTheirLease`; the other
  theorems hold either way.
* (b) *`stop_serving()` before `serve()`.* With `StopServingLatched = FALSE` a
  final zero-keepalive release (or `--lease-grace 0`) between publication and
  `serve()` leaves a drained worker in its loop.
* (c) *An operation that has not entered `_run_sync`.* The cleanup of its lease
  finds no active kind, and nothing cancels the operation: it runs although
  "releasing a lease cancels its orphaned operation". A cancellation at that
  moment is acknowledged (`True`) and lost in the same way. Hence the exemption
  `LeftBehind` of `EverybodyIsServed`, and what `AnswersAreTrue` says of a `True`:
  the operation can no longer start from the queue, not that it stops.
* (d) `cancel_operation` may interrupt the `release_session` job of another lease.
  `CancelSparesSuccessors` is therefore about operations.
* (e) A dead record is reported `BLOCKED` while another scanner holds its lock for
  an instant.
* (f) *A guard that is looked at too early.* After a timeout `resolve_instance`
  looks at the startup guard (`_resolver.py:510`) and then at the process (513). A
  worker that completes its open, serves an edit and crashes between the two has
  its crash files discarded, although "the worker must have exited before native
  opening completed" (`docs/ARCHITECTURE.md`). `WorkPreserved` fails on this trace
  when `WorkerDisarms` does not set `raced`. `DiscardsLoseNothing` states what
  holds of the discard step itself: the resolver has the spawn lock, its worker is
  gone, and, unless the launch was overtaken, what it removes is saved elsewhere.
* (g) *An overtaken launch.* A resolver that timed out, or died, leaves a worker
  that may still open the database. If a second launch probed the files before
  that worker served an edit and crashed, the second one discards the leftovers or
  lets IDA restore the packed base over them, without a backup. The same holds for
  a foreign IDA in between. `raced` excuses these behaviours in `WorkPreserved`.
* (h) *A start that fails half way.* When the listener cannot be made after
  `InstanceRegistration` took the lock (`NexusHTTPServer.start`), the server does
  not know the registration, so `release()` leaves the lock held until the process
  ends. It is the state `leaked` of `GuiSession`, which `UnloadReleases` exempts.
* (i) *Two notices of one loss.* The monitor and `set_disconnect_callback` may both
  call back. `HandleContract` says so, and `EndsOnce` shows that the manager copes.
* (j) *A signal under a slice.* SIGINT or SIGTERM takes the main thread out of
  `serve()` at once; `stop()` then joins the analysis thread without a bound
  (`_server.py:323-329`), and that thread may wait in `execute_sync` for the main
  thread. The process ends only if IDA executes requests of a main thread that is
  not serving. `StopsInTheEnd` exempts this case (`StrandedBySignal`) and no other,
  and `OnlySignalsDo` says why there is no other: the watchdog joins the analysis
  before it lets `serve()` return. Without the exemption TLC refutes
  `KeepsCommitments`.
* (k) *A drain before the analysis is started.* When the watchdog has taken the
  server down by then, `start_autoanalysis()` raises ("must be started before"), and
  `main()` has no `server` to ask: it saves whatever a client had chosen and exits
  with 1. The model has the way (`HostStartsAnalysis`), not the choice.
* (l) *Lost or unknown.* `close_database` looks at its session twice; when the
  instance is lost in between it says "unknown database instance"
  (`manager.py:530-533`), where a call would name the loss. `UnknownIsOver` says
  when the word is used.

## Not modelled, and why

`_idb_events.py` is a table of conversions over the SDK with no control state of
its own; `_remote.py`, `_suggest.py`, `reference.py`, options, paths and models are
functions of their arguments; the CLI, the bootstrap and the scripts do I/O.
Listing instances for the user is a thin layer over the scans of
`InstanceRegistry`.

Left out of the modelled parts: authentication, JSON, HTTP framing, summaries and
event payloads, what an executed snippet computes, worker command lines; explicit
output paths and the Windows launcher and locks; the save and its verification
when a worker closes its IDB; whether IDA answers `execute_sync` after `serve()`.

## What could follow

* Explicit output paths and the Windows launcher in `SpawnResolver`.
* `wait_database_released` as one more prober of `InstanceRegistry`.
