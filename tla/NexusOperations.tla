-------------------------- MODULE NexusOperations --------------------------
(***************************************************************************)
(* Serialization and cancellation of database operations: the backend lock *)
(* and operation table of ida_nexus/_server.py above the execute_sync      *)
(* runtime of ida_nexus/_runtime.py.                                       *)
(*                                                                         *)
(* Threads are the requests, the cancel requests, the cleanup of each      *)
(* lease (named by the lease) and the startup analysis.  A job is a call   *)
(* of _run_sync: of a request, of a lease (release_session) or a slice of  *)
(* the analysis.  Each critical section of _activity or _active_lock is    *)
(* one action.  _cancel_operation keeps _activity while it takes           *)
(* _active_lock twice, so _activity has an explicit holder.                *)
(* Every thread and every slice runs once, so a generation can be named by *)
(* the one job that got it; numbers are only compared for equality.        *)
(***************************************************************************)
EXTENDS Naturals, FiniteSets

CONSTANTS
    Requests,      \* threads that serve an operation request
    Cancellers,    \* threads that serve POST /cancel_operation
    Leases,        \* lease identifiers
    NoLease,       \* lease_id is None
    OperationIds,  \* operation identifiers
    NoOperation,   \* operation_id is None
    Slices,        \* the slices initial analysis takes at most
    Nobody,        \* a lock that is free
    Gui            \* backend == "gui"

Jobs == Requests \union Leases \union Slices

ASSUME OperationsAssumption ==
    /\ NoLease \notin Leases
    /\ NoOperation \notin OperationIds
    /\ Nobody \notin Jobs \union Cancellers
    /\ Requests \cap (Cancellers \union Leases \union Slices) = {}
    /\ Leases \cap (Cancellers \union Slices) = {}
    /\ Gui \in BOOLEAN
    /\ IsFiniteSet(Requests)

VARIABLES
    \* _server.py
    pc,            \* where each request is in _run_operation
    key,           \* the (lease_id, operation_id) of each request
    installed,     \* the keys of _leases
    pending,       \* _pending_operations
    cancelled,     \* _cancelled_operations
    waiters,       \* _foreground_waiters
    backendLock,   \* holder of _backend_lock
    running,       \* _running_lease_id and _running_operation_id
    activity,      \* a canceller that holds _activity across steps
    cleanup,       \* where each lease is in its life
    canceller,     \* where each cancel request is
    cancelKey,     \* the key each cancel request names
    analysis,      \* where the startup analysis is
    \* _runtime.py
    job,           \* where each job is in _run_sync
    generation,    \* _active_generation: the job that entered last
    kindSet,       \* whether _active_kind is set
    threadSet,     \* whether _active_thread_id is set
    interrupt,     \* whether _active_interrupt_error is set
    snapshot,      \* generation read by cancel_active, per caller
    timer,         \* the deadline of each request's job
    nativeFlag,    \* ida_kernwin.set_cancelled()
    deferred,      \* generations of queued cancel_native callbacks
    \* history
    outcome,       \* how each job ended
    hits,          \* <<cause, job>>: who interrupted what
    ackQueued      \* requests whose cancel was acknowledged while queued

serverVars == <<pc, key, installed, pending, cancelled, waiters, backendLock,
                running, activity, cleanup, canceller, cancelKey, analysis>>
runtimeVars == <<job, generation, kindSet, threadSet, interrupt, snapshot,
                 timer, nativeFlag, deferred>>
historyVars == <<outcome, hits, ackQueued>>
vars == <<serverVars, runtimeVars, historyVars>>

Key == [lease : Leases \union {NoLease},
        operation : OperationIds \union {NoOperation}]
NoKey == [lease |-> NoLease, operation |-> NoOperation]

Callers == Cancellers \union Leases   \* the callers of cancel_active

Init ==
    /\ pc = [r \in Requests |-> "idle"]
    /\ key = [r \in Requests |-> NoKey]
    /\ installed = Leases
    /\ pending = {}
    /\ cancelled = {}
    /\ waiters = 0
    /\ backendLock = Nobody
    /\ running = NoKey
    /\ activity = Nobody
    /\ cleanup = [l \in Leases |-> "installed"]
    /\ canceller = [c \in Cancellers |-> "idle"]
    /\ cancelKey = [c \in Cancellers |-> NoKey]
    /\ analysis = "yielding"
    /\ job = [j \in Jobs |-> "out"]
    /\ generation = Nobody
    /\ kindSet = FALSE
    /\ threadSet = FALSE
    /\ interrupt = FALSE
    /\ snapshot = [x \in Callers |-> Nobody]
    /\ timer = [r \in Requests |-> "none"]
    /\ nativeFlag = FALSE
    /\ deferred = {}
    /\ outcome = [j \in Jobs |-> "none"]
    /\ hits = {}
    /\ ackQueued = {}

-----------------------------------------------------------------------------
(* _run_operation *)

\* The key is already in _pending_operations.
NeverDuplicate(k) == FALSE   \* variant: ids are not compared
Duplicate(k) == k.operation # NoOperation /\ k \in pending

IntentUnpublished == waiters   \* variant: the intent is not counted
IntentPublished == waiters + 1

\* Publish the key and the foreground intent in one critical section.  The
\* lease was active when the request was counted (NexusLeases) but may have
\* been detached since.
RequestArrives(r, k) ==
    /\ activity = Nobody
    /\ pc[r] = "idle"
    /\ key' = [key EXCEPT ![r] = k]
    /\ IF Duplicate(k)
       THEN /\ pc' = [pc EXCEPT ![r] = "done"]
            /\ UNCHANGED <<pending, waiters>>
       ELSE /\ pc' = [pc EXCEPT ![r] = "waiting"]
            /\ pending' = IF k.operation = NoOperation
                          THEN pending ELSE pending \union {k}
            /\ waiters' = IntentPublished
    /\ UNCHANGED <<installed, cancelled, backendLock, running, activity,
                   cleanup, canceller, cancelKey, analysis,
                   runtimeVars, historyVars>>

RequestAcquires(r) ==
    /\ pc[r] = "waiting"
    /\ backendLock = Nobody
    /\ backendLock' = r
    /\ pc' = [pc EXCEPT ![r] = "acquired"]
    /\ UNCHANGED <<key, installed, pending, cancelled, waiters, running,
                   activity, cleanup, canceller, cancelKey, analysis,
                   runtimeVars, historyVars>>

\* The timed acquire failed and the key was found cancelled meanwhile.
RequestGivesUp(r) ==
    /\ activity = Nobody
    /\ pc[r] = "waiting"
    /\ key[r] \in cancelled
    /\ pc' = [pc EXCEPT ![r] = "quitting"]
    /\ UNCHANGED <<key, installed, pending, cancelled, waiters, backendLock,
                   running, activity, cleanup, canceller, cancelKey, analysis, runtimeVars, historyVars>>

\* finally: the foreground intent is withdrawn, with or without the lock.
IntentKept == waiters   \* variant: the intent is not withdrawn
IntentWithdrawn == waiters - 1

RequestStopsWaiting(r) ==
    /\ activity = Nobody
    /\ pc[r] \in {"acquired", "quitting"}
    /\ waiters' = IntentWithdrawn
    /\ pc' = [pc EXCEPT ![r] =
                IF pc[r] = "acquired" THEN "admitted" ELSE "leaving"]
    /\ UNCHANGED <<key, installed, pending, cancelled, backendLock, running,
                   activity, cleanup, canceller, cancelKey, analysis,
                   runtimeVars, historyVars>>

\* The operation may still run now that it has the backend.
LeaseStillInstalled(r) ==   \* variant: the cancelled set is not looked at
    key[r].lease # NoLease => key[r].lease \in installed
MayRun(r) ==
    /\ key[r].lease # NoLease => key[r].lease \in installed
    /\ key[r] \notin cancelled

\* A refused operation hands the backend on.
RefusedKeepsBackend == backendLock   \* variant: the lock is not released
RefusedReleases == Nobody

\* Set the running fields and call the operation, or raise.
RequestRuns(r) ==
    /\ activity = Nobody
    /\ pc[r] = "admitted"
    /\ IF MayRun(r)
       THEN /\ running' = key[r]
            /\ job' = [job EXCEPT ![r] = "queued"]
            /\ pc' = [pc EXCEPT ![r] = "running"]
            /\ UNCHANGED backendLock
       ELSE /\ backendLock' = RefusedReleases
            /\ pc' = [pc EXCEPT ![r] = "leaving"]
            /\ UNCHANGED <<running, job>>
    /\ UNCHANGED <<key, installed, pending, cancelled, waiters, activity,
                   cleanup, canceller, cancelKey, analysis, generation,
                   kindSet, threadSet, interrupt, snapshot,
                   timer, nativeFlag, deferred, historyVars>>

RunningForgotten == running   \* variant: the fields are not cleared
RunningCleared == NoKey

\* finally: clear the running fields before the backend is handed on.
RequestClears(r) ==
    /\ activity = Nobody
    /\ pc[r] = "running"
    /\ job[r] = "finished"
    /\ running' = IF running = key[r] THEN RunningCleared ELSE running
    /\ pc' = [pc EXCEPT ![r] = "cleared"]
    /\ UNCHANGED <<key, installed, pending, cancelled, waiters, backendLock,
                   activity, cleanup, canceller, cancelKey, analysis,
                   runtimeVars, historyVars>>

RequestReleases(r) ==
    /\ pc[r] = "cleared"
    /\ backendLock' = Nobody
    /\ pc' = [pc EXCEPT ![r] = "leaving"]
    /\ UNCHANGED <<key, installed, pending, cancelled, waiters, running,
                   activity, cleanup, canceller, cancelKey, analysis,
                   runtimeVars, historyVars>>

\* The cancel flag goes with the key, so that the id can be used again.
FlagKept(k) == cancelled   \* variant: only _pending_operations is cleaned
FlagDiscarded(k) == cancelled \ {k}

RequestLeaves(r) ==
    /\ activity = Nobody
    /\ pc[r] = "leaving"
    /\ pending' = pending \ {key[r]}
    /\ cancelled' = FlagDiscarded(key[r])
    /\ pc' = [pc EXCEPT ![r] = "done"]
    /\ UNCHANGED <<key, installed, waiters, backendLock, running, activity,
                   cleanup, canceller, cancelKey, analysis,
                   runtimeVars, historyVars>>

-----------------------------------------------------------------------------
(* _run_sync, on behalf of any job *)

OperationLockFree == \A j \in Jobs : job[j] \notin {"entered", "invoked", "returned"}

\* Under _operation_lock: a new generation becomes the active one.
JobEnters(j) ==
    /\ job[j] = "queued"
    /\ OperationLockFree
    /\ job' = [job EXCEPT ![j] = "entered"]
    /\ generation' = j
    /\ kindSet' = TRUE
    /\ threadSet' = FALSE
    /\ interrupt' = FALSE
    /\ UNCHANGED <<serverVars, snapshot, timer, nativeFlag, deferred,
                   historyVars>>

\* invoke() on the main thread: an interrupt that came before the function
\* starts is raised instead of starting it.
JobInvokes(j) ==
    /\ job[j] = "entered"
    /\ nativeFlag' = FALSE
    /\ IF interrupt
       THEN /\ job' = [job EXCEPT ![j] = "returned"]
            /\ outcome' = [outcome EXCEPT ![j] = "interrupted"]
            /\ UNCHANGED <<threadSet, timer>>
       ELSE /\ job' = [job EXCEPT ![j] = "invoked"]
            /\ threadSet' = TRUE
            /\ timer' = IF j \in Requests
                        THEN [timer EXCEPT ![j] = "armed"] ELSE timer
            /\ UNCHANGED outcome
    /\ UNCHANGED <<serverVars, generation, kindSet, interrupt,
                   snapshot, deferred, hits, ackQueued>>

\* The function returned, perhaps with an interruption on its way, or was
\* interrupted; its deadline is cancelled unless its callback already runs.
JobReturns(j) ==
    /\ job[j] = "invoked"
    /\ job' = [job EXCEPT ![j] = "returned"]
    /\ threadSet' = FALSE
    /\ nativeFlag' = FALSE
    /\ timer' = IF j \in Requests /\ timer[j] = "armed"
                THEN [timer EXCEPT ![j] = "none"] ELSE timer
    /\ \E result \in {"completed", "interrupted"} :
         /\ result = "interrupted" => interrupt
         /\ outcome' = [outcome EXCEPT ![j] = result]
    /\ UNCHANGED <<serverVars, generation, kindSet, interrupt,
                   snapshot, deferred, hits, ackQueued>>

\* finally: the active operation is cleared and _operation_lock is released.
JobLeaves(j) ==
    /\ job[j] = "returned"
    /\ job' = [job EXCEPT ![j] = "finished"]
    /\ kindSet' = FALSE
    /\ interrupt' = FALSE
    /\ nativeFlag' = FALSE
    /\ UNCHANGED <<serverVars, generation, threadSet, snapshot,
                   timer, deferred, historyVars>>

\* The test _interrupt_active makes under _active_lock.
StillSomeActive(g) ==   \* variant: the generation is not compared
    /\ kindSet
    /\ ~interrupt
StillActive(g) ==
    /\ generation = g
    /\ kindSet
    /\ ~interrupt

\* _interrupt_active for generation g, because of cause.
InterruptActive(g, cause) ==
    IF StillActive(g)
    THEN /\ interrupt' = TRUE
         /\ nativeFlag' = (nativeFlag \/ ~Gui)
         /\ deferred' = IF Gui THEN deferred \union {g} ELSE deferred
         /\ hits' = hits \union {<<cause, generation>>}
    ELSE UNCHANGED <<interrupt, nativeFlag, deferred, hits>>

\* The deadline scheduler has taken the entry off its heap ...
TimerPops(r) ==
    /\ timer[r] = "armed"
    /\ timer' = [timer EXCEPT ![r] = "firing"]
    /\ UNCHANGED <<serverVars, job, generation, kindSet,
                   threadSet, interrupt, snapshot, nativeFlag, deferred,
                   historyVars>>

\* ... and its callback runs, perhaps after the job has ended.
TimerFires(r) ==
    /\ timer[r] = "firing"
    /\ timer' = [timer EXCEPT ![r] = "none"]
    /\ InterruptActive(r, r)
    /\ UNCHANGED <<serverVars, job, generation, kindSet,
                   threadSet, snapshot, outcome, ackQueued>>

\* The queued cancel_native callback checks that its operation still runs.
NativeAlways(g) == TRUE   \* variant: the queued callback does not check
NativeApplies(g) == generation = g /\ kindSet /\ interrupt /\ threadSet

NativeCancel(g) ==
    /\ g \in deferred
    /\ deferred' = deferred \ {g}
    /\ nativeFlag' = (nativeFlag \/ NativeApplies(g))
    /\ UNCHANGED <<serverVars, job, generation, kindSet,
                   threadSet, interrupt, snapshot, timer, historyVars>>

-----------------------------------------------------------------------------
(* POST /cancel_operation *)

\* _activity is kept until the interruption has been delivered.
HoldNothing(c) == Nobody   \* variant: _activity is released first
HoldActivity(c) == c

CancelArrives(c, k) ==
    /\ activity = Nobody
    /\ canceller[c] = "idle"
    /\ k.lease # NoLease
    /\ k \in pending
    /\ cancelKey' = [cancelKey EXCEPT ![c] = k]
    /\ cancelled' = cancelled \union {k}
    /\ IF running = k
       THEN /\ canceller' = [canceller EXCEPT ![c] = "reading"]
            /\ activity' = HoldActivity(c)
       ELSE /\ canceller' = [canceller EXCEPT ![c] = "done"]
            /\ UNCHANGED activity
    /\ ackQueued' = ackQueued \union
                      {r \in Requests : /\ key[r] = k
                                        /\ pc[r] \in {"waiting", "acquired",
                                                      "admitted"}}
    /\ UNCHANGED <<pc, key, installed, pending, waiters, backendLock, running,
                   cleanup, analysis, runtimeVars, outcome, hits>>

\* cancel_active: read the generation, and stop there if nothing is active.
CancelReads(c) ==
    /\ canceller[c] = "reading"
    /\ snapshot' = [snapshot EXCEPT ![c] =
                      IF kindSet THEN generation ELSE Nobody]
    /\ canceller' = [canceller EXCEPT ![c] =
                       IF ~kindSet THEN "done" ELSE "interrupting"]
    /\ activity' = IF ~kindSet THEN Nobody ELSE activity
    /\ UNCHANGED <<pc, key, installed, pending, cancelled, waiters,
                   backendLock, running, cleanup, cancelKey, analysis,
                   job, generation, kindSet, threadSet,
                   interrupt, timer, nativeFlag, deferred, historyVars>>

CancelInterrupts(c) ==
    /\ canceller[c] = "interrupting"
    /\ InterruptActive(snapshot[c], c)
    /\ snapshot' = [snapshot EXCEPT ![c] = Nobody]
    /\ canceller' = [canceller EXCEPT ![c] = "done"]
    /\ activity' = Nobody
    /\ UNCHANGED <<pc, key, installed, pending, cancelled, waiters,
                   backendLock, running, cleanup, cancelKey, analysis,
                   job, generation, kindSet, threadSet, timer, outcome, ackQueued>>

-----------------------------------------------------------------------------
(* _detach_lease and _finish_lease_close *)

LeaseDetaches(l) ==
    /\ activity = Nobody
    /\ cleanup[l] = "installed"
    /\ installed' = installed \ {l}
    /\ cleanup' = [cleanup EXCEPT ![l] = "detached"]
    /\ UNCHANGED <<pc, key, pending, cancelled, waiters, backendLock, running,
                   activity, canceller, cancelKey, analysis,
                   runtimeVars, historyVars>>

\* owns_running_operation is read under _activity ...
CleanupChecks(l) ==
    /\ activity = Nobody
    /\ cleanup[l] = "detached"
    /\ cleanup' = [cleanup EXCEPT ![l] =
                     IF running.lease = l THEN "reading" ELSE "session"]
    /\ UNCHANGED <<pc, key, installed, pending, cancelled, waiters,
                   backendLock, running, activity, canceller, cancelKey,
                   analysis, runtimeVars, historyVars>>

\* ... and cancel_active is called without any lock of the server.
CleanupReads(l) ==
    /\ cleanup[l] = "reading"
    /\ snapshot' = [snapshot EXCEPT ![l] =
                      IF kindSet THEN generation ELSE Nobody]
    /\ cleanup' = [cleanup EXCEPT ![l] =
                     IF ~kindSet THEN "session" ELSE "interrupting"]
    /\ UNCHANGED <<pc, key, installed, pending, cancelled, waiters,
                   backendLock, running, activity, canceller, cancelKey,
                   analysis, job, generation, kindSet,
                   threadSet, interrupt, timer, nativeFlag, deferred,
                   historyVars>>

CleanupInterrupts(l) ==
    /\ cleanup[l] = "interrupting"
    /\ InterruptActive(snapshot[l], l)
    /\ snapshot' = [snapshot EXCEPT ![l] = Nobody]
    /\ cleanup' = [cleanup EXCEPT ![l] = "session"]
    /\ UNCHANGED <<pc, key, installed, pending, cancelled, waiters,
                   backendLock, running, activity, canceller, cancelKey,
                   analysis, job, generation, kindSet,
                   threadSet, timer, outcome, ackQueued>>

\* release_session runs through _run_sync without the backend lock.
CleanupReleasesSession(l) ==
    /\ cleanup[l] = "session"
    /\ job' = [job EXCEPT ![l] = "queued"]
    /\ cleanup' = [cleanup EXCEPT ![l] = "releasing"]
    /\ UNCHANGED <<pc, key, installed, pending, cancelled, waiters,
                   backendLock, running, activity, canceller, cancelKey,
                   analysis, generation, kindSet,
                   threadSet, interrupt, snapshot, timer, nativeFlag, deferred,
                   historyVars>>

CleanupEnds(l) ==
    /\ cleanup[l] = "releasing"
    /\ job[l] = "finished"
    /\ cleanup' = [cleanup EXCEPT ![l] = "done"]
    /\ UNCHANGED <<pc, key, installed, pending, cancelled, waiters,
                   backendLock, running, activity, canceller, cancelKey,
                   analysis, runtimeVars, historyVars>>

-----------------------------------------------------------------------------
(* _run_startup_autoanalysis *)

\* _acquire_startup_analysis: only when no foreground operation is queued.
BackendFree == backendLock = Nobody   \* variant: lock fairness is trusted
MayStartSlice == backendLock = Nobody /\ waiters = 0

AnalysisAcquires(s) ==
    /\ activity = Nobody
    /\ analysis = "yielding"
    /\ job[s] = "out"
    /\ MayStartSlice
    /\ backendLock' = s
    /\ job' = [job EXCEPT ![s] = "queued"]
    /\ analysis' = "advancing"
    /\ UNCHANGED <<pc, key, installed, pending, cancelled, waiters, running,
                   activity, cleanup, canceller, cancelKey, generation,
                   kindSet, threadSet, interrupt, snapshot, timer, nativeFlag,
                   deferred, historyVars>>

\* The slice ended: the analysis yields, is complete, or was stopped by an
\* error.
AnalysisReleases(s) ==
    /\ analysis = "advancing"
    /\ backendLock = s
    /\ job[s] = "finished"
    /\ backendLock' = Nobody
    /\ analysis' = IF outcome[s] = "interrupted" \/ \A x \in Slices : job[x] # "out"
                   THEN "ended" ELSE "yielding"
    /\ UNCHANGED <<pc, key, installed, pending, cancelled, waiters, running,
                   activity, cleanup, canceller, cancelKey, runtimeVars,
                   historyVars>>

-----------------------------------------------------------------------------
RequestProgress(r) ==
    \/ RequestAcquires(r)
    \/ RequestGivesUp(r)
    \/ RequestStopsWaiting(r)
    \/ RequestRuns(r)
    \/ RequestClears(r)
    \/ RequestReleases(r)
    \/ RequestLeaves(r)

JobProgress(j) ==
    \/ JobEnters(j)
    \/ JobInvokes(j)
    \/ JobReturns(j)
    \/ JobLeaves(j)

CancelProgress(c) == CancelReads(c) \/ CancelInterrupts(c)

CleanupProgress(l) ==
    \/ CleanupChecks(l)
    \/ CleanupReads(l)
    \/ CleanupInterrupts(l)
    \/ CleanupReleasesSession(l)
    \/ CleanupEnds(l)

AnalysisProgress ==
    \E s \in Slices : AnalysisAcquires(s) \/ AnalysisReleases(s)

Next ==
    \/ \E r \in Requests :
         \/ \E k \in Key : RequestArrives(r, k)
         \/ RequestProgress(r)
         \/ TimerPops(r)
         \/ TimerFires(r)
    \/ \E j \in Jobs : JobProgress(j)
    \/ \E c \in Cancellers :
         \/ \E k \in Key : CancelArrives(c, k)
         \/ CancelProgress(c)
    \/ \E l \in Leases : LeaseDetaches(l) \/ CleanupProgress(l)
    \/ \E g \in deferred : NativeCancel(g)
    \/ AnalysisProgress

Spec == Init /\ [][Next]_vars

\* Threads run.  Locks need no stronger fairness here: every thread asks for
\* each of them a bounded number of times.
Fairness ==
    /\ \A r \in Requests : WF_vars(RequestProgress(r))
    /\ \A j \in Jobs : WF_vars(JobProgress(j))
    /\ \A c \in Cancellers : WF_vars(CancelProgress(c))
    /\ \A l \in Leases : WF_vars(CleanupProgress(l))
    /\ WF_vars(AnalysisProgress)

FairSpec == Spec /\ Fairness

-----------------------------------------------------------------------------
(* Properties *)

\* Every variable has its type.
TypeOK ==
    /\ pc \in [Requests -> {"idle", "waiting", "acquired", "quitting",
                            "admitted", "running", "cleared", "leaving", "done"}]
    /\ key \in [Requests -> Key]
    /\ installed \in SUBSET Leases
    /\ pending \in SUBSET Key
    /\ cancelled \in SUBSET Key
    /\ waiters \in Nat
    /\ backendLock \in Requests \union Slices \union {Nobody}
    /\ running \in Key
    /\ activity \in Cancellers \union {Nobody}
    /\ cleanup \in [Leases -> {"installed", "detached", "reading",
                               "interrupting", "session", "releasing", "done"}]
    /\ canceller \in [Cancellers -> {"idle", "reading", "interrupting", "done"}]
    /\ cancelKey \in [Cancellers -> Key]
    /\ analysis \in {"yielding", "advancing", "ended"}
    /\ job \in [Jobs -> {"out", "queued", "entered", "invoked", "returned",
                         "finished"}]
    /\ generation \in Jobs \union {Nobody}
    /\ kindSet \in BOOLEAN
    /\ threadSet \in BOOLEAN
    /\ interrupt \in BOOLEAN
    /\ snapshot \in [Callers -> Jobs \union {Nobody}]
    /\ timer \in [Requests -> {"none", "armed", "firing"}]
    /\ nativeFlag \in BOOLEAN
    /\ deferred \in SUBSET Jobs
    /\ outcome \in [Jobs -> {"none", "interrupted", "completed"}]
    /\ hits \in SUBSET ((Callers \union Requests) \X Jobs)
    /\ ackQueued \in SUBSET Requests

InFlight == {r \in Requests : pc[r] \notin {"idle", "done"}}

\* The running fields name exactly the request whose operation has the backend
\* lock: cancel, release and shutdown decide on what is really running.
RunningFieldsExact ==
    /\ \A r \in Requests : pc[r] = "running" => backendLock = r /\ running = key[r]
    /\ (\A r \in Requests : pc[r] # "running") => running = NoKey

\* Two operations in flight never share an operation identifier of one lease,
\* and a cancel flag never outlives the operation it was meant for: an id used
\* again starts uncancelled.
OperationTableExact ==
    /\ pending = {key[r] : r \in {q \in InFlight : key[q].operation # NoOperation}}
    /\ cancelled \subseteq pending
    /\ \A q, r \in InFlight : q # r /\ key[q] = key[r] => key[q].operation = NoOperation

\* The tables that cancel_operation, release and shutdown decide on are exact:
\* see the two parts.
TablesAreExact == RunningFieldsExact /\ OperationTableExact

\* A queued operation whose cancellation was acknowledged never executes.
CancelledWhileQueuedNeverRuns ==
    \A r \in ackQueued : pc[r] # "running" /\ outcome[r] = "none"

\* cancel_operation never interrupts the operation of another request, however
\* fast the backend is handed to a successor: _activity is held until the
\* interruption has been delivered.
CancelSparesSuccessors ==
    \A h \in hits : h[1] \in Cancellers /\ h[2] \in Requests =>
        key[h[2]] = cancelKey[h[1]]

\* A deadline only ever interrupts the operation that armed it, even when its
\* callback runs after the operation has ended.
DeadlineHitsOwnOperation ==
    \A h \in hits : h[1] \in Requests => h[2] = h[1]

\* While a job executes, IDA's cancelled flag is set only if this very job was
\* interrupted: no flag of a predecessor, nor a late queued callback in the
\* GUI, cancels a successor natively.
NativeFlagIsOwn == threadSet /\ nativeFlag => interrupt

\* What is meant for one operation never interrupts another: neither a cancel,
\* nor a deadline, nor IDA's own cancelled flag.
InterruptsItsOwn ==
    CancelSparesSuccessors /\ DeadlineHitsOwnOperation /\ NativeFlagIsOwn

\* The startup analysis never takes the backend from a queued operation: when
\* a slice is about to start, every request in the queue came after it.
AnalysisYields ==
    [][analysis = "yielding" /\ analysis' = "advancing" =>
         \A r \in Requests : pc[r] \notin {"waiting", "acquired", "quitting"}]_vars

\* Every operation request is answered, one that is cancelled or whose lease is
\* released at any step included, as long as each job that was started returns.
EveryRequestEnds == \A r \in Requests : pc[r] = "waiting" ~> pc[r] = "done"

\* Every detached lease gets its session released, and foreground intent that
\* is withdrawn lets the startup analysis go on to its end.
CleanupAndAnalysisEnd ==
    /\ \A l \in Leases : cleanup[l] = "detached" ~> cleanup[l] = "done"
    /\ <>(analysis = "ended")

\* Everybody who shares the backend comes to an end: requests, the cleanups of
\* leases and the analysis.
EverythingEnds == EveryRequestEnds /\ CleanupAndAnalysisEnd

\* Releasing a lease "must preserve peers and must not cancel a successor
\* operation": the cleanup of a lease interrupts no other lease's operation.
ReleaseSparesPeers ==
    \A h \in hits : h[1] \in Leases /\ h[2] \in Requests =>
        key[h[2]].lease = h[1]
=============================================================================
