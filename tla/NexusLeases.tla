---------------------------- MODULE NexusLeases ----------------------------
(***************************************************************************)
(* Lease and request accounting of a Nexus HTTP server, the watchdog that  *)
(* drains a managed worker, and the host thread that closes the IDB        *)
(* (ida_nexus/_server.py, ida_nexus/_session.py, ida_nexus/cli/worker.py). *)
(*                                                                         *)
(* A handler is a thread of the HTTP pool serving one request at a time.   *)
(* It is an SSE lease stream, a release, a leased or unleased request, or  *)
(* a shutdown request.  Every critical section of the Condition _activity  *)
(* is one action.  Deadlines are kept as the time that remains and Tick    *)
(* lets one unit pass; a deadline of 0 is due, however late it is noticed. *)
(* Requests that are refused change no state and are not actions.          *)
(***************************************************************************)
EXTENDS Naturals, FiniteSets

CONSTANTS
    Handlers,          \* threads of the HTTP worker pool
    Leases,            \* lease identifiers
    NoLease,           \* a request that carries no lease
    NoHandler,         \* an identifier that is absent from _leases
    NoTimer,           \* a deadline that is None
    Keepalives,        \* the keepalives clients ask for
    IdleTimeouts,      \* the idle timeouts clients ask for, NoTimer for none
    LeaseGrace,        \* lease_grace, the startup grace
    Managed,           \* identity.managed
    ReuseLeaseIds,     \* whether a client may name a lease like a released one
    StopServingLatched \* whether stop_serving() before serve() is remembered

ASSUME LeasesAssumption ==
    /\ IsFiniteSet(Handlers)
    /\ NoLease \notin Leases
    /\ NoHandler \notin Handlers
    /\ NoTimer \notin Nat
    /\ Keepalives \subseteq Nat
    /\ IdleTimeouts \subseteq (Nat \ {0}) \union {NoTimer}
    /\ LeaseGrace \in Nat
    /\ Managed \in BOOLEAN
    /\ ReuseLeaseIds \in BOOLEAN
    /\ StopServingLatched \in BOOLEAN

VARIABLES
    pc,                \* where each handler is
    target,            \* the lease identifier each handler works on
    lease,             \* the _Lease object each SSE handler created
    leases,            \* _leases: identifier -> the handler of its object
    retired,           \* identifiers that were used before (history)
    activeRequests,    \* _active_requests
    shutdownAt,        \* _shutdown_at
    draining,          \* _draining
    shutdownRequested, \* _shutdown_requested
    saveOnShutdown,    \* _save_on_shutdown
    streamStop,        \* _stream_stop
    entry,             \* whether _entry is set
    watchdog,          \* where the thread ida-nexus-leases is
    host,              \* where the thread that owns the IDB is
    stopServing,       \* a stop_serving() the host has still to see
    stopSignal,        \* stop_signal: SIGINT or SIGTERM arrived
    analysis,          \* where the thread ida-nexus-autoanalysis is
    drainCause,        \* who set draining first (history)
    shutdownOwner      \* the lease whose shutdown was granted (history)

tableVars == <<lease, leases, retired>>
drainVars == <<draining, drainCause>>
hostVars  == <<entry, host, stopServing, stopSignal, analysis>>
vars == <<pc, target, tableVars, activeRequests, shutdownAt, drainVars,
          shutdownRequested, saveOnShutdown, streamStop, watchdog, hostVars,
          shutdownOwner>>

Timer == Nat \union {NoTimer}

\* class _Lease: the object a lease stream shares with _leases.
Lease == [keepalive      : Nat,
          idleTimeout    : Timer,
          activeRequests : Nat,
          idleDeadline   : Timer,
          expiring       : BOOLEAN,
          stop           : BOOLEAN]

NewLease(k, t) ==
    [keepalive |-> k, idleTimeout |-> t, activeRequests |-> 0,
     idleDeadline |-> t, expiring |-> FALSE, stop |-> FALSE]

\* What a handler that has no lease object is given.
NullLease == NewLease(0, NoTimer)

HandlerStates ==
    {"idle",
     "attaching", "streaming", "detaching",     \* GET /health?sse=1
     "cleanup",                                 \* detached, not yet cleaned up
     "request", "operating", "answered",        \* a counted request
     "granted", "committing"}                   \* POST /shutdown_database

\* The handlers _active_requests counts and those a lease counts.
RequestStates == {"request", "operating", "answered", "granted"}
CountedStates == RequestStates \union {"cleanup"}

WatchdogStates == {"absent", "watching", "stopping", "draining", "notifying",
                   "ended"}

HostStates == {"binding", "published", "entered", "started", "ready", "serving",
               "stopping", "draining", "closing", "closed", "released"}

\* No such thread, one between two slices, one that waits for IDA's main thread
\* or has its slice executed there.
AnalysisStates == {"none", "between", "slice"}

Installed == {l \in Leases : leases[l] # NoHandler}

\* The test every admission makes under _activity.
Admits == ~draining /\ ~shutdownRequested

\* Threads die with the process; no client knows the port before publication.
Alive     == host # "released"
Reachable == Alive /\ host # "binding"

\* A counter or a deadline that never goes below 0.
DecrementBelowZero(n) == n - 1   \* variant: the floor is missing
Decrement(n) == IF n > 0 THEN n - 1 ELSE 0

Init ==
    /\ pc = [h \in Handlers |-> "idle"]
    /\ target = [h \in Handlers |-> NoLease]
    /\ lease = [h \in Handlers |-> NullLease]
    /\ leases = [l \in Leases |-> NoHandler]
    /\ retired = {}
    /\ activeRequests = 0
    /\ shutdownAt = NoTimer
    /\ draining = FALSE
    /\ shutdownRequested = FALSE
    /\ saveOnShutdown = TRUE
    /\ streamStop = FALSE
    /\ entry = FALSE
    /\ watchdog = "absent"
    /\ host = "binding"
    /\ stopServing = FALSE
    /\ stopSignal = FALSE
    /\ analysis = "none"
    /\ drainCause = "none"
    /\ shutdownOwner = NoLease

-----------------------------------------------------------------------------
(* Lease streams *)

LeaseOpened(h, l, k, t) ==
    /\ Reachable
    /\ pc[h] = "idle"
    /\ Admits
    /\ leases[l] = NoHandler
    /\ ReuseLeaseIds \/ l \notin retired
    /\ lease' = [lease EXCEPT ![h] = NewLease(k, t)]
    /\ leases' = [leases EXCEPT ![l] = h]
    /\ shutdownAt' = NoTimer
    /\ retired' = retired \union {l}
    /\ target' = [target EXCEPT ![h] = l]
    /\ pc' = [pc EXCEPT ![h] = "attaching"]
    /\ UNCHANGED <<activeRequests, drainVars, shutdownRequested,
                   saveOnShutdown, streamStop, watchdog, hostVars,
                   shutdownOwner>>

\* The health payload is computed after the lease is installed; when that
\* fails the lease is closed again (except: self._lease_closed(lease_id)),
\* otherwise the stream starts.
FailedAttachForgotten == "idle"   \* variant: the lease is left installed
FailedAttach == "detaching"

LeaseAttached(h) ==
    /\ Alive
    /\ pc[h] = "attaching"
    /\ pc' = [pc EXCEPT ![h] =
                IF Admits /\ entry THEN "streaming" ELSE FailedAttach]
    /\ UNCHANGED <<target, tableVars, activeRequests, shutdownAt, drainVars,
                   shutdownRequested, saveOnShutdown, streamStop, watchdog,
                   hostVars, shutdownOwner>>

EndStream(h) ==
    /\ Alive
    /\ pc[h] = "streaming"
    /\ pc' = [pc EXCEPT ![h] = "detaching"]
    /\ UNCHANGED <<target, tableVars, activeRequests, shutdownAt, drainVars,
                   shutdownRequested, saveOnShutdown, streamStop, watchdog,
                   hostVars, shutdownOwner>>

\* A write to the stream fails: the client is gone.
ClientDisconnects(h) == EndStream(h)

\* The stream sees lease.stop or _stream_stop.
StreamStops(h) == (lease[h].stop \/ streamStop) /\ EndStream(h)

\* The cleanup that follows a detach counts like a request.
CleanupNotCounted == activeRequests   \* variant: only requests count
CleanupCounted == activeRequests + 1

\* The final lease starts the keepalive it asked for.
OnlyPositiveKeepalive(final, k) ==   \* variant: "if lease.keepalive"
    IF final /\ k > 0 THEN k ELSE shutdownAt
KeepaliveDeadline(final, k) == IF final THEN k ELSE shutdownAt

\* A final release with no keepalive commits a managed worker to shut down.
FinalReleaseCommits(final, k) == final /\ Managed /\ k = 0

\* _detach_lease for an identifier that is installed.
DetachLease(h, l) ==
    LET owner == leases[l]
        final == Installed = {l}
        keepalive == lease[owner].keepalive
    IN  /\ lease' = [lease EXCEPT ![owner].stop = TRUE]
        /\ leases' = [leases EXCEPT ![l] = NoHandler]
        /\ activeRequests' = CleanupCounted
        /\ shutdownAt' = KeepaliveDeadline(final, keepalive)
        /\ shutdownRequested' =
             (shutdownRequested \/ FinalReleaseCommits(final, keepalive))
        /\ target' = [target EXCEPT ![h] = l]
        /\ pc' = [pc EXCEPT ![h] = "cleanup"]
        /\ UNCHANGED <<retired, drainVars, saveOnShutdown, streamStop,
                       watchdog, hostVars, shutdownOwner>>

\* after_send of the stream (_lease_closed): nothing to do when an explicit
\* release came first.
StreamDetaches(h) ==
    /\ Alive
    /\ pc[h] = "detaching"
    /\ leases[target[h]] # NoHandler
    /\ DetachLease(h, target[h])

StreamAlreadyDetached(h) ==
    /\ Alive
    /\ pc[h] = "detaching"
    /\ leases[target[h]] = NoHandler
    /\ pc' = [pc EXCEPT ![h] = "idle"]
    /\ target' = [target EXCEPT ![h] = NoLease]
    /\ lease' = [lease EXCEPT ![h] = NullLease]
    /\ UNCHANGED <<leases, retired, activeRequests, shutdownAt, drainVars,
                   shutdownRequested, saveOnShutdown, streamStop, watchdog,
                   hostVars, shutdownOwner>>

\* POST /release_lease.
ReleaseLease(h, l) ==
    /\ Reachable
    /\ pc[h] = "idle"
    /\ leases[l] # NoHandler
    /\ DetachLease(h, l)

\* _finish_lease_close has cancelled the orphan and released the session.
CleanupFinished(h) ==
    /\ Alive
    /\ pc[h] = "cleanup"
    /\ activeRequests' = Decrement(activeRequests)
    /\ pc' = [pc EXCEPT ![h] = "idle"]
    /\ target' = [target EXCEPT ![h] = NoLease]
    /\ lease' = [lease EXCEPT ![h] = NullLease]
    /\ UNCHANGED <<leases, retired, shutdownAt, drainVars, shutdownRequested,
                   saveOnShutdown, streamStop, watchdog, hostVars,
                   shutdownOwner>>

-----------------------------------------------------------------------------
(* Counted requests *)

\* The lease a request names is active.
LeaseInstalled(l) ==   \* variant: lease.expiring is not looked at
    l # NoLease => leases[l] # NoHandler
LeaseUsable(l) ==
    l # NoLease => leases[l] # NoHandler /\ ~lease[leases[l]].expiring

RequestStarted(h, l) ==
    /\ Reachable
    /\ pc[h] = "idle"
    /\ Admits
    /\ LeaseUsable(l)
    /\ lease' = IF l = NoLease
                THEN lease
                ELSE [lease EXCEPT ![leases[l]].activeRequests = @ + 1,
                                   ![leases[l]].idleDeadline = NoTimer]
    /\ activeRequests' = activeRequests + 1
    /\ target' = [target EXCEPT ![h] = l]
    /\ pc' = [pc EXCEPT ![h] = "request"]
    /\ UNCHANGED <<leases, retired, shutdownAt, drainVars, shutdownRequested,
                   saveOnShutdown, streamStop, watchdog, hostVars,
                   shutdownOwner>>

RequestStep(h, from, to) ==
    /\ Alive
    /\ pc[h] = from
    /\ pc' = [pc EXCEPT ![h] = to]
    /\ UNCHANGED <<target, tableVars, activeRequests, shutdownAt, drainVars,
                   shutdownRequested, saveOnShutdown, streamStop, watchdog,
                   hostVars, shutdownOwner>>

\* _run_operation with an operation identifier (see NexusOperations): the
\* request is in _pending_operations exactly while it is "operating".
OperationBegins(h) == RequestStep(h, "request", "operating")
OperationEnds(h)   == RequestStep(h, "operating", "answered")

\* The lease object after _request_finished.
FinishOn(obj) ==
    IF obj.activeRequests = 0
    THEN obj
    ELSE [obj EXCEPT
            !.activeRequests = @ - 1,
            !.idleDeadline = IF /\ obj.activeRequests = 1
                                /\ ~obj.expiring
                                /\ obj.idleTimeout # NoTimer
                             THEN obj.idleTimeout
                             ELSE @]

RequestFinished(h) ==
    LET l == target[h]
        owner == IF l = NoLease THEN NoHandler ELSE leases[l]
    IN  /\ Alive
        /\ pc[h] \in {"request", "answered", "granted"}
        /\ activeRequests' = Decrement(activeRequests)
        /\ lease' = IF owner = NoHandler
                    THEN lease
                    ELSE [lease EXCEPT ![owner] = FinishOn(@)]
        /\ pc' = [pc EXCEPT ![h] =
                    IF pc[h] = "granted" THEN "committing" ELSE "idle"]
        /\ target' = [target EXCEPT ![h] = NoLease]
        /\ UNCHANGED <<leases, retired, shutdownAt, drainVars,
                       shutdownRequested, saveOnShutdown, streamStop,
                       watchdog, hostVars, shutdownOwner>>

-----------------------------------------------------------------------------
(* POST /shutdown_database *)

OperationsPending == \E h \in Handlers : pc[h] = "operating"

\* The requester holds the only lease and runs the only request.
OnlyLease(l) ==   \* variant: _active_requests is not looked at
    /\ Installed = {l}
    /\ ~OperationsPending
SharedOwner(l) ==   \* variant: other leases are not looked at
    /\ activeRequests = 1
    /\ ~OperationsPending
ExclusiveOwner(l) ==
    /\ Installed = {l}
    /\ activeRequests = 1
    /\ ~OperationsPending

RequestShutdown(h, save) ==
    /\ Alive
    /\ pc[h] = "request"
    /\ target[h] # NoLease
    /\ Managed
    /\ ExclusiveOwner(target[h])
    /\ shutdownRequested' = TRUE
    /\ saveOnShutdown' = save
    /\ shutdownOwner' = target[h]
    /\ pc' = [pc EXCEPT ![h] = "granted"]
    /\ UNCHANGED <<target, tableVars, activeRequests, shutdownAt, drainVars,
                   streamStop, watchdog, hostVars>>

\* A refusal only sends the error: the request goes on to RequestFinished.

\* after_send of a granted shutdown runs even when the client is gone.
BeginRequestedShutdown(h) ==
    /\ Alive
    /\ pc[h] = "committing"
    /\ draining' = TRUE
    /\ drainCause' = IF draining THEN drainCause ELSE "requested"
    /\ pc' = [pc EXCEPT ![h] = "idle"]
    /\ UNCHANGED <<target, tableVars, activeRequests, shutdownAt,
                   shutdownRequested, saveOnShutdown, streamStop, watchdog,
                   hostVars, shutdownOwner>>

-----------------------------------------------------------------------------
(* Time and the watchdog *)

TickDown(t) == IF t \in Nat THEN Decrement(t) ELSE t

\* One unit of time passes for every deadline.
Tick ==
    /\ Alive
    /\ shutdownAt' = TickDown(shutdownAt)
    /\ lease' = [h \in Handlers |->
                   [lease[h] EXCEPT !.idleDeadline = TickDown(@)]]
    /\ UNCHANGED <<pc, target, leases, retired, activeRequests, drainVars,
                   shutdownRequested, saveOnShutdown, streamStop, watchdog,
                   hostVars, shutdownOwner>>

\* The lease of handler h is installed, idle and past its deadline.
IdleExpired(h) ==
    /\ \E l \in Leases : leases[l] = h
    /\ ~lease[h].expiring
    /\ lease[h].activeRequests = 0
    /\ lease[h].idleDeadline = 0

ExpireSilently(h) ==   \* variant: lease.stop is not set
    IF IdleExpired(h) THEN [lease[h] EXCEPT !.expiring = TRUE] ELSE lease[h]
Expire(h) ==
    IF IdleExpired(h)
    THEN [lease[h] EXCEPT !.expiring = TRUE, !.stop = TRUE]
    ELSE lease[h]

\* Nothing holds the worker and its deadline has passed.
ShutdownDueUnlessLeased ==   \* variant: requests in flight do not count
    /\ Installed = {}
    /\ shutdownAt = 0
ShutdownDue ==
    /\ Installed = {}
    /\ activeRequests = 0
    /\ shutdownAt = 0

\* One pass of the inner loop of _watch_leases.  stop() may have begun since
\* the loop was entered: the watchdog then leaves the stopping to its caller.
WatchdogSweep ==
    /\ Alive
    /\ watchdog = "watching"
    /\ ~draining
    /\ lease' = [h \in Handlers |-> Expire(h)]
    /\ draining' = ShutdownDue
    /\ drainCause' = IF ShutdownDue THEN "idle" ELSE drainCause
    /\ watchdog' = CASE ~ShutdownDue -> "watching"
                     [] ShutdownDue /\ ~streamStop -> "stopping"
                     [] ShutdownDue /\ streamStop -> "ended"
    /\ UNCHANGED <<pc, target, leases, retired, activeRequests, shutdownAt,
                   shutdownRequested, saveOnShutdown, streamStop, hostVars,
                   shutdownOwner>>

WatchdogMoves(from, to) ==
    /\ Alive
    /\ watchdog = from
    /\ watchdog' = to
    /\ UNCHANGED <<pc, target, tableVars, activeRequests, shutdownAt,
                   shutdownRequested, saveOnShutdown, entry, host, stopSignal,
                   analysis, shutdownOwner>>

\* Someone else set _draining: stop the service unless that is being done.
WatchdogSeesDraining ==
    /\ draining /\ ~streamStop
    /\ WatchdogMoves("watching", "stopping")
    /\ UNCHANGED <<drainVars, streamStop, stopServing>>

WatchdogSeesStop ==
    /\ streamStop
    /\ WatchdogMoves("watching", "ended")
    /\ UNCHANGED <<drainVars, streamStop, stopServing>>

\* stop(), first outside _activity and then inside it.
WatchdogStopsStreams ==
    /\ WatchdogMoves("stopping", "draining")
    /\ streamStop' = TRUE
    /\ UNCHANGED <<drainVars, stopServing>>

StopLeases ==
    lease' = [h \in Handlers |->
                IF \E l \in Leases : leases[l] = h
                THEN [lease[h] EXCEPT !.stop = TRUE]
                ELSE lease[h]]

WatchdogStopsLeases ==
    /\ Alive
    /\ watchdog = "draining"
    /\ StopLeases
    /\ draining' = TRUE
    /\ drainCause' = IF draining THEN drainCause ELSE "stop"
    /\ watchdog' = "notifying"
    /\ UNCHANGED <<pc, target, leases, retired, activeRequests, shutdownAt,
                   shutdownRequested, saveOnShutdown, streamStop, hostVars,
                   shutdownOwner>>

\* variant: the analysis thread is not waited for.
NotifiesAtOnce ==
    /\ WatchdogMoves("notifying", "ended")
    /\ stopServing' = TRUE
    /\ UNCHANGED <<drainVars, streamStop>>

\* The last thing stop() does is to join the analysis thread, however long that
\* takes; then on_shutdown() is stop_serving().
WatchdogNotifies ==
    /\ analysis = "none"
    /\ WatchdogMoves("notifying", "ended")
    /\ stopServing' = TRUE
    /\ UNCHANGED <<drainVars, streamStop>>

-----------------------------------------------------------------------------
(* The host thread: session.start(), serve(), session.stop(), close *)

HostMoves(from, to) ==
    /\ host = from
    /\ host' = to
    /\ UNCHANGED <<pc, target, retired, leases, activeRequests,
                   shutdownRequested, saveOnShutdown, analysis, shutdownOwner>>

\* registration.publish() wrote the record; _entry is not assigned yet.
HostPublishes ==
    /\ HostMoves("binding", "published")
    /\ UNCHANGED <<lease, shutdownAt, drainVars, streamStop, watchdog, entry,
                   stopServing, stopSignal>>

\* start() failed before the record was visible: stop(), close and release
\* follow, and no client ever learns the port.
HostStartFails ==
    /\ HostMoves("binding", "released")
    /\ streamStop' = TRUE
    /\ draining' = TRUE
    /\ drainCause' = "stop"
    /\ UNCHANGED <<lease, shutdownAt, watchdog, entry, stopServing,
                   stopSignal>>

HostSetsEntry ==
    /\ HostMoves("published", "entered")
    /\ entry' = TRUE
    /\ UNCHANGED <<lease, shutdownAt, drainVars, streamStop, watchdog,
                   stopServing, stopSignal>>

\* Whether start() arms the startup grace.
NeverArmsGrace == FALSE   \* variant: no startup grace
ArmsGrace ==
    /\ shutdownAt = NoTimer
    /\ Installed = {}
    /\ ~shutdownRequested

HostArms ==
    /\ HostMoves("entered", "started")
    /\ shutdownAt' = IF ArmsGrace THEN LeaseGrace ELSE shutdownAt
    /\ watchdog' = IF Managed THEN "watching" ELSE "absent"
    /\ UNCHANGED <<lease, drainVars, streamStop, entry, stopServing,
                   stopSignal>>

\* The watchdog's stop() has taken _httpd: the server is not started any more.
ServerStopped == watchdog \in {"notifying", "ended"}

\* start_autoanalysis(), unless it is not wanted or the analysis is complete.  It
\* raises when the server is stopped by then, and serve() is not reached.
HostStartsAnalysis ==
    /\ host = "started"
    /\ \/ host' = "ready" /\ UNCHANGED analysis
       \/ ~ServerStopped /\ host' = "ready" /\ analysis' = "between"
       \/ ServerStopped /\ host' = "stopping" /\ UNCHANGED analysis
    /\ UNCHANGED <<pc, target, tableVars, activeRequests, shutdownAt, drainVars,
                   shutdownRequested, saveOnShutdown, streamStop, watchdog,
                   entry, stopServing, stopSignal, shutdownOwner>>

\* if stop_signal is None: kernwin.serve()
HostServes ==
    /\ HostMoves("ready", IF stopSignal THEN "stopping" ELSE "serving")
    /\ stopServing' = (StopServingLatched /\ stopServing)
    /\ UNCHANGED <<lease, shutdownAt, drainVars, streamStop, watchdog, entry,
                   stopSignal>>

HostLeavesServe ==
    /\ stopServing
    /\ HostMoves("serving", "stopping")
    /\ UNCHANGED <<lease, shutdownAt, drainVars, streamStop, watchdog, entry,
                   stopServing, stopSignal>>

\* session.stop(): server.stop() again, by this thread.
HostStopsStreams ==
    /\ HostMoves("stopping", "draining")
    /\ streamStop' = TRUE
    /\ UNCHANGED <<lease, shutdownAt, drainVars, watchdog, entry, stopServing,
                   stopSignal>>

HostStopsLeases ==
    /\ HostMoves("draining", "closing")
    /\ StopLeases
    /\ draining' = TRUE
    /\ drainCause' = IF draining THEN drainCause ELSE "stop"
    /\ UNCHANGED <<shutdownAt, streamStop, watchdog, entry, stopServing,
                   stopSignal>>

\* idapro.close_database(save).  Before it stop() waits for the handler threads
\* and the watchdog, which have a bounded time and so are no condition, and joins
\* the analysis thread, which has not.
HostCloses ==
    /\ analysis = "none"
    /\ HostMoves("closing", "closed")
    /\ UNCHANGED <<lease, shutdownAt, drainVars, streamStop, watchdog, entry,
                   stopServing, stopSignal>>

\* session.release() and process exit.
HostReleases ==
    /\ HostMoves("closed", "released")
    /\ entry' = FALSE
    /\ UNCHANGED <<lease, shutdownAt, drainVars, streamStop, watchdog,
                   stopServing, stopSignal>>

\* variant: the signal is only looked at before serve().
SignalUnheard ==
    /\ Alive
    /\ stopSignal' = TRUE
    /\ UNCHANGED <<pc, target, tableVars, activeRequests, shutdownAt,
                   drainVars, shutdownRequested, saveOnShutdown, streamStop,
                   watchdog, entry, host, stopServing, analysis, shutdownOwner>>

\* SIGINT or SIGTERM: request_stop().
Signal ==
    /\ Alive
    /\ stopSignal' = TRUE
    /\ stopServing' = TRUE
    /\ UNCHANGED <<pc, target, tableVars, activeRequests, shutdownAt,
                   drainVars, shutdownRequested, saveOnShutdown, streamStop,
                   watchdog, entry, host, analysis, shutdownOwner>>

-----------------------------------------------------------------------------
(* The startup analysis (its turns with other operations: NexusOperations)  *)

AnalysisMoves(from, to) ==
    /\ Alive
    /\ analysis = from
    /\ analysis' = to
    /\ UNCHANGED <<pc, target, tableVars, activeRequests, shutdownAt, drainVars,
                   shutdownRequested, saveOnShutdown, streamStop, watchdog,
                   entry, host, stopServing, stopSignal, shutdownOwner>>

\* No slice starts once the server stops or drains: both tests are made again
\* after the backend was acquired, the last time right before the slice.
MayAnalyse == ~streamStop /\ Admits

AnalysisBegins == MayAnalyse /\ AnalysisMoves("between", "slice")

\* execute_sync returns: more is left to do, or all is done or failed.
SliceEnds == \E next \in {"between", "none"} : AnalysisMoves("slice", next)

\* The thread ends: the analysis is complete, or the server stops.
AnalysisEnds == AnalysisMoves("between", "none")

-----------------------------------------------------------------------------
\* What a handler does once a client has asked for something.
HandlerProgress(h) ==
    \/ LeaseAttached(h)
    \/ StreamStops(h)
    \/ StreamDetaches(h)
    \/ StreamAlreadyDetached(h)
    \/ CleanupFinished(h)
    \/ OperationEnds(h)
    \/ RequestFinished(h)
    \/ BeginRequestedShutdown(h)

\* What clients ask for.
ClientStep(h) ==
    \/ \E l \in Leases, k \in Keepalives, t \in IdleTimeouts :
         LeaseOpened(h, l, k, t)
    \/ ClientDisconnects(h)
    \/ \E l \in Leases : ReleaseLease(h, l)
    \/ \E l \in Leases \union {NoLease} : RequestStarted(h, l)
    \/ OperationBegins(h)
    \/ \E save \in BOOLEAN : RequestShutdown(h, save)

WatchdogStep ==
    \/ WatchdogSweep
    \/ WatchdogSeesDraining
    \/ WatchdogSeesStop
    \/ WatchdogStopsStreams
    \/ WatchdogStopsLeases
    \/ WatchdogNotifies

HostProgress ==
    \/ HostPublishes
    \/ HostSetsEntry
    \/ HostArms
    \/ HostStartsAnalysis
    \/ HostServes
    \/ HostLeavesServe
    \/ HostStopsStreams
    \/ HostStopsLeases
    \/ HostCloses
    \/ HostReleases

AnalysisStep == AnalysisBegins \/ SliceEnds \/ AnalysisEnds

Next ==
    \/ \E h \in Handlers : HandlerProgress(h) \/ ClientStep(h)
    \/ Tick
    \/ WatchdogStep
    \/ HostProgress
    \/ AnalysisStep
    \/ HostStartFails
    \/ Signal

Spec == Init /\ [][Next]_vars

\* Threads run and time passes; clients and signals owe nothing.  A slice is
\* bounded, but IDA executes it on its main thread: whether that happens while
\* this thread is not in serve() is up to IDA.
Fairness ==
    /\ \A h \in Handlers : WF_vars(HandlerProgress(h))
    /\ WF_vars(Tick)
    /\ WF_vars(WatchdogStep)
    /\ WF_vars(HostProgress)
    /\ WF_vars(host = "serving" /\ SliceEnds)
    /\ WF_vars(~MayAnalyse /\ AnalysisEnds)

FairSpec == Spec /\ Fairness

-----------------------------------------------------------------------------
(* Properties *)

\* Every variable has its type.
TypeOK ==
    /\ pc \in [Handlers -> HandlerStates]
    /\ target \in [Handlers -> Leases \union {NoLease}]
    /\ lease \in [Handlers -> Lease]
    /\ leases \in [Leases -> Handlers \union {NoHandler}]
    /\ retired \in SUBSET Leases
    /\ activeRequests \in Nat
    /\ shutdownAt \in Timer
    /\ draining \in BOOLEAN
    /\ shutdownRequested \in BOOLEAN
    /\ saveOnShutdown \in BOOLEAN
    /\ streamStop \in BOOLEAN
    /\ entry \in BOOLEAN
    /\ watchdog \in WatchdogStates
    /\ host \in HostStates
    /\ stopServing \in BOOLEAN
    /\ stopSignal \in BOOLEAN
    /\ analysis \in AnalysisStates
    /\ drainCause \in {"none", "idle", "requested", "stop"}
    /\ shutdownOwner \in Leases \union {NoLease}

CountedHandlers == {h \in Handlers : pc[h] \in CountedStates}

\* _active_requests is exactly the number of requests and lease cleanups in
\* flight, whatever leases come, go or expire meanwhile: the floor in
\* _request_finished never hides a decrement that has no increment.
RequestAccounting == activeRequests = Cardinality(CountedHandlers)

\* An installed lease belongs to a stream that will still detach it: no path
\* of _lease_response leaves a lease behind that keeps the worker alive.
NoOrphanLease ==
    \A l \in Leases : leases[l] # NoHandler =>
        /\ pc[leases[l]] \in {"attaching", "streaming", "detaching"}
        /\ target[leases[l]] = l

\* A lease with requests in flight does not expire: "a lease-owned request
\* suspends expiration until it finishes".
RequestsSuspendExpiry ==
    \A h \in Handlers : pc[h] \in RequestStates =>
        \A l \in Installed : target[h] = l => ~lease[leases[l]].expiring

\* Once start() has created the watchdog, the shutdown deadline is armed
\* exactly when no lease holds the server: neither the startup grace nor a
\* late stream can leave an abandoned worker without one, or a held worker
\* with one.
DeadlineIffUnleased ==
    watchdog # "absent" =>
        (shutdownAt = NoTimer <=> Installed # {})

\* What the server decides on is exact: see the three parts.
AccountsAreExact == RequestAccounting /\ NoOrphanLease /\ DeadlineIffUnleased

\* When the watchdog drains a worker because its deadline passed, no lease, no
\* request and no lease cleanup is left or ever starts again: the IDB is
\* closed under nobody.
IdleDrainIsQuiet ==
    drainCause = "idle" => Installed = {} /\ CountedHandlers = {}

\* A granted shutdown_database never meets another client: from the grant to
\* the end the requester's lease is the only one and no other request runs.
ExclusiveShutdown ==
    shutdownOwner # NoLease =>
        /\ Installed \subseteq {shutdownOwner}
        /\ \A h \in Handlers : pc[h] \notin {"request", "operating", "answered"}

\* No drain cuts a client off, neither one for idleness nor one a client asked
\* for.
DrainsCutNobodyOff == IdleDrainIsQuiet /\ ExclusiveShutdown

\* A server that is not managed goes on admitting clients until its host stops
\* it, whatever leases end: GUI instances ignore zero leases.
UnmanagedKeepsAdmitting == ~Managed /\ ~streamStop => Admits

\* The choice to save or discard is made at most once: no step changes it
\* after shutdown was requested.
SaveChoiceStable ==
    [][shutdownRequested => saveOnShutdown' = saveOnShutdown]_vars

\* The main thread has left serve(), or passed it by, and stop() joins an analysis
\* thread that waits for the main thread.
Stranded == analysis = "slice" /\ host \in {"stopping", "draining", "closing"}

\* Only a signal can bring that about: the watchdog lets serve() return after the
\* last slice.
OnlySignalsStrand == Stranded => stopSignal

\* The one way in which a close may be owed for ever.
StrandedBySignal == Stranded /\ stopSignal

Abandoned ==
    /\ Installed = {}
    /\ CountedHandlers = {}
    /\ host # "binding"

\* A managed worker that nobody uses any more does not stay: it drains and its
\* host withdraws, also when no client ever came or start() failed, unless a
\* signal has stranded it.
AbandonedWorkerStops ==
    (<>[]Abandoned) => <>(host = "released") \/ <>[]StrandedBySignal

\* An idle lease the watchdog has marked is detached: its stream notices,
\* unless the process ends first.  None stays marked and installed for ever.
ExpiredLeaseReleased ==
    []<>(host = "released" \/ \A l \in Installed : ~lease[leases[l]].expiring)

\* Nothing that was abandoned stays: neither a worker nor an idle lease.
AbandonmentEnds == AbandonedWorkerStops /\ ExpiredLeaseReleased

\* "managed shutdown cannot close the IDB before cleanup completes": when the
\* watchdog, and no signal, brought the host to close the IDB, no lease
\* cleanup is under way.
CleanupBeforeClose ==
    host = "closed" /\ ~stopSignal =>
        \A h \in Handlers : pc[h] # "cleanup"
=============================================================================
