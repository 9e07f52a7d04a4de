---------------------------- MODULE IdbEventHook ----------------------------
(***************************************************************************)
(* The /idb_events streams: the subscriber count and the hook lock of      *)
(* ida_nexus/_server.py, the completion callback of AnalysisState and the  *)
(* subscriber queues of IdbChangeState in ida_nexus/_runtime.py.           *)
(*                                                                         *)
(* The IDB hook is installed and removed by IDA's main thread: any other   *)
(* thread posts an execute_sync request and waits until the main thread is *)
(* free to run it.  The threads are the streams, the main thread, which    *)
(* may complete the analysis in a hook of its own, and the thread of the   *)
(* startup analysis.  Taking _idb_event_hook_lock and the first read of    *)
(* _activity under it are one action: nobody else looks at the lock's      *)
(* holder in between.                                                      *)
(***************************************************************************)
EXTENDS Naturals, Sequences

CONSTANTS
    Streams,       \* threads that serve GET /idb_events
    Main,          \* IDA's main thread
    Analysis,      \* the thread ida-nexus-autoanalysis
    Nobody,        \* _idb_event_hook_lock is free
    QueueLimit,    \* IDB_EVENT_QUEUE_LIMIT
    MaxRevision    \* a bound on the events of one behaviour

Threads == Streams \union {Main, Analysis}

ASSUME EventsAssumption ==
    /\ Main \notin Streams
    /\ Analysis \notin Streams \union {Main}
    /\ Nobody \notin Threads
    /\ QueueLimit \in Nat \ {0}
    /\ MaxRevision \in Nat

VARIABLES
    pc,           \* where each thread is
    returnTo,     \* who called _enable_idb_event_hook in each thread
    complete,     \* analysis_state.complete
    subscribers,  \* _idb_event_subscribers
    hookLock,     \* holder of _idb_event_hook_lock
    hookEnabled,  \* _idb_event_hook_enabled
    installed,    \* whether the hook is installed in IDA
    draining,     \* _draining or _shutdown_requested
    streamStop,   \* _stream_stop
    detached,     \* the host has left serve() and detached from the IDB
    revision,     \* _revision
    events,       \* the queue of each subscriber
    overflowed,   \* subscriber.overflowed
    since,        \* the revision at which each subscriber began (history)
    received      \* the revisions each client was sent (history)

queueVars == <<revision, events, overflowed, since, received>>
stopVars  == <<draining, streamStop, detached>>
hookVars  == <<hookLock, hookEnabled, installed>>
vars == <<pc, returnTo, complete, subscribers, hookVars, stopVars, queueVars>>

Init ==
    /\ pc = [t \in Threads |-> "idle"]
    /\ returnTo = [t \in Threads |-> "none"]
    /\ complete \in BOOLEAN
    /\ subscribers = 0
    /\ hookLock = Nobody
    /\ hookEnabled = FALSE
    /\ installed = FALSE
    /\ draining = FALSE
    /\ streamStop = FALSE
    /\ detached = FALSE
    /\ revision = 0
    /\ events = [s \in Streams |-> <<>>]
    /\ overflowed = [s \in Streams |-> FALSE]
    /\ since = [s \in Streams |-> 0]
    /\ received = [s \in Streams |-> <<>>]

Goes(t, from, to) ==
    /\ pc[t] = from
    /\ pc' = [pc EXCEPT ![t] = to]

-----------------------------------------------------------------------------
(* IdbChangeState *)

\* subscribe(): an empty queue that sees every later event.
QueueCreated(s) ==
    /\ events' = [events EXCEPT ![s] = <<>>]
    /\ overflowed' = [overflowed EXCEPT ![s] = FALSE]
    /\ since' = [since EXCEPT ![s] = revision]
    /\ received' = [received EXCEPT ![s] = <<>>]
    /\ UNCHANGED revision

Subscribed(s) == pc[s] \notin {"idle", "done"}

\* A full queue is emptied and marked instead of losing one event.
DropsNewest(s) == [queue |-> events[s], overflow |-> overflowed[s]]   \* variant
Overflows(s) == [queue |-> <<>>, overflow |-> TRUE]

Enqueue(s) ==
    IF ~Subscribed(s) \/ overflowed[s]
    THEN [queue |-> events[s], overflow |-> overflowed[s]]
    ELSE IF Len(events[s]) = QueueLimit
    THEN Overflows(s)
    ELSE [queue |-> Append(events[s], revision + 1), overflow |-> FALSE]

\* record(): the main thread changes the database under the hook.
Record ==
    /\ pc[Main] = "idle"
    /\ installed
    /\ revision < MaxRevision
    /\ revision' = revision + 1
    /\ events' = [s \in Streams |-> Enqueue(s).queue]
    /\ overflowed' = [s \in Streams |-> Enqueue(s).overflow]
    /\ UNCHANGED <<pc, returnTo, complete, subscribers, hookVars, stopVars,
                   since, received>>

-----------------------------------------------------------------------------
(* _enable_idb_event_hook, by any thread *)

WantedAnyway == complete /\ ~draining   \* variant: the count is not looked at
Wanted == complete /\ subscribers > 0 /\ ~draining

\* Where a call goes on with the answer w.
EnableReturns(t, w) ==
    CASE returnTo[t] = "subscribe" -> "waiting"
      [] returnTo[t] = "stream" -> IF w THEN "events" ELSE "leaving"
      [] returnTo[t] = "callback" -> "idle"

EnableDecides(t) ==
    /\ hookLock = Nobody
    /\ IF Wanted /\ ~hookEnabled
       THEN /\ Goes(t, "enabling", "installing")
            /\ hookLock' = t
       ELSE /\ Goes(t, "enabling", EnableReturns(t, Wanted))
            /\ UNCHANGED hookLock
    /\ UNCHANGED <<returnTo, complete, subscribers, hookEnabled, installed,
                   stopVars, queueVars>>

\* execute_sync: the main thread runs the request when it is free, or at once
\* when it is the caller.
MainRunsFor(t) ==
    /\ ~detached
    /\ t # Main => pc[Main] = "idle"

EnableInstalls(t) ==
    /\ MainRunsFor(t)
    /\ Goes(t, "installing", "enabled")
    /\ installed' = TRUE
    /\ UNCHANGED <<returnTo, complete, subscribers, hookLock, hookEnabled,
                   stopVars, queueVars>>

\* IDA refuses the hook: the exception ends the stream.
EnableRefused(t) ==
    /\ MainRunsFor(t)
    /\ Goes(t, "installing",
            IF returnTo[t] = "callback" THEN "idle" ELSE "leaving")
    /\ hookLock' = Nobody
    /\ UNCHANGED <<returnTo, complete, subscribers, hookEnabled, installed,
                   stopVars, queueVars>>

EnableEnds(t) ==
    /\ Goes(t, "enabled", EnableReturns(t, TRUE))
    /\ hookEnabled' = TRUE
    /\ hookLock' = Nobody
    /\ UNCHANGED <<returnTo, complete, subscribers, installed, stopVars,
                   queueVars>>

-----------------------------------------------------------------------------
(* GET /idb_events *)

StreamArrives(s) ==
    /\ Goes(s, "idle", "arrived")
    /\ QueueCreated(s)
    /\ UNCHANGED <<returnTo, complete, subscribers, hookVars, stopVars>>

\* _idb_event_subscribe counts the stream or refuses it.
NotCounted == subscribers   \* variant: the stream is admitted uncounted
Counted == subscribers + 1

StreamSubscribes(s) ==
    /\ IF draining
       THEN Goes(s, "arrived", "done") /\ UNCHANGED subscribers
       ELSE Goes(s, "arrived", "counted") /\ subscribers' = Counted
    /\ UNCHANGED <<returnTo, complete, hookVars, stopVars, queueVars>>

StreamEnables(s, from, caller) ==
    /\ complete
    /\ Goes(s, from, "enabling")
    /\ returnTo' = [returnTo EXCEPT ![s] = caller]
    /\ UNCHANGED <<complete, subscribers, hookVars, stopVars, queueVars>>

\* The hook is enabled while subscribing when the analysis is complete ...
StreamSubscribed(s) ==
    \/ StreamEnables(s, "counted", "subscribe")
    \/ /\ ~complete
       /\ Goes(s, "counted", "waiting")
       /\ UNCHANGED <<returnTo, complete, subscribers, hookVars, stopVars,
                      queueVars>>

\* ... and again by the stream, once the analysis has completed.
StreamBegins(s) == ~streamStop /\ StreamEnables(s, "waiting", "stream")

StreamSends(s) ==
    /\ pc[s] = "events"
    /\ ~streamStop
    /\ ~overflowed[s]
    /\ events[s] # <<>>
    /\ events' = [events EXCEPT ![s] = Tail(@)]
    /\ received' = [received EXCEPT ![s] = Append(@, Head(events[s]))]
    /\ UNCHANGED <<pc, returnTo, complete, subscribers, hookVars, stopVars,
                   revision, overflowed, since>>

StreamEnds(s) ==
    /\ \E from \in {"waiting", "events"} : Goes(s, from, "leaving")
    /\ UNCHANGED <<returnTo, complete, subscribers, hookVars, stopVars,
                   queueVars>>

\* The stream sees _stream_stop or its queue's overflow ...
StreamStops(s) ==
    /\ streamStop \/ (pc[s] = "events" /\ overflowed[s])
    /\ StreamEnds(s)

\* ... or a write fails because the client has left.
ClientLeaves(s) == StreamEnds(s)

\* _idb_event_unsubscribe: the last one goes for the hook.
StreamUnsubscribes(s) ==
    /\ Goes(s, "leaving", IF subscribers = 1 THEN "unhooking" ELSE "done")
    /\ subscribers' = subscribers - 1
    /\ UNCHANGED <<returnTo, complete, hookVars, stopVars, queueVars>>

\* A new subscriber may have come before the lock was taken.
WasIdle == hookEnabled   \* variant: the count is not read again
StillIdle == subscribers = 0 /\ hookEnabled

StreamUnhooks(s) ==
    /\ hookLock = Nobody
    /\ IF StillIdle
       THEN Goes(s, "unhooking", "removing") /\ hookLock' = s
       ELSE Goes(s, "unhooking", "done") /\ UNCHANGED hookLock
    /\ UNCHANGED <<returnTo, complete, subscribers, hookEnabled, installed,
                   stopVars, queueVars>>

StreamRemoves(s) ==
    /\ MainRunsFor(s)
    /\ Goes(s, "removing", "removed")
    /\ installed' = FALSE
    /\ UNCHANGED <<returnTo, complete, subscribers, hookLock, hookEnabled,
                   stopVars, queueVars>>

StreamRemoved(s) ==
    /\ Goes(s, "removed", "done")
    /\ hookEnabled' = FALSE
    /\ hookLock' = Nobody
    /\ UNCHANGED <<returnTo, complete, subscribers, installed, stopVars,
                   queueVars>>

-----------------------------------------------------------------------------
(* The end of the analysis, and of the server *)

\* mark_complete(): by auto_empty_finally or wait_autoanalysis on the main
\* thread, or by the analysis thread after its last slice.  The completion
\* callback follows, without a lock.
MarkComplete(t) ==
    /\ ~complete
    /\ ~detached
    /\ complete' = TRUE
    /\ Goes(t, "idle", "enabling")
    /\ returnTo' = [returnTo EXCEPT ![t] = "callback"]
    /\ UNCHANGED <<subscribers, hookVars, stopVars, queueVars>>

\* Shutdown is requested, or draining begins.
Drain ==
    /\ ~draining
    /\ draining' = TRUE
    /\ UNCHANGED <<pc, returnTo, complete, subscribers, hookVars, streamStop,
                   detached, queueVars>>

\* NexusHTTPServer.stop().
Stop ==
    /\ ~streamStop
    /\ streamStop' = TRUE
    /\ draining' = TRUE
    /\ UNCHANGED <<pc, returnTo, complete, subscribers, hookVars, detached,
                   queueVars>>

\* NexusSession.stop() on the main thread, which has left serve(), removes
\* the hook itself; the server's threads have been given bounded time to end.
Detach ==
    /\ pc[Main] = "idle"
    /\ streamStop
    /\ ~detached
    /\ installed' = FALSE
    /\ detached' = TRUE
    /\ UNCHANGED <<pc, returnTo, complete, subscribers, hookLock, hookEnabled,
                   draining, streamStop, queueVars>>

-----------------------------------------------------------------------------
EnableProgress(t) ==
    \/ EnableDecides(t)
    \/ EnableInstalls(t)
    \/ EnableEnds(t)

StreamProgress(s) ==
    \/ StreamSubscribes(s)
    \/ StreamSubscribed(s)
    \/ StreamBegins(s)
    \/ StreamSends(s)
    \/ StreamStops(s)
    \/ StreamUnsubscribes(s)
    \/ StreamUnhooks(s)
    \/ StreamRemoves(s)
    \/ StreamRemoved(s)

Next ==
    \/ \E t \in Threads : EnableProgress(t) \/ EnableRefused(t)
    \/ \E s \in Streams : StreamArrives(s) \/ StreamProgress(s) \/ ClientLeaves(s)
    \/ \E t \in {Main, Analysis} : MarkComplete(t)
    \/ Record
    \/ Drain
    \/ Stop
    \/ Detach

Spec == Init /\ [][Next]_vars

\* Threads run, the main thread too; clients, edits and shutdown owe nothing.
FairSpec ==
    /\ Spec
    /\ \A t \in Threads : WF_vars(EnableProgress(t))
    /\ \A s \in Streams : WF_vars(StreamProgress(s))

-----------------------------------------------------------------------------
(* Properties *)

\* Every variable has its type.
TypeOK ==
    /\ pc \in [Threads -> {"idle", "arrived", "counted", "waiting", "enabling",
                           "installing", "enabled", "events", "leaving",
                           "unhooking", "removing", "removed", "done"}]
    /\ returnTo \in [Threads -> {"none", "subscribe", "stream", "callback"}]
    /\ complete \in BOOLEAN
    /\ subscribers \in Nat
    /\ hookLock \in Threads \union {Nobody}
    /\ hookEnabled \in BOOLEAN
    /\ installed \in BOOLEAN
    /\ draining \in BOOLEAN
    /\ streamStop \in BOOLEAN
    /\ detached \in BOOLEAN
    /\ revision \in 0 .. MaxRevision
    /\ events \in [Streams -> Seq(1 .. MaxRevision)]
    /\ overflowed \in [Streams -> BOOLEAN]
    /\ since \in [Streams -> 0 .. MaxRevision]
    /\ received \in [Streams -> Seq(1 .. MaxRevision)]

\* A client that is being sent events is sent all of them: while a stream is in
\* its event loop the hook is installed, whoever subscribes or leaves.
StreamsAreHooked ==
    \A s \in Streams : pc[s] = "events" /\ ~detached => installed

\* "The hook is removed after the final subscriber disconnects": it outlives
\* the last subscriber only while some thread is still about to settle it.
HookHasSubscriber ==
    installed /\ subscribers = 0 =>
        \E t \in Threads : pc[t] \in {"installing", "enabled", "unhooking",
                                      "removing"}

\* The hook is there for the subscribers, for all of them and for nobody else.
HookFollowsSubscribers == StreamsAreHooked /\ HookHasSubscriber

\* A subscriber receives every event since it subscribed, in order and with no
\* revision missing: one that falls behind is disconnected "rather than
\* receiving an incomplete history".
HistoryIsComplete ==
    \A s \in Streams : \A i \in DOMAIN received[s] :
        received[s][i] = since[s] + i

\* "A subscription opened before analysis receives actual rename hooks
\* afterward": once the analysis is complete, a waiting stream is hooked or
\* ends, unless the server is stopped.
SubscriptionServed ==
    \A s \in Streams :
        pc[s] = "waiting" /\ complete ~>
            (pc[s] \in {"events", "leaving"} \/ streamStop)
=============================================================================
