------------------------ MODULE NexusLeases_proofs ------------------------
(***************************************************************************)
(* Safety of NexusLeases for any number of handlers and leases, any        *)
(* keepalives, timeouts and grace, managed or not, with lease identifiers  *)
(* used once or again.                                                     *)
(*                                                                         *)
(* The inductive invariant IInv has five parts, each proved to be          *)
(* preserved by a lemma of its own from the parts before it:               *)
(*   TypeInv        types; a stream's target is a lease identifier         *)
(*   NoOrphanLease  an installed lease belongs to a live stream            *)
(*   RequestAccounting  _active_requests counts the work in flight         *)
(*   DeadlineInv    when _shutdown_at is armed                             *)
(*   CommitInv      what the server committed to, and who is left          *)
(*                                                                         *)
(* When identifiers are used once, SuspendInv adds what each lease counts. *)
(* StopsAreOwed says why each thread that stops the server may: with it    *)
(* each step maps to one of WorkerService or to none (KeepsService).       *)
(***************************************************************************)
EXTENDS NexusLeasesService, FiniteSetTheorems, TLAPS

StreamStates == {"attaching", "streaming", "detaching"}

\* A stream works on a lease identifier.
StreamTargets ==
    \A h \in Handlers : pc[h] \in StreamStates => target[h] \in Leases

TypeInv == TypeOK /\ StreamTargets

\* Without a lease a started or committed server has a deadline, with one it
\* has none, whether or not start() has got as far as the watchdog.
DeadlineInv ==
    /\ Installed # {} => shutdownAt = NoTimer
    /\ Installed = {} /\ (watchdog # "absent" \/ shutdownRequested) =>
         shutdownAt # NoTimer

\* An idle drain closes admission, and so does a granted shutdown; shutdown is
\* requested by a last lease that leaves or by the one that is granted it.
CommitInv ==
    /\ drainCause = "idle" => draining
    /\ IdleDrainIsQuiet
    /\ shutdownOwner # NoLease => shutdownRequested
    /\ shutdownRequested => Installed = {} \/ shutdownOwner # NoLease
    /\ ExclusiveShutdown

IInv ==
    /\ TypeInv
    /\ NoOrphanLease
    /\ RequestAccounting
    /\ DeadlineInv
    /\ CommitInv

-----------------------------------------------------------------------------
(* The helpers keep the types of what they change. *)

\* A counter stays a natural number.
LEMMA DecrementType == \A n \in Nat : Decrement(n) \in Nat
  BY DEF Decrement

\* Time neither sets nor clears a deadline.
LEMMA TickDownType ==
  ASSUME NEW t \in Timer
  PROVE  /\ TickDown(t) \in Timer
         /\ TickDown(t) = NoTimer <=> t = NoTimer
  BY LeasesAssumption DEF TickDown, Timer, Decrement

\* _lease_opened makes a _Lease object.
LEMMA NewLeaseType ==
  ASSUME NEW k \in Nat, NEW t \in Timer
  PROVE  NewLease(k, t) \in Lease
  BY DEF NewLease, Lease

\* And so is what stands for none.
LEMMA NullLeaseType == NullLease \in Lease
  BY DEF NullLease, NewLease, Lease, Timer

\* _request_finished leaves a _Lease object.
LEMMA FinishOnType ==
  ASSUME NEW obj \in Lease
  PROVE  FinishOn(obj) \in Lease
  <1> DEFINE deadline == IF /\ obj.activeRequests = 1
                            /\ ~obj.expiring
                            /\ obj.idleTimeout # NoTimer
                         THEN obj.idleTimeout
                         ELSE obj.idleDeadline
  <1>1. /\ obj.activeRequests \in Nat
        /\ deadline \in Timer
    BY DEF Lease
  <1>2. CASE obj.activeRequests = 0
    BY <1>2 DEF FinishOn
  <1>3. CASE obj.activeRequests # 0
    <2>1. obj.activeRequests - 1 \in Nat
      BY <1>1, <1>3
    <2>2. FinishOn(obj) = [obj EXCEPT !.activeRequests = obj.activeRequests - 1,
                                      !.idleDeadline = deadline]
      BY <1>3 DEF FinishOn
    <2> HIDE DEF deadline
    <2> QED
      BY <1>1, <2>1, <2>2 DEF Lease
  <1> QED
    BY <1>2, <1>3

\* A lease that is told to stop is still a lease.
LEMMA StoppedType ==
  ASSUME NEW l \in Lease
  PROVE  [l EXCEPT !.stop = TRUE] \in Lease
  BY DEF Lease

\* The sweep of _watch_leases leaves _Lease objects.
LEMMA ExpireType ==
  ASSUME NEW h \in Handlers, lease[h] \in Lease
  PROVE  Expire(h) \in Lease
  BY DEF Expire, Lease

\* A detached lease's object is one that a handler made.
LEMMA InstalledOwner ==
  ASSUME TypeOK, NEW l \in Leases, leases[l] # NoHandler
  PROVE  /\ leases[l] \in Handlers
         /\ lease[leases[l]] \in Lease
  BY DEF TypeOK

-----------------------------------------------------------------------------
(* Type correctness *)

\* Every variable starts with its type.
LEMMA TypeInit == Init => TypeInv
  <1> SUFFICES ASSUME Init PROVE TypeInv
    OBVIOUS
  <1>1. TypeOK
    BY NullLeaseType DEF Init, TypeOK, HandlerStates, WatchdogStates,
      HostStates, AnalysisStates, Timer
  <1>2. StreamTargets
    BY DEF Init, StreamTargets, StreamStates
  <1> QED
    BY <1>1, <1>2 DEF TypeInv

\* Every step keeps the types: one step of the proof per action.
LEMMA TypeStep == TypeInv /\ [Next]_vars => TypeInv'
  <1> SUFFICES ASSUME TypeInv, [Next]_vars PROVE TypeInv'
    OBVIOUS
  <1> USE LeasesAssumption DEF TypeInv, StreamTargets, StreamStates
  <1> USE DEF vars, tableVars, drainVars, hostVars
  <1>1. ASSUME NEW h \in Handlers, NEW l \in Leases, NEW k \in Keepalives,
               NEW t \in IdleTimeouts, LeaseOpened(h, l, k, t)
        PROVE  TypeInv'
    <2>1. NewLease(k, t) \in Lease
      BY NewLeaseType DEF Timer
    <2> QED
      BY <1>1, <2>1 DEF LeaseOpened, TypeOK, HandlerStates, Timer
  <1>2. ASSUME NEW h \in Handlers, LeaseAttached(h)
        PROVE  TypeInv'
    BY <1>2 DEF LeaseAttached, FailedAttach, TypeOK, HandlerStates
  <1>3. ASSUME NEW h \in Handlers, ClientDisconnects(h) \/ StreamStops(h)
        PROVE  TypeInv'
    BY <1>3 DEF ClientDisconnects, StreamStops, EndStream, TypeOK,
      HandlerStates
  <1>4. ASSUME NEW h \in Handlers, NEW l \in Leases, leases[l] # NoHandler,
               DetachLease(h, l)
        PROVE  TypeInv'
    <2> DEFINE owner == leases[l]
    <2>1. owner \in Handlers /\ lease[owner] \in Lease
      BY <1>4, InstalledOwner
    <2>2. [lease[owner] EXCEPT !.stop = TRUE] \in Lease
          /\ lease[owner].keepalive \in Nat
      BY <2>1 DEF Lease
    <2>3. lease' \in [Handlers -> Lease]
      BY <1>4, <2>1, <2>2 DEF DetachLease, TypeOK
    <2>4. shutdownAt' \in Timer /\ activeRequests' \in Nat
      BY <1>4, <2>2 DEF DetachLease, TypeOK, KeepaliveDeadline,
        CleanupCounted, Timer
    <2> QED
      BY <1>4, <2>3, <2>4 DEF DetachLease, TypeOK, HandlerStates,
        FinalReleaseCommits
  <1>5. ASSUME NEW h \in Handlers, StreamAlreadyDetached(h)
        PROVE  TypeInv'
    BY <1>5, NullLeaseType DEF StreamAlreadyDetached, TypeOK, HandlerStates
  <1>6. ASSUME NEW h \in Handlers, CleanupFinished(h)
        PROVE  TypeInv'
    BY <1>6, NullLeaseType, DecrementType
      DEF CleanupFinished, TypeOK, HandlerStates
  <1>7. ASSUME NEW h \in Handlers, NEW l \in Leases \union {NoLease},
               RequestStarted(h, l)
        PROVE  TypeInv'
    <2>1. lease' \in [Handlers -> Lease]
      <3>1. CASE l = NoLease
        BY <1>7, <3>1 DEF RequestStarted, TypeOK
      <3>2. CASE l # NoLease
        <4> DEFINE owner == leases[l]
        <4>1. owner \in Handlers /\ lease[owner] \in Lease
          BY <1>7, <3>2, InstalledOwner DEF RequestStarted, LeaseUsable
        <4> DEFINE obj == [lease[owner] EXCEPT
                             !.activeRequests = @ + 1,
                             !.idleDeadline = NoTimer]
        <4>2. obj \in Lease
          BY <4>1, lease[owner].activeRequests + 1 \in Nat DEF Lease, Timer
        <4>3. lease' = [lease EXCEPT ![owner] = obj]
          BY <1>7, <3>2, <4>1 DEF RequestStarted, TypeOK
        <4> QED
          BY <4>1, <4>2, <4>3 DEF TypeOK
      <3> QED
        BY <3>1, <3>2
    <2> QED
      BY <1>7, <2>1 DEF RequestStarted, TypeOK, HandlerStates
  <1>8. ASSUME NEW h \in Handlers, OperationBegins(h) \/ OperationEnds(h)
        PROVE  TypeInv'
    BY <1>8 DEF OperationBegins, OperationEnds, RequestStep, TypeOK,
      HandlerStates
  <1>9. ASSUME NEW h \in Handlers, RequestFinished(h)
        PROVE  TypeInv'
    <2> DEFINE l == target[h]
               owner == IF l = NoLease THEN NoHandler ELSE leases[l]
    <2>1. lease' \in [Handlers -> Lease]
      <3>1. CASE owner = NoHandler
        BY <1>9, <3>1 DEF RequestFinished, TypeOK
      <3>2. CASE owner # NoHandler
        <4>1. l \in Leases /\ leases[l] # NoHandler
          BY <3>2 DEF TypeOK
        <4>2. FinishOn(lease[owner]) \in Lease
          BY <4>1, <3>2, InstalledOwner, FinishOnType
        <4> QED
          BY <1>9, <3>2, <4>2 DEF RequestFinished, TypeOK
      <3> QED
        BY <3>1, <3>2
    <2> QED
      BY <1>9, <2>1, DecrementType DEF RequestFinished, TypeOK, HandlerStates
  <1>10. ASSUME NEW h \in Handlers, NEW save \in BOOLEAN,
                RequestShutdown(h, save)
         PROVE  TypeInv'
    BY <1>10 DEF RequestShutdown, TypeOK, HandlerStates
  <1>11. ASSUME NEW h \in Handlers, BeginRequestedShutdown(h)
         PROVE  TypeInv'
    BY <1>11 DEF BeginRequestedShutdown, TypeOK, HandlerStates
  <1>12. CASE Tick
    <2>1. \A h \in Handlers :
            [lease[h] EXCEPT !.idleDeadline = TickDown(@)] \in Lease
      BY TickDownType DEF TypeOK, Lease
    <2> QED
      BY <1>12, <2>1, TickDownType DEF Tick, TypeOK
  <1>13. CASE WatchdogStep
    <2>1. \A h \in Handlers : Expire(h) \in Lease
      BY ExpireType DEF TypeOK
    <2>2. \A h \in Handlers : [lease[h] EXCEPT !.stop = TRUE] \in Lease
      BY StoppedType DEF TypeOK
    <2>3. CASE WatchdogSweep
      BY <2>1, <2>3 DEF WatchdogSweep, TypeOK, WatchdogStates, ShutdownDue
    <2>4. ASSUME NEW from, NEW to \in WatchdogStates, WatchdogMoves(from, to),
                 streamStop' \in BOOLEAN, stopServing' \in BOOLEAN,
                 UNCHANGED drainVars
          PROVE  TypeInv'
      BY <2>4 DEF WatchdogMoves, TypeOK
    <2>6. CASE WatchdogSeesDraining \/ WatchdogSeesStop
      BY <2>4, <2>6 DEF WatchdogSeesDraining, WatchdogSeesStop, WatchdogStates, TypeOK
    <2>7. CASE WatchdogStopsStreams \/ WatchdogNotifies
      BY <2>4, <2>7 DEF WatchdogStopsStreams, WatchdogNotifies, WatchdogStates, TypeOK
    <2>5. CASE WatchdogStopsLeases
      BY <2>2, <2>5 DEF WatchdogStopsLeases, StopLeases, TypeOK,
        WatchdogStates
    <2> QED
      BY <1>13, <2>3, <2>5, <2>6, <2>7 DEF WatchdogStep
  <1>14. CASE HostProgress \/ HostStartFails
    <2>1. \A h \in Handlers : [lease[h] EXCEPT !.stop = TRUE] \in Lease
      BY StoppedType DEF TypeOK
    <2>2. ASSUME NEW from, NEW to \in HostStates, HostMoves(from, to),
                 lease' = lease, shutdownAt' = shutdownAt, watchdog' = watchdog,
                 draining' \in BOOLEAN, streamStop' \in BOOLEAN,
                 entry' \in BOOLEAN, stopServing' \in BOOLEAN,
                 stopSignal' = stopSignal,
                 drainCause' \in {drainCause, "stop"}
          PROVE  TypeInv'
      BY <2>2 DEF HostMoves, TypeOK
    <2>3. CASE HostArms
      BY <2>3 DEF HostArms, HostMoves, TypeOK, HostStates, WatchdogStates,
        Timer
    <2>4. CASE HostStopsLeases
      BY <2>1, <2>4 DEF HostStopsLeases, StopLeases, HostMoves, TypeOK,
        HostStates
    <2>5. /\ draining \in BOOLEAN /\ streamStop \in BOOLEAN
          /\ entry \in BOOLEAN /\ stopServing \in BOOLEAN
      BY DEF TypeOK
    <2>6. CASE HostPublishes \/ HostSetsEntry \/ HostServes \/ HostLeavesServe
      BY <2>2, <2>5, <2>6 DEF HostPublishes, HostSetsEntry, HostServes,
        HostLeavesServe, HostStates
    <2>7. CASE HostStopsStreams \/ HostCloses \/ HostReleases \/ HostStartFails
      BY <2>2, <2>5, <2>7 DEF HostStopsStreams, HostCloses, HostReleases,
        HostStartFails, HostStates
    <2>8. CASE HostStartsAnalysis
      BY <2>8 DEF HostStartsAnalysis, TypeOK, HostStates, AnalysisStates
    <2> QED
      BY <1>14, <2>3, <2>4, <2>6, <2>7, <2>8 DEF HostProgress
  <1>15. CASE Signal \/ AnalysisStep
    <2>1. CASE Signal
      BY <2>1 DEF Signal, TypeOK
    <2>2. CASE AnalysisStep
      <3>1. ASSUME NEW from, NEW to \in AnalysisStates, AnalysisMoves(from, to)
            PROVE  TypeInv'
        BY <3>1 DEF AnalysisMoves, TypeOK
      <3> QED
        BY <2>2, <3>1
          DEF AnalysisStep, AnalysisBegins, SliceEnds, AnalysisEnds, AnalysisStates
    <2> QED
      BY <1>15, <2>1, <2>2
  <1>16. CASE UNCHANGED vars
    BY <1>16 DEF TypeOK
  <1>17. ASSUME NEW h \in Handlers, HandlerProgress(h)
         PROVE  TypeInv'
    <2>1. CASE StreamDetaches(h)
      <3>1. target[h] \in Leases /\ leases[target[h]] # NoHandler
        BY <2>1 DEF StreamDetaches, TypeOK
      <3> QED
        BY <1>4, <2>1, <3>1 DEF StreamDetaches
    <2> QED
      BY <1>2, <1>3, <1>5, <1>6, <1>8, <1>9, <1>11, <1>17, <2>1
        DEF HandlerProgress
  <1>18. ASSUME NEW h \in Handlers, ClientStep(h)
         PROVE  TypeInv'
    BY <1>1, <1>3, <1>4, <1>7, <1>8, <1>10, <1>18
      DEF ClientStep, ReleaseLease
  <1> QED
    BY <1>12, <1>13, <1>14, <1>15, <1>16, <1>17, <1>18 DEF Next

\* Every variable keeps its type, whatever requests, streams, deadlines, stops
\* and signals interleave.
THEOREM TypeCorrect == Spec => []TypeOK
  <1>1. Spec => []TypeInv
    BY TypeInit, TypeStep, PTL DEF Spec
  <1>2. TypeInv => TypeOK
    BY DEF TypeInv
  <1> QED
    BY <1>1, <1>2, PTL

-----------------------------------------------------------------------------
(* Streams and their leases *)

\* Time, the watchdog, the host, the analysis and signals.
QuietStep ==
    Tick \/ WatchdogStep \/ HostProgress \/ HostStartFails \/ AnalysisStep \/ Signal
         \/ UNCHANGED vars

\* The analysis thread changes nothing but its own place.
LEMMA AnalysisFrame ==
  ASSUME AnalysisStep
  PROVE  UNCHANGED <<pc, target, lease, leases, retired, activeRequests, shutdownAt, draining,
                     drainCause, shutdownRequested, saveOnShutdown, streamStop, watchdog, entry,
                     host, stopServing, stopSignal, shutdownOwner>>
  BY DEF AnalysisStep, AnalysisBegins, SliceEnds, AnalysisEnds, AnalysisMoves, tableVars, drainVars

\* They touch neither the handlers nor what the handlers own.
LEMMA QuietStepFrame ==
  ASSUME QuietStep
  PROVE  UNCHANGED <<pc, target, leases, activeRequests, shutdownRequested,
                     saveOnShutdown, shutdownOwner>>
  <1> USE DEF tableVars, drainVars, hostVars
  <1>1. CASE Tick
    BY <1>1 DEF Tick
  <1>2. CASE WatchdogStep
    BY <1>2 DEF WatchdogStep, WatchdogSweep, WatchdogSeesDraining,
      WatchdogSeesStop, WatchdogStopsStreams, WatchdogStopsLeases,
      WatchdogNotifies, WatchdogMoves
  <1>3. CASE HostProgress \/ HostStartFails
    BY <1>3 DEF HostProgress, HostStartFails, HostPublishes, HostSetsEntry,
      HostArms, HostStartsAnalysis, HostServes, HostLeavesServe, HostStopsStreams,
      HostStopsLeases, HostCloses, HostReleases, HostMoves
  <1>4. CASE Signal \/ AnalysisStep \/ UNCHANGED vars
    BY <1>4, AnalysisFrame DEF Signal, vars
  <1> QED
    BY <1>1, <1>2, <1>3, <1>4 DEF QuietStep

\* Detaching takes one identifier out of the table and makes the handler a
\* cleanup.
LEMMA DetachEffect ==
  ASSUME TypeInv, NEW h \in Handlers, NEW l \in Leases,
         leases[l] # NoHandler, DetachLease(h, l)
  PROVE  /\ Installed' = Installed \ {l}
         /\ l \in Installed
         /\ pc' = [pc EXCEPT ![h] = "cleanup"]
         /\ lease[leases[l]].keepalive \in Nat
  <1>1. lease[leases[l]] \in Lease
    BY InstalledOwner DEF TypeInv
  <1>2. leases' = [leases EXCEPT ![l] = NoHandler]
    BY DEF DetachLease
  <1> QED
    BY <1>1, <1>2 DEF DetachLease, Installed, TypeInv, TypeOK, Lease

\* An installed lease keeps the stream that will detach it: only the stream
\* itself leaves the streaming states, and it detaches when it does.
LEMMA OrphanStep == TypeInv /\ NoOrphanLease /\ [Next]_vars => NoOrphanLease'
  <1> SUFFICES ASSUME TypeInv, NoOrphanLease, [Next]_vars
               PROVE  NoOrphanLease'
    OBVIOUS
  <1> USE DEF NoOrphanLease, TypeInv, TypeOK, tableVars
  <1>1. ASSUME NEW h \in Handlers, NEW l \in Leases, NEW k \in Keepalives,
               NEW t \in IdleTimeouts, LeaseOpened(h, l, k, t)
        PROVE  NoOrphanLease'
    BY <1>1 DEF LeaseOpened
  <1>2. ASSUME NEW h \in Handlers,
               \/ LeaseAttached(h)
               \/ ClientDisconnects(h)
               \/ StreamStops(h)
        PROVE  NoOrphanLease'
    BY <1>2 DEF LeaseAttached, FailedAttach, ClientDisconnects, StreamStops,
      EndStream
  <1>3. ASSUME NEW h \in Handlers, NEW l \in Leases, leases[l] # NoHandler,
               DetachLease(h, l),
               pc[h] = "idle" \/ target[h] = l
        PROVE  NoOrphanLease'
    <2>1. \A m \in Leases : leases'[m] # NoHandler =>
            leases'[m] = leases[m] /\ m # l
      BY <1>3 DEF DetachLease
    <2>2. \A m \in Leases : leases'[m] # NoHandler => leases[m] # h
      BY <1>3, <2>1
    <2> QED
      BY <1>3, <2>1, <2>2 DEF DetachLease
  <1>4. ASSUME NEW h \in Handlers,
               StreamAlreadyDetached(h) \/ CleanupFinished(h)
        PROVE  NoOrphanLease'
    BY <1>4 DEF StreamAlreadyDetached, CleanupFinished
  <1>5. ASSUME NEW h \in Handlers, NEW l \in Leases \union {NoLease},
               RequestStarted(h, l)
        PROVE  NoOrphanLease'
    BY <1>5 DEF RequestStarted
  <1>6. ASSUME NEW h \in Handlers,
               \/ OperationBegins(h)
               \/ OperationEnds(h)
               \/ RequestFinished(h)
               \/ BeginRequestedShutdown(h)
        PROVE  NoOrphanLease'
    BY <1>6 DEF OperationBegins, OperationEnds, RequestStep, RequestFinished,
      BeginRequestedShutdown
  <1>7. ASSUME NEW h \in Handlers, NEW save \in BOOLEAN,
               RequestShutdown(h, save)
        PROVE  NoOrphanLease'
    BY <1>7 DEF RequestShutdown
  <1>8. CASE QuietStep
    BY <1>8, QuietStepFrame
  <1>9. ASSUME NEW h \in Handlers, StreamDetaches(h)
        PROVE  NoOrphanLease'
    <2>1. target[h] \in Leases
      BY <1>9 DEF StreamDetaches, StreamTargets, StreamStates
    <2> QED
      BY <1>3, <1>9, <2>1 DEF StreamDetaches
  <1>10. ASSUME NEW h \in Handlers, NEW l \in Leases, ReleaseLease(h, l)
         PROVE  NoOrphanLease'
    BY <1>3, <1>10 DEF ReleaseLease
  <1> HIDE DEF NoOrphanLease, TypeInv, TypeOK
  <1> QED
    BY <1>1, <1>2, <1>4, <1>5, <1>6, <1>7, <1>8, <1>9, <1>10
      DEF Next, HandlerProgress, ClientStep, QuietStep

-----------------------------------------------------------------------------
(* Counting the work in flight *)

\* A handler that moves takes itself into or out of the counted ones.
LEMMA CountedMove ==
  ASSUME TypeOK, NEW h \in Handlers, NEW x, pc' = [pc EXCEPT ![h] = x]
  PROVE  /\ IsFiniteSet(CountedHandlers)
         /\ x \in CountedStates => CountedHandlers' = CountedHandlers \union {h}
         /\ x \notin CountedStates => CountedHandlers' = CountedHandlers \ {h}
         /\ h \in CountedHandlers <=> pc[h] \in CountedStates
  <1>1. IsFiniteSet(CountedHandlers)
    BY LeasesAssumption, FS_Subset DEF CountedHandlers
  <1>2. \A g \in Handlers : pc'[g] = IF g = h THEN x ELSE pc[g]
    BY DEF TypeOK
  <1> QED
    BY <1>1, <1>2 DEF CountedHandlers

\* The three ways a step may change the counter.
LEMMA CountedSteps ==
  ASSUME TypeOK, RequestAccounting, NEW h \in Handlers, NEW x,
         pc' = [pc EXCEPT ![h] = x],
         \/ /\ pc[h] \in CountedStates <=> x \in CountedStates
            /\ activeRequests' = activeRequests
         \/ /\ pc[h] \notin CountedStates /\ x \in CountedStates
            /\ activeRequests' = activeRequests + 1
         \/ /\ pc[h] \in CountedStates /\ x \notin CountedStates
            /\ activeRequests' = Decrement(activeRequests)
  PROVE  RequestAccounting'
  <1>1. /\ IsFiniteSet(CountedHandlers)
        /\ x \in CountedStates => CountedHandlers' = CountedHandlers \union {h}
        /\ x \notin CountedStates => CountedHandlers' = CountedHandlers \ {h}
        /\ h \in CountedHandlers <=> pc[h] \in CountedStates
    BY CountedMove
  <1>2. /\ Cardinality(CountedHandlers) \in Nat
        /\ Cardinality(CountedHandlers) = 0 => CountedHandlers = {}
    BY <1>1, FS_CardinalityType, FS_EmptySet
  <1>3. activeRequests = Cardinality(CountedHandlers)
    BY DEF RequestAccounting
  <1>4. CASE x \in CountedStates
    <2>1. Cardinality(CountedHandlers') =
            IF h \in CountedHandlers THEN activeRequests ELSE activeRequests + 1
      BY <1>1, <1>3, <1>4, FS_AddElement
    <2> QED
      BY <1>1, <1>4, <2>1 DEF RequestAccounting
  <1>5. CASE x \notin CountedStates
    <2>1. Cardinality(CountedHandlers') =
            IF h \in CountedHandlers THEN activeRequests - 1 ELSE activeRequests
      BY <1>1, <1>3, <1>5, FS_RemoveElement
    <2>2. h \in CountedHandlers => Decrement(activeRequests) = activeRequests - 1
      BY <1>2, <1>3 DEF Decrement
    <2> QED
      BY <1>1, <1>5, <2>1, <2>2 DEF RequestAccounting
  <1> QED
    BY <1>4, <1>5

\* _active_requests moves with the handlers it counts.
LEMMA AccountingStep ==
    TypeInv /\ RequestAccounting /\ [Next]_vars => RequestAccounting'
  <1> SUFFICES ASSUME TypeInv, RequestAccounting, [Next]_vars
               PROVE  RequestAccounting'
    OBVIOUS
  <1> USE DEF CountedStates, RequestStates
  <1>1. TypeOK
    BY DEF TypeInv
  <1>2. ASSUME NEW h \in Handlers, NEW l \in Leases, NEW k \in Keepalives,
               NEW t \in IdleTimeouts, LeaseOpened(h, l, k, t)
        PROVE  RequestAccounting'
    BY <1>1, <1>2, CountedSteps DEF LeaseOpened
  <1>3. ASSUME NEW h \in Handlers,
               LeaseAttached(h) \/ ClientDisconnects(h) \/ StreamStops(h)
        PROVE  RequestAccounting'
    <2>1. PICK x : /\ pc' = [pc EXCEPT ![h] = x]
                   /\ x \in StreamStates
      BY <1>3 DEF LeaseAttached, FailedAttach, ClientDisconnects, StreamStops,
        EndStream, StreamStates
    <2>2. pc[h] \in StreamStates /\ activeRequests' = activeRequests
      BY <1>3 DEF LeaseAttached, ClientDisconnects, StreamStops, EndStream,
        StreamStates
    <2> QED
      BY <1>1, <2>1, <2>2, CountedSteps DEF StreamStates
  <1>4. ASSUME NEW h \in Handlers, NEW l \in Leases, DetachLease(h, l),
               pc[h] \in {"idle", "detaching"}
        PROVE  RequestAccounting'
    BY <1>1, <1>4, CountedSteps DEF DetachLease, CleanupCounted
  <1>5. ASSUME NEW h \in Handlers,
               StreamAlreadyDetached(h) \/ BeginRequestedShutdown(h)
        PROVE  RequestAccounting'
    BY <1>1, <1>5, CountedSteps DEF StreamAlreadyDetached,
      BeginRequestedShutdown
  <1>6. ASSUME NEW h \in Handlers, CleanupFinished(h)
        PROVE  RequestAccounting'
    BY <1>1, <1>6, CountedSteps DEF CleanupFinished
  <1>7. ASSUME NEW h \in Handlers, NEW l \in Leases \union {NoLease},
               RequestStarted(h, l)
        PROVE  RequestAccounting'
    BY <1>1, <1>7, CountedSteps DEF RequestStarted
  <1>8. ASSUME NEW h \in Handlers, OperationBegins(h) \/ OperationEnds(h)
        PROVE  RequestAccounting'
    BY <1>1, <1>8, CountedSteps DEF OperationBegins, OperationEnds,
      RequestStep
  <1>9. ASSUME NEW h \in Handlers, RequestFinished(h)
        PROVE  RequestAccounting'
    <2>1. PICK x \in {"committing", "idle"} : pc' = [pc EXCEPT ![h] = x]
      BY <1>9 DEF RequestFinished
    <2> QED
      BY <1>1, <1>9, <2>1, CountedSteps DEF RequestFinished
  <1>10. ASSUME NEW h \in Handlers, NEW save \in BOOLEAN,
                RequestShutdown(h, save)
         PROVE  RequestAccounting'
    BY <1>1, <1>10, CountedSteps DEF RequestShutdown
  <1>11. CASE QuietStep
    BY <1>11, QuietStepFrame DEF RequestAccounting, CountedHandlers
  <1>12. ASSUME NEW h \in Handlers, StreamDetaches(h)
         PROVE  RequestAccounting'
    <2>1. target[h] \in Leases
      BY <1>12 DEF StreamDetaches, StreamTargets, StreamStates, TypeInv
    <2> QED
      BY <1>4, <1>12, <2>1 DEF StreamDetaches
  <1>13. ASSUME NEW h \in Handlers, NEW l \in Leases, ReleaseLease(h, l)
         PROVE  RequestAccounting'
    BY <1>4, <1>13 DEF ReleaseLease
  <1> QED
    BY <1>2, <1>3, <1>5, <1>6, <1>7, <1>8, <1>9, <1>10, <1>11, <1>12, <1>13
      DEF Next, HandlerProgress, ClientStep, QuietStep

-----------------------------------------------------------------------------
(* The shutdown deadline *)

\* Whoever does not open or detach a lease leaves the table alone.
LEMMA TableFrame ==
  ASSUME NEW h \in Handlers,
         \/ LeaseAttached(h) \/ ClientDisconnects(h) \/ StreamStops(h)
         \/ StreamAlreadyDetached(h) \/ CleanupFinished(h)
         \/ \E l \in Leases \union {NoLease} : RequestStarted(h, l)
         \/ OperationBegins(h) \/ OperationEnds(h) \/ RequestFinished(h)
         \/ \E save \in BOOLEAN : RequestShutdown(h, save)
         \/ BeginRequestedShutdown(h)
  PROVE  UNCHANGED <<leases, shutdownAt, watchdog>>
  BY DEF LeaseAttached, ClientDisconnects, StreamStops, EndStream,
    StreamAlreadyDetached, CleanupFinished, RequestStarted, OperationBegins,
    OperationEnds, RequestStep, RequestFinished, RequestShutdown,
    BeginRequestedShutdown, tableVars

\* The deadline is cleared with the first lease and set with the last detach
\* or by start().
LEMMA DeadlineStep == TypeInv /\ DeadlineInv /\ [Next]_vars => DeadlineInv'
  <1> SUFFICES ASSUME TypeInv, DeadlineInv, [Next]_vars PROVE DeadlineInv'
    OBVIOUS
  <1> USE LeasesAssumption DEF tableVars, drainVars, hostVars
  <1>1. ASSUME NEW h \in Handlers, NEW l \in Leases, NEW k \in Keepalives,
               NEW t \in IdleTimeouts, LeaseOpened(h, l, k, t)
        PROVE  DeadlineInv'
    <2>1. l \in Installed'
      BY <1>1 DEF LeaseOpened, Installed, TypeInv, TypeOK
    <2> QED
      BY <1>1, <2>1 DEF LeaseOpened, DeadlineInv
  <1>2. ASSUME NEW h \in Handlers, NEW l \in Leases, leases[l] # NoHandler,
               DetachLease(h, l)
        PROVE  DeadlineInv'
    <2>1. /\ Installed' = Installed \ {l}
          /\ l \in Installed
          /\ lease[leases[l]].keepalive \in Nat
      BY <1>2, DetachEffect
    <2>2. shutdownAt' = IF Installed = {l}
                        THEN lease[leases[l]].keepalive ELSE shutdownAt
      BY <1>2 DEF DetachLease, KeepaliveDeadline
    <2> QED
      BY <2>1, <2>2 DEF DeadlineInv
  <1>3. ASSUME NEW h \in Handlers,
               \/ LeaseAttached(h) \/ ClientDisconnects(h) \/ StreamStops(h)
               \/ StreamAlreadyDetached(h) \/ CleanupFinished(h)
               \/ \E l \in Leases \union {NoLease} : RequestStarted(h, l)
               \/ OperationBegins(h) \/ OperationEnds(h) \/ RequestFinished(h)
               \/ BeginRequestedShutdown(h)
        PROVE  DeadlineInv'
    <2>1. UNCHANGED <<leases, shutdownAt, watchdog>>
      BY <1>3, TableFrame
    <2>2. UNCHANGED shutdownRequested
      BY <1>3 DEF LeaseAttached, ClientDisconnects, StreamStops, EndStream,
        StreamAlreadyDetached, CleanupFinished, RequestStarted,
        OperationBegins, OperationEnds, RequestStep, RequestFinished,
        BeginRequestedShutdown
    <2> QED
      BY <2>1, <2>2 DEF DeadlineInv, Installed
  <1>4. ASSUME NEW h \in Handlers, NEW save \in BOOLEAN,
               RequestShutdown(h, save)
        PROVE  DeadlineInv'
    <2>1. UNCHANGED <<leases, shutdownAt, watchdog>> /\ Installed # {}
      BY <1>4 DEF RequestShutdown, ExclusiveOwner
    <2> QED
      BY <2>1 DEF DeadlineInv, Installed
  <1>5. CASE Tick
    <2>1. shutdownAt' = NoTimer <=> shutdownAt = NoTimer
      BY <1>5, TickDownType DEF Tick, TypeInv, TypeOK
    <2>2. UNCHANGED <<leases, watchdog, shutdownRequested>>
      BY <1>5 DEF Tick
    <2> QED
      BY <2>1, <2>2 DEF DeadlineInv, Installed
  <1>6. CASE HostArms
    <2>1. /\ UNCHANGED <<leases, shutdownRequested>>
          /\ shutdownAt' = IF ArmsGrace THEN LeaseGrace ELSE shutdownAt
      BY <1>6 DEF HostArms, HostMoves
    <2>2. Installed' = Installed
      BY <2>1 DEF Installed
    <2> QED
      BY <2>1, <2>2 DEF DeadlineInv, ArmsGrace
  <1>7. CASE WatchdogStep
    <2>1. /\ UNCHANGED <<leases, shutdownAt, shutdownRequested>>
          /\ watchdog # "absent"
      BY <1>7 DEF WatchdogStep, WatchdogSweep, WatchdogSeesDraining,
        WatchdogSeesStop, WatchdogStopsStreams, WatchdogStopsLeases,
        WatchdogNotifies, WatchdogMoves
    <2> QED
      BY <2>1 DEF DeadlineInv, Installed
  <1>8. CASE \/ HostPublishes \/ HostSetsEntry \/ HostStartsAnalysis \/ HostServes
             \/ HostLeavesServe \/ HostStopsStreams \/ HostStopsLeases
             \/ HostCloses \/ HostReleases \/ HostStartFails \/ AnalysisStep \/ Signal
             \/ UNCHANGED vars
    <2>1. UNCHANGED <<leases, shutdownAt, shutdownRequested, watchdog>>
      BY <1>8, AnalysisFrame DEF HostPublishes, HostSetsEntry, HostStartsAnalysis, HostServes,
        HostLeavesServe, HostStopsStreams, HostStopsLeases, HostCloses, HostReleases,
        HostStartFails, HostMoves, Signal, vars
    <2> QED
      BY <2>1 DEF DeadlineInv, Installed
  <1>9. ASSUME NEW h \in Handlers, StreamDetaches(h)
        PROVE  DeadlineInv'
    <2>1. target[h] \in Leases
      BY <1>9 DEF StreamDetaches, StreamTargets, StreamStates, TypeInv
    <2> QED
      BY <1>2, <1>9, <2>1 DEF StreamDetaches
  <1>10. ASSUME NEW h \in Handlers, NEW l \in Leases, ReleaseLease(h, l)
         PROVE  DeadlineInv'
    BY <1>2, <1>10 DEF ReleaseLease
  <1> QED
    BY <1>1, <1>3, <1>4, <1>5, <1>6, <1>7, <1>8, <1>9, <1>10
      DEF Next, HandlerProgress, ClientStep, HostProgress

-----------------------------------------------------------------------------
(* What the server is committed to *)

\* A quiet step that is not an idle sweep only ever closes admission.
LEMMA QuietStepDrains ==
  ASSUME QuietStep
  PROVE  /\ draining => draining'
         /\ drainCause' = "idle" =>
              drainCause = "idle" \/ (ShutdownDue /\ draining')
  <1> USE DEF drainVars
  <1>1. CASE WatchdogSweep
    <2>1. ~draining /\ (ShutdownDue => draining')
      BY <1>1 DEF WatchdogSweep
    <2>2. ~ShutdownDue => drainCause' = drainCause
      BY <1>1 DEF WatchdogSweep
    <2> QED
      BY <2>1, <2>2
  <1>2. CASE WatchdogStopsLeases \/ HostStopsLeases \/ HostStartFails
    BY <1>2 DEF WatchdogStopsLeases, HostStopsLeases, HostStartFails
  <1>3. CASE \/ WatchdogSeesDraining \/ WatchdogSeesStop
             \/ WatchdogStopsStreams \/ WatchdogNotifies
    BY <1>3 DEF WatchdogSeesDraining, WatchdogSeesStop,
      WatchdogStopsStreams, WatchdogNotifies
  <1>4. CASE \/ HostPublishes \/ HostSetsEntry \/ HostArms \/ HostStartsAnalysis
             \/ HostServes \/ HostLeavesServe \/ HostStopsStreams \/ HostCloses
             \/ HostReleases
    BY <1>4 DEF HostPublishes, HostSetsEntry, HostArms, HostStartsAnalysis, HostServes,
      HostLeavesServe, HostStopsStreams, HostCloses, HostReleases
  <1>5. CASE Tick \/ AnalysisStep \/ Signal \/ UNCHANGED vars
    BY <1>5, AnalysisFrame DEF Tick, Signal, vars
  <1> QED
    BY <1>1, <1>2, <1>3, <1>4, <1>5 DEF QuietStep, WatchdogStep, HostProgress

\* A step that admits nobody and grants nothing keeps every commitment.
LEMMA NobodyAdmitted ==
  ASSUME CommitInv,
         Installed' \subseteq Installed,
         shutdownOwner' = shutdownOwner,
         shutdownRequested => shutdownRequested',
         shutdownRequested' => shutdownRequested \/ Installed' = {},
         draining => draining',
         drainCause' = "idle" => drainCause = "idle",
         drainCause = "idle" => CountedHandlers' \subseteq CountedHandlers,
         \A h \in Handlers : pc'[h] \in {"request", "operating", "answered"} =>
                             pc[h] \in {"request", "operating", "answered"}
  PROVE  CommitInv'
  BY DEF CommitInv, IdleDrainIsQuiet, ExclusiveShutdown

\* After an idle drain nobody is admitted, and after a granted shutdown only
\* the requester is left.
LEMMA CommitStep ==
    TypeInv /\ RequestAccounting /\ CommitInv /\ [Next]_vars => CommitInv'
  <1> SUFFICES ASSUME TypeInv, RequestAccounting, CommitInv, [Next]_vars
               PROVE  CommitInv'
    OBVIOUS
  <1> USE DEF tableVars, drainVars, CountedStates, RequestStates
  <1>1. TypeOK
    BY DEF TypeInv
  <1>2. ASSUME NEW h \in Handlers, NEW x, pc' = [pc EXCEPT ![h] = x]
        PROVE  /\ \A g \in Handlers : pc'[g] = IF g = h THEN x ELSE pc[g]
               /\ pc[h] \in CountedStates \/ x \notin CountedStates =>
                    CountedHandlers' \subseteq CountedHandlers
    <2>1. \A g \in Handlers : pc'[g] = IF g = h THEN x ELSE pc[g]
      BY <1>1, <1>2 DEF TypeOK
    <2> QED
      BY <2>1 DEF CountedHandlers
  <1>3. ASSUME NEW h \in Handlers,
               \/ \E l \in Leases, k \in Keepalives, t \in IdleTimeouts :
                    LeaseOpened(h, l, k, t)
               \/ \E l \in Leases \union {NoLease} : RequestStarted(h, l)
        PROVE  CommitInv'
    <2>1. /\ ~draining /\ ~shutdownRequested
          /\ UNCHANGED <<draining, drainCause, shutdownRequested,
                         shutdownOwner>>
      BY <1>3 DEF LeaseOpened, RequestStarted, Admits
    <2> QED
      BY <2>1 DEF CommitInv, IdleDrainIsQuiet, ExclusiveShutdown
  <1>4. ASSUME NEW h \in Handlers, NEW l \in Leases, leases[l] # NoHandler,
               DetachLease(h, l)
        PROVE  CommitInv'
    <2>1. /\ Installed' = Installed \ {l}
          /\ l \in Installed
          /\ pc' = [pc EXCEPT ![h] = "cleanup"]
      BY <1>4, DetachEffect
    <2>2. /\ UNCHANGED <<draining, drainCause, shutdownOwner>>
          /\ shutdownRequested => shutdownRequested'
          /\ shutdownRequested' => shutdownRequested \/ Installed = {l}
      BY <1>4 DEF DetachLease, FinalReleaseCommits
    <2>3. drainCause # "idle"
      BY <2>1 DEF CommitInv, IdleDrainIsQuiet
    <2>4. \A g \in Handlers : pc'[g] = IF g = h THEN "cleanup" ELSE pc[g]
      BY <1>2, <2>1
    <2> QED
      BY <2>1, <2>2, <2>3, <2>4, NobodyAdmitted
  <1>5. ASSUME NEW h \in Handlers,
               \/ LeaseAttached(h) \/ ClientDisconnects(h) \/ StreamStops(h)
               \/ StreamAlreadyDetached(h) \/ CleanupFinished(h)
               \/ OperationBegins(h) \/ OperationEnds(h) \/ RequestFinished(h)
        PROVE  CommitInv'
    <2>1. UNCHANGED <<leases, draining, drainCause, shutdownRequested,
                      shutdownOwner>>
      BY <1>5 DEF LeaseAttached, ClientDisconnects, StreamStops, EndStream,
        StreamAlreadyDetached, CleanupFinished, OperationBegins,
        OperationEnds, RequestStep, RequestFinished
    <2>2. PICK x :
            /\ pc' = [pc EXCEPT ![h] = x]
            /\ x \notin CountedStates \/ pc[h] \in CountedStates
            /\ x \in {"request", "operating", "answered"} =>
                 pc[h] \in {"request", "operating", "answered"}
      BY <1>5 DEF LeaseAttached, FailedAttach, ClientDisconnects, StreamStops,
        EndStream, StreamAlreadyDetached, CleanupFinished, OperationBegins,
        OperationEnds, RequestStep, RequestFinished
    <2>3. Installed' = Installed
      BY <2>1 DEF Installed
    <2>4. /\ \A g \in Handlers : pc'[g] = IF g = h THEN x ELSE pc[g]
          /\ CountedHandlers' \subseteq CountedHandlers
      BY <1>2, <2>2
    <2>5. \A g \in Handlers :
            pc'[g] \in {"request", "operating", "answered"} =>
              pc[g] \in {"request", "operating", "answered"}
      BY <2>2, <2>4
    <2> QED
      BY <2>1, <2>3, <2>4, <2>5, NobodyAdmitted
  <1>6. ASSUME NEW h \in Handlers, BeginRequestedShutdown(h)
        PROVE  CommitInv'
    <2>1. /\ UNCHANGED <<leases, shutdownRequested, shutdownOwner>>
          /\ pc' = [pc EXCEPT ![h] = "idle"]
          /\ draining'
          /\ drainCause' = "idle" => drainCause = "idle"
      BY <1>6 DEF BeginRequestedShutdown
    <2>2. Installed' = Installed
      BY <2>1 DEF Installed
    <2>3. \A g \in Handlers : pc'[g] = IF g = h THEN "idle" ELSE pc[g]
      BY <1>2, <2>1
    <2>4. CountedHandlers' \subseteq CountedHandlers
      BY <2>3 DEF CountedHandlers, CountedStates
    <2> QED
      BY <2>1, <2>2, <2>3, <2>4, NobodyAdmitted
  <1>7. ASSUME NEW h \in Handlers, NEW save \in BOOLEAN,
               RequestShutdown(h, save)
        PROVE  CommitInv'
    <2>1. /\ pc[h] = "request" /\ target[h] # NoLease
          /\ Installed = {target[h]} /\ activeRequests = 1
          /\ UNCHANGED <<leases, draining, drainCause>>
          /\ shutdownRequested' /\ shutdownOwner' = target[h]
          /\ pc' = [pc EXCEPT ![h] = "granted"]
      BY <1>7 DEF RequestShutdown, ExclusiveOwner
    <2>2. h \in CountedHandlers
      BY <2>1 DEF CountedHandlers
    <2>3. CountedHandlers = {h}
      <3>1. IsFiniteSet(CountedHandlers)
        BY LeasesAssumption, FS_Subset DEF CountedHandlers
      <3>2. Cardinality(CountedHandlers) = 1
        BY <2>1 DEF RequestAccounting
      <3>3. PICK g : CountedHandlers = {g}
        BY <3>1, <3>2, FS_Singleton
      <3> QED
        BY <2>2, <3>3
    <2>4. \A g \in Handlers :
            pc'[g] \notin {"request", "operating", "answered"}
      <3>1. \A g \in Handlers : pc'[g] = IF g = h THEN "granted" ELSE pc[g]
        BY <1>2, <2>1
      <3> QED
        BY <2>3, <3>1 DEF CountedHandlers
    <2>5. drainCause # "idle"
      BY <2>2 DEF CommitInv, IdleDrainIsQuiet
    <2>6. Installed' = {target[h]}
      BY <2>1 DEF Installed
    <2> QED
      BY <2>1, <2>4, <2>5, <2>6 DEF CommitInv, IdleDrainIsQuiet,
        ExclusiveShutdown
  <1>8. CASE QuietStep
    <2>1. /\ UNCHANGED <<pc, leases, shutdownRequested, shutdownOwner>>
          /\ draining => draining'
          /\ drainCause' = "idle" =>
               drainCause = "idle" \/ (ShutdownDue /\ draining')
      BY <1>8, QuietStepFrame, QuietStepDrains
    <2>2. Installed' = Installed /\ CountedHandlers' = CountedHandlers
      BY <2>1 DEF Installed, CountedHandlers
    <2>3. CASE drainCause' = "idle" => drainCause = "idle"
      BY <2>1, <2>2, <2>3, NobodyAdmitted
    <2>4. CASE ShutdownDue /\ draining'
      <3>1. Installed = {} /\ Cardinality(CountedHandlers) = 0
        BY <2>4 DEF ShutdownDue, RequestAccounting
      <3>2. CountedHandlers = {}
        BY <3>1, LeasesAssumption, FS_Subset, FS_EmptySet DEF CountedHandlers
      <3> QED
        BY <2>1, <2>2, <2>4, <3>1, <3>2 DEF CommitInv, IdleDrainIsQuiet,
          ExclusiveShutdown
    <2> QED
      BY <2>1, <2>3, <2>4
  <1>9. ASSUME NEW h \in Handlers, StreamDetaches(h)
        PROVE  CommitInv'
    <2>1. target[h] \in Leases
      BY <1>9 DEF StreamDetaches, StreamTargets, StreamStates, TypeInv
    <2> QED
      BY <1>4, <1>9, <2>1 DEF StreamDetaches
  <1>10. ASSUME NEW h \in Handlers, NEW l \in Leases, ReleaseLease(h, l)
         PROVE  CommitInv'
    BY <1>4, <1>10 DEF ReleaseLease
  <1> QED
    BY <1>3, <1>5, <1>6, <1>7, <1>8, <1>9, <1>10
      DEF Next, HandlerProgress, ClientStep, QuietStep

-----------------------------------------------------------------------------
(* The theorems *)

\* The inductive invariant holds at the start ...
LEMMA IInvInit == Init => IInv
  <1> SUFFICES ASSUME Init PROVE IInv
    OBVIOUS
  <1>1. CountedHandlers = {} /\ Installed = {}
    BY DEF Init, CountedHandlers, CountedStates, RequestStates, Installed
  <1>2. NoOrphanLease /\ DeadlineInv /\ RequestAccounting
    BY <1>1, FS_EmptySet DEF Init, NoOrphanLease, DeadlineInv,
      RequestAccounting
  <1>3. CommitInv
    BY <1>1 DEF Init, CommitInv, IdleDrainIsQuiet, ExclusiveShutdown
  <1> QED
    BY <1>2, <1>3, TypeInit DEF IInv

\* ... and is kept by every step.
LEMMA IInvStep == IInv /\ [Next]_vars => IInv'
  BY TypeStep, OrphanStep, AccountingStep, DeadlineStep, CommitStep DEF IInv

\* The inductive invariant holds in every reachable state; the properties below
\* are parts of it.
THEOREM InductiveInvariant == Spec => []IInv
  BY IInvInit, IInvStep, PTL DEF Spec

\* _active_requests is the number of requests and lease cleanups in flight:
\* no interleaving of the critical sections loses or repeats a count.
THEOREM RequestsAreCounted == Spec => []RequestAccounting
  <1>1. IInv => RequestAccounting
    BY DEF IInv
  <1> QED
    BY <1>1, InductiveInvariant, PTL

\* No path of _lease_response leaves an installed lease without the stream
\* that will detach it.
THEOREM LeasesHaveStreams == Spec => []NoOrphanLease
  <1>1. IInv => NoOrphanLease
    BY DEF IInv
  <1> QED
    BY <1>1, InductiveInvariant, PTL

\* A started worker has a shutdown deadline exactly while no lease holds it,
\* in whatever order start(), the first lease and its release come.
THEOREM DeadlineWhenUnleased == Spec => []DeadlineIffUnleased
  <1>1. IInv => DeadlineIffUnleased
    BY DEF IInv, DeadlineInv, DeadlineIffUnleased
  <1> QED
    BY <1>1, InductiveInvariant, PTL

\* The request count, the streams of the leases and the deadline stay exact
\* together: what the server decides on is never out of date.
THEOREM AccountsStayExact == Spec => []AccountsAreExact
  <1>1. RequestAccounting /\ NoOrphanLease /\ DeadlineIffUnleased => AccountsAreExact
    BY DEF AccountsAreExact
  <1> QED
    BY <1>1, RequestsAreCounted, LeasesHaveStreams, DeadlineWhenUnleased, PTL

\* The watchdog's idle drain never cuts off a lease, a request or a cleanup.
THEOREM IdleDrainCutsNobodyOff == Spec => []IdleDrainIsQuiet
  <1>1. IInv => IdleDrainIsQuiet
    BY DEF IInv, CommitInv
  <1> QED
    BY <1>1, InductiveInvariant, PTL

\* A granted shutdown_database never meets another client.
THEOREM GrantedShutdownIsExclusive == Spec => []ExclusiveShutdown
  <1>1. IInv => ExclusiveShutdown
    BY DEF IInv, CommitInv
  <1> QED
    BY <1>1, InductiveInvariant, PTL

\* No drain of the watchdog or of shutdown_database cuts a client off.
THEOREM NobodyIsCutOff == Spec => []DrainsCutNobodyOff
  <1>1. IdleDrainIsQuiet /\ ExclusiveShutdown => DrainsCutNobodyOff
    BY DEF DrainsCutNobodyOff
  <1> QED
    BY <1>1, IdleDrainCutsNobodyOff, GrantedShutdownIsExclusive, PTL

\* The choice to save or to discard the IDB is made at most once.
THEOREM SaveChoiceIsFinal == Spec => SaveChoiceStable
  <1>1. IInv /\ [Next]_vars =>
          [shutdownRequested => saveOnShutdown' = saveOnShutdown]_vars
    <2> SUFFICES ASSUME IInv, [Next]_vars, shutdownRequested
                 PROVE  saveOnShutdown' = saveOnShutdown
      OBVIOUS
    <2> USE DEF tableVars, drainVars
    <2>1. ASSUME NEW h \in Handlers, NEW save \in BOOLEAN,
                 RequestShutdown(h, save)
          PROVE  FALSE
      <3>1. pc[h] = "request" /\ Installed # {}
        BY <2>1 DEF RequestShutdown, ExclusiveOwner
      <3> QED
        BY <3>1 DEF IInv, CommitInv, ExclusiveShutdown
    <2>2. ASSUME NEW h \in Handlers, HandlerProgress(h)
          PROVE  saveOnShutdown' = saveOnShutdown
      BY <2>2 DEF HandlerProgress, LeaseAttached, StreamStops, EndStream,
        StreamDetaches, DetachLease, StreamAlreadyDetached, CleanupFinished,
        OperationEnds, RequestStep, RequestFinished, BeginRequestedShutdown
    <2>3. ASSUME NEW h \in Handlers, ClientStep(h)
          PROVE  saveOnShutdown' = saveOnShutdown
      BY <2>1, <2>3 DEF ClientStep, LeaseOpened, ClientDisconnects, EndStream,
        ReleaseLease, DetachLease, RequestStarted, OperationBegins,
        RequestStep
    <2>4. CASE QuietStep
      BY <2>4, QuietStepFrame
    <2> QED
      BY <2>2, <2>3, <2>4 DEF Next, QuietStep
  <1> QED
    BY <1>1, InductiveInvariant, PTL DEF Spec, SaveChoiceStable

-----------------------------------------------------------------------------
(* Requests and the leases they name, when identifiers are used once *)

RequestsOf(l) == {h \in Handlers : pc[h] \in RequestStates /\ target[h] = l}

\* An installed lease counts its requests, and expires only with none.
LeaseCounts ==
    \A l \in Installed :
        /\ lease[leases[l]].activeRequests = Cardinality(RequestsOf(l))
        /\ lease[leases[l]].expiring => lease[leases[l]].activeRequests = 0

\* No request names an identifier that was never installed.
UsedIds ==
    /\ Installed \subseteq retired
    /\ \A h \in Handlers : pc[h] \in RequestStates => target[h] \in retired \union {NoLease}

SuspendInv == LeaseCounts /\ UsedIds

\* The requests of a lease are finitely many.
LEMMA RequestsFinite ==
  ASSUME NEW l
  PROVE  /\ IsFiniteSet(RequestsOf(l))
         /\ Cardinality(RequestsOf(l)) \in Nat
         /\ Cardinality(RequestsOf(l)) = 0 <=> RequestsOf(l) = {}
  <1>1. IsFiniteSet(RequestsOf(l))
    BY LeasesAssumption, FS_Subset DEF RequestsOf
  <1> QED
    BY <1>1, FS_CardinalityType, FS_EmptySet

\* Steps that install no lease and leave the requests as they are.
LEMMA SuspendFrame ==
  ASSUME SuspendInv, retired' = retired,
         \A l \in Leases : leases'[l] # NoHandler =>
           /\ leases'[l] = leases[l]
           /\ lease'[leases[l]].activeRequests = lease[leases[l]].activeRequests
           /\ lease'[leases[l]].expiring =>
                \/ lease[leases[l]].expiring
                \/ lease[leases[l]].activeRequests = 0,
         \A h \in Handlers : /\ pc'[h] \in RequestStates <=> pc[h] \in RequestStates
                             /\ pc[h] \in RequestStates => target'[h] = target[h]
  PROVE  SuspendInv'
  <1>1. \A l : RequestsOf(l)' = RequestsOf(l)
    BY DEF RequestsOf
  <1>2. Installed' \subseteq Installed
    BY DEF Installed
  <1>3. LeaseCounts'
    BY <1>1, <1>2 DEF SuspendInv, LeaseCounts, Installed
  <1>4. UsedIds'
    BY <1>2 DEF SuspendInv, UsedIds
  <1> QED
    BY <1>3, <1>4 DEF SuspendInv

\* A new lease has an identifier that no request names.
LEMMA OpenedSuspends ==
  ASSUME ~ReuseLeaseIds, TypeInv, NoOrphanLease, SuspendInv,
         NEW h \in Handlers, NEW l \in Leases, NEW k \in Keepalives, NEW t \in IdleTimeouts,
         LeaseOpened(h, l, k, t)
  PROVE  SuspendInv'
  <1>1. /\ leases' = [leases EXCEPT ![l] = h] /\ retired' = retired \union {l}
        /\ lease' = [lease EXCEPT ![h] = NewLease(k, t)]
        /\ \A g \in Handlers \ {h} : pc'[g] = pc[g] /\ target'[g] = target[g]
        /\ pc'[h] = "attaching" /\ pc[h] = "idle" /\ l \notin retired
    BY DEF LeaseOpened, TypeInv, TypeOK
  <1>2. \A m : RequestsOf(m)' = RequestsOf(m)
    BY <1>1 DEF RequestsOf, RequestStates
  <1>3. \A m \in Installed : leases[m] # h /\ leases'[m] = leases[m] /\ m # l
    BY <1>1 DEF Installed, NoOrphanLease, SuspendInv, UsedIds, TypeInv, TypeOK
  <1>4. Installed' \subseteq Installed \union {l}
    BY <1>1 DEF Installed, TypeInv, TypeOK
  <1>5. UsedIds'
    BY <1>1, <1>4 DEF SuspendInv, UsedIds, RequestStates
  <1>6. ASSUME NEW m \in Installed' PROVE
          /\ lease'[leases'[m]].activeRequests = Cardinality(RequestsOf(m))
          /\ lease'[leases'[m]].expiring => lease'[leases'[m]].activeRequests = 0
    <2>1. CASE m = l
      <3>1. lease'[leases'[l]] = NewLease(k, t)
        BY <1>1 DEF TypeInv, TypeOK
      <3>2. RequestsOf(l) = {}
        BY <1>1, LeasesAssumption DEF SuspendInv, UsedIds, RequestsOf
      <3> QED
        BY <2>1, <3>1, <3>2, RequestsFinite DEF NewLease
    <2>2. CASE m # l
      <3>1. m \in Installed /\ lease'[leases'[m]] = lease[leases[m]]
        BY <1>1, <1>3, <1>4, <2>2 DEF TypeInv, TypeOK, Installed
      <3> QED
        BY <3>1 DEF SuspendInv, LeaseCounts
    <2> QED
      BY <2>1, <2>2
  <1>7. LeaseCounts'
    BY <1>2, <1>6 DEF LeaseCounts
  <1> QED
    BY <1>5, <1>7 DEF SuspendInv

\* Two leases have two objects.
LEMMA OwnersDiffer ==
  ASSUME NoOrphanLease, NEW l \in Installed, NEW m \in Installed, leases[l] = leases[m]
  PROVE  l = m
  BY DEF NoOrphanLease, Installed

\* A request is counted by the lease it names, which is not expiring.
LEMMA StartedSuspends ==
  ASSUME TypeInv, NoOrphanLease, SuspendInv,
         NEW h \in Handlers, NEW l \in Leases \union {NoLease}, RequestStarted(h, l)
  PROVE  SuspendInv'
  <1>1. /\ leases' = leases /\ retired' = retired /\ LeaseUsable(l)
        /\ \A g \in Handlers \ {h} : pc'[g] = pc[g] /\ target'[g] = target[g]
        /\ pc'[h] = "request" /\ pc[h] = "idle" /\ target'[h] = l
    BY DEF RequestStarted, TypeInv, TypeOK
  <1>2. Installed' = Installed
    BY <1>1 DEF Installed
  <1>3. l \in Installed \union {NoLease}
    BY <1>1 DEF LeaseUsable, Installed
  <1>4. UsedIds'
    BY <1>1, <1>2, <1>3 DEF SuspendInv, UsedIds, RequestStates
  <1>5. ASSUME NEW m \in Installed PROVE
          /\ lease'[leases[m]].activeRequests = Cardinality(RequestsOf(m)')
          /\ lease'[leases[m]].expiring => lease'[leases[m]].activeRequests = 0
    <2>1. /\ lease[leases[m]].activeRequests = Cardinality(RequestsOf(m))
          /\ lease[leases[m]].expiring => lease[leases[m]].activeRequests = 0
      BY DEF SuspendInv, LeaseCounts
    <2>2. leases[m] \in Handlers /\ lease[leases[m]] \in Lease
      BY InstalledOwner DEF Installed, TypeInv
    <2>3. CASE m = l
      <3>1. l # NoLease /\ ~lease[leases[l]].expiring
        BY <1>1, <2>3, LeasesAssumption DEF LeaseUsable, Installed
      <3>2. /\ lease'[leases[l]].activeRequests = lease[leases[l]].activeRequests + 1
            /\ ~lease'[leases[l]].expiring
        BY <2>2, <2>3, <3>1 DEF RequestStarted, TypeInv, TypeOK, Lease
      <3>3. RequestsOf(l)' = RequestsOf(l) \union {h} /\ h \notin RequestsOf(l)
        BY <1>1 DEF RequestsOf, RequestStates
      <3>4. Cardinality(RequestsOf(l)') = Cardinality(RequestsOf(l)) + 1
        BY <3>3, RequestsFinite, FS_AddElement
      <3> QED
        BY <2>1, <2>3, <3>2, <3>4
    <2>4. CASE m # l
      <3>1. lease'[leases[m]] = lease[leases[m]]
        BY <1>3, <2>2, <2>4, OwnersDiffer DEF RequestStarted, TypeInv, TypeOK
      <3>2. RequestsOf(m)' = RequestsOf(m)
        BY <1>1, <2>4 DEF RequestsOf, RequestStates
      <3> QED
        BY <2>1, <3>1, <3>2
    <2> QED
      BY <2>3, <2>4
  <1>6. LeaseCounts'
    BY <1>1, <1>2, <1>5 DEF LeaseCounts
  <1> QED
    BY <1>4, <1>6 DEF SuspendInv

\* A request that ends is taken off the count it was added to.
LEMMA FinishedSuspends ==
  ASSUME TypeInv, NoOrphanLease, SuspendInv, NEW h \in Handlers, RequestFinished(h)
  PROVE  SuspendInv'
  <1>1. /\ leases' = leases /\ retired' = retired
        /\ \A g \in Handlers \ {h} : pc'[g] = pc[g] /\ target'[g] = target[g]
        /\ pc'[h] \notin RequestStates /\ pc[h] \in RequestStates
    BY DEF RequestFinished, TypeInv, TypeOK, RequestStates
  <1>2. Installed' = Installed
    BY <1>1 DEF Installed
  <1>3. UsedIds'
    BY <1>1, <1>2 DEF SuspendInv, UsedIds
  <1>4. \A m : RequestsOf(m)' = RequestsOf(m) \ {h}
    BY <1>1 DEF RequestsOf
  <1>5. ASSUME NEW m \in Installed PROVE
          /\ lease'[leases[m]].activeRequests = Cardinality(RequestsOf(m)')
          /\ lease'[leases[m]].expiring => lease'[leases[m]].activeRequests = 0
    <2>1. /\ lease[leases[m]].activeRequests = Cardinality(RequestsOf(m))
          /\ lease[leases[m]].expiring => lease[leases[m]].activeRequests = 0
      BY DEF SuspendInv, LeaseCounts
    <2>2. leases[m] \in Handlers /\ lease[leases[m]] \in Lease
      BY InstalledOwner DEF Installed, TypeInv
    <2>3. CASE m = target[h]
      <3>1. h \in RequestsOf(m)
        BY <1>1, <2>3 DEF RequestsOf
      <3>2. /\ lease[leases[m]].activeRequests \in Nat \ {0}
            /\ Cardinality(RequestsOf(m) \ {h}) = Cardinality(RequestsOf(m)) - 1
        BY <2>1, <3>1, RequestsFinite, FS_RemoveElement
      <3>3. m # NoLease /\ leases[m] # NoHandler
        BY LeasesAssumption DEF Installed
      <3>4. lease'[leases[m]] = FinishOn(lease[leases[m]])
        BY <2>2, <2>3, <3>3 DEF RequestFinished, TypeInv, TypeOK
      <3>5. /\ FinishOn(lease[leases[m]]).activeRequests = lease[leases[m]].activeRequests - 1
            /\ FinishOn(lease[leases[m]]).expiring = lease[leases[m]].expiring
        BY <2>2, <3>2 DEF FinishOn, Lease
      <3>6. ~lease[leases[m]].expiring
        BY <2>1, <3>2
      <3> QED
        BY <1>4, <2>1, <3>2, <3>4, <3>5, <3>6
    <2>4. CASE m # target[h]
      <3>1. target[h] \in Leases /\ leases[target[h]] # NoHandler => target[h] \in Installed
        BY DEF Installed
      <3>2. lease'[leases[m]] = lease[leases[m]]
        BY <2>2, <2>4, <3>1, OwnersDiffer DEF RequestFinished, TypeInv, TypeOK
      <3>3. RequestsOf(m)' = RequestsOf(m)
        BY <1>4, <2>4 DEF RequestsOf
      <3> QED
        BY <2>1, <3>2, <3>3
    <2> QED
      BY <2>3, <2>4
  <1>6. LeaseCounts'
    BY <1>1, <1>2, <1>5 DEF LeaseCounts
  <1> QED
    BY <1>3, <1>6 DEF SuspendInv

\* Time, the watchdog, the host and signals neither add nor end a request; the
\* sweep marks only leases without one.
LEMMA QuietSuspends ==
  ASSUME TypeInv, SuspendInv, QuietStep PROVE SuspendInv'
  <1>1. retired' = retired
    BY AnalysisFrame DEF QuietStep, Tick, WatchdogStep, WatchdogSweep, WatchdogSeesDraining, WatchdogSeesStop,
      WatchdogStopsStreams, WatchdogStopsLeases, WatchdogNotifies, WatchdogMoves, HostProgress,
      HostStartFails, HostPublishes, HostSetsEntry, HostArms, HostStartsAnalysis, HostServes,
      HostLeavesServe, HostStopsStreams, HostStopsLeases, HostCloses, HostReleases, HostMoves,
      Signal, vars,
      tableVars
  <1>2. ASSUME NEW h \in Handlers
        PROVE  /\ lease'[h].activeRequests = lease[h].activeRequests
               /\ lease'[h].expiring => lease[h].expiring \/ lease[h].activeRequests = 0
    <2>1. lease[h] \in Lease
      BY DEF TypeInv, TypeOK
    <2>2. CASE Tick
      BY <2>1, <2>2 DEF Tick, Lease
    <2>3. CASE WatchdogSweep
      BY <2>1, <2>3 DEF WatchdogSweep, Expire, IdleExpired, Lease
    <2>4. CASE StopLeases
      BY <2>1, <2>4 DEF StopLeases, Lease
    <2>5. CASE lease' = lease
      BY <2>5
    <2>6. Tick \/ WatchdogSweep \/ StopLeases \/ lease' = lease
      BY AnalysisFrame DEF QuietStep, WatchdogStep, WatchdogSeesDraining, WatchdogSeesStop,
        WatchdogStopsStreams, WatchdogStopsLeases, WatchdogNotifies, WatchdogMoves, HostProgress,
        HostStartFails, HostPublishes, HostSetsEntry, HostArms, HostStartsAnalysis, HostServes,
        HostLeavesServe, HostStopsStreams, HostStopsLeases, HostCloses, HostReleases, Signal, vars, tableVars
    <2> QED
      BY <2>2, <2>3, <2>4, <2>5, <2>6
  <1> QED
    BY <1>1, <1>2, QuietStepFrame, SuspendFrame DEF TypeInv, TypeOK

\* Detaching takes a lease away and marks its object.
LEMMA DetachSuspends ==
  ASSUME TypeInv, SuspendInv, NEW h \in Handlers, NEW l \in Leases, leases[l] # NoHandler,
         pc[h] \notin RequestStates, DetachLease(h, l)
  PROVE  SuspendInv'
  <1>1. \A g \in Handlers : /\ lease'[g].activeRequests = lease[g].activeRequests
                            /\ lease'[g].expiring = lease[g].expiring
    BY DEF DetachLease, TypeInv, TypeOK, Lease
  <1>2. \A m \in Leases : leases'[m] # NoHandler => leases'[m] = leases[m]
    BY DEF DetachLease, TypeInv, TypeOK
  <1>3. \A g \in Handlers : /\ pc'[g] \in RequestStates <=> pc[g] \in RequestStates
                            /\ pc[g] \in RequestStates => target'[g] = target[g]
    BY DEF DetachLease, TypeInv, TypeOK, RequestStates
  <1> QED
    BY <1>1, <1>2, <1>3, SuspendFrame DEF DetachLease, TypeInv, TypeOK

\* Every step keeps the counts of the leases.
LEMMA SuspendStep ==
  ~ReuseLeaseIds /\ TypeInv /\ NoOrphanLease /\ SuspendInv /\ [Next]_vars => SuspendInv'
  <1> SUFFICES ASSUME ~ReuseLeaseIds, TypeInv, NoOrphanLease, SuspendInv, [Next]_vars
               PROVE  SuspendInv'
    OBVIOUS
  <1>1. ASSUME NEW h \in Handlers,
               \/ LeaseAttached(h)
               \/ ClientDisconnects(h)
               \/ StreamStops(h)
               \/ OperationBegins(h)
               \/ OperationEnds(h)
               \/ BeginRequestedShutdown(h)
               \/ \E save \in BOOLEAN : RequestShutdown(h, save)
        PROVE  SuspendInv'
    <2>1. UNCHANGED <<target, lease, leases, retired>>
      BY <1>1 DEF LeaseAttached, ClientDisconnects, StreamStops, EndStream, OperationBegins,
        OperationEnds, RequestStep, BeginRequestedShutdown, RequestShutdown, tableVars
    <2>2. \A g \in Handlers : pc'[g] \in RequestStates <=> pc[g] \in RequestStates
      BY <1>1 DEF LeaseAttached, FailedAttach, ClientDisconnects, StreamStops, EndStream,
        OperationBegins, OperationEnds, RequestStep, BeginRequestedShutdown, RequestShutdown,
        RequestStates, TypeInv, TypeOK
    <2> QED
      BY <2>1, <2>2, SuspendFrame
  <1>2. ASSUME NEW h \in Handlers, StreamAlreadyDetached(h) \/ CleanupFinished(h)
        PROVE  SuspendInv'
    <2>1. \A l \in Leases : leases'[l] # NoHandler =>
            leases'[l] = leases[l] /\ lease'[leases[l]] = lease[leases[l]]
      BY <1>2 DEF StreamAlreadyDetached, CleanupFinished, NoOrphanLease, TypeInv, TypeOK
    <2>2. \A g \in Handlers : /\ pc'[g] \in RequestStates <=> pc[g] \in RequestStates
                              /\ pc[g] \in RequestStates => target'[g] = target[g]
      BY <1>2 DEF StreamAlreadyDetached, CleanupFinished, RequestStates, TypeInv, TypeOK
    <2>3. retired' = retired
      BY <1>2 DEF StreamAlreadyDetached, CleanupFinished
    <2> QED
      BY <2>1, <2>2, <2>3, SuspendFrame
  <1>3. ASSUME NEW h \in Handlers, StreamDetaches(h)
        PROVE  SuspendInv'
    <2>1. target[h] \in Leases
      BY <1>3 DEF StreamDetaches, StreamTargets, StreamStates, TypeInv
    <2> QED
      BY <1>3, <2>1, DetachSuspends DEF StreamDetaches, RequestStates
  <1>4. ASSUME NEW h \in Handlers, NEW l \in Leases, ReleaseLease(h, l)
        PROVE  SuspendInv'
    BY <1>4, DetachSuspends DEF ReleaseLease, RequestStates
  <1> QED
    BY <1>1, <1>2, <1>3, <1>4, OpenedSuspends, StartedSuspends, FinishedSuspends, QuietSuspends
      DEF Next, HandlerProgress, ClientStep, QuietStep

\* A request suspends the expiry of its lease, for clients that use a lease
\* identifier once.
THEOREM RequestsKeepTheirLease ==
  ASSUME ~ReuseLeaseIds
  PROVE  Spec => []RequestsSuspendExpiry
  <1>1. Init => SuspendInv
    <2> SUFFICES ASSUME Init PROVE SuspendInv
      OBVIOUS
    <2>1. Installed = {} /\ \A h \in Handlers : pc[h] \notin RequestStates
      BY DEF Init, Installed, RequestStates
    <2> QED
      BY <2>1 DEF SuspendInv, LeaseCounts, UsedIds
  <1>2. IInv /\ SuspendInv /\ [Next]_vars => SuspendInv'
    BY SuspendStep DEF IInv
  <1>3. SuspendInv => RequestsSuspendExpiry
    <2> SUFFICES ASSUME SuspendInv, NEW h \in Handlers, pc[h] \in RequestStates,
                        NEW l \in Installed, target[h] = l
                 PROVE  ~lease[leases[l]].expiring
      BY DEF RequestsSuspendExpiry
    <2>1. RequestsOf(l) # {}
      BY DEF RequestsOf
    <2> QED
      BY <2>1, RequestsFinite DEF SuspendInv, LeaseCounts
  <1> QED
    BY <1>1, <1>2, <1>3, InductiveInvariant, PTL DEF Spec

-----------------------------------------------------------------------------
(* Servers that are not managed *)

\* Nothing requests a shutdown of a server that is not managed, it has no
\* watchdog, and it drains only when its host stops it.
UnmanagedInv ==
    /\ host = "draining" => streamStop
    /\ ~Managed =>
         /\ watchdog = "absent"
         /\ ~shutdownRequested
         /\ \A h \in Handlers : pc[h] \notin {"granted", "committing"}
         /\ draining => streamStop

\* No step makes a server that is not managed withdraw by itself.
LEMMA UnmanagedStep == IInv /\ UnmanagedInv /\ [Next]_vars => UnmanagedInv'
  <1> SUFFICES ASSUME IInv, UnmanagedInv, [Next]_vars
               PROVE  UnmanagedInv'
    OBVIOUS
  <1> USE DEF tableVars, drainVars, hostVars
  <1>0. TypeOK
    BY DEF IInv, TypeInv
  <1>1. ASSUME NEW h \in Handlers, NEW l \in Leases, DetachLease(h, l)
        PROVE  UnmanagedInv'
    BY <1>0, <1>1 DEF UnmanagedInv, DetachLease, FinalReleaseCommits, TypeOK
  <1>2. ASSUME NEW h \in Handlers, HandlerProgress(h)
        PROVE  UnmanagedInv'
    <2>1. CASE StreamDetaches(h)
      <3>1. target[h] \in Leases
        BY <1>2, <2>1 DEF IInv, TypeInv, StreamTargets, StreamStates,
          StreamDetaches
      <3> QED
        BY <1>1, <2>1, <3>1 DEF StreamDetaches
    <2>2. CASE \/ LeaseAttached(h) \/ StreamStops(h) \/ StreamAlreadyDetached(h)
               \/ CleanupFinished(h) \/ OperationEnds(h)
      BY <1>0, <2>2 DEF UnmanagedInv, TypeOK, LeaseAttached, FailedAttach,
        StreamStops, EndStream, StreamAlreadyDetached, CleanupFinished,
        OperationEnds, RequestStep
    <2>3. CASE RequestFinished(h)
      BY <1>0, <2>3 DEF UnmanagedInv, TypeOK, RequestFinished
    <2>4. CASE BeginRequestedShutdown(h)
      BY <1>0, <2>4 DEF UnmanagedInv, TypeOK, BeginRequestedShutdown
    <2> QED
      BY <1>2, <2>1, <2>2, <2>3, <2>4 DEF HandlerProgress
  <1>3. ASSUME NEW h \in Handlers, ClientStep(h)
        PROVE  UnmanagedInv'
    <2>1. CASE \E l \in Leases : ReleaseLease(h, l)
      BY <1>1, <2>1 DEF ReleaseLease
    <2>2. CASE \E l \in Leases, k \in Keepalives, t \in IdleTimeouts :
                 LeaseOpened(h, l, k, t)
      BY <1>0, <2>2 DEF UnmanagedInv, TypeOK, LeaseOpened
    <2>3. CASE \E l \in Leases \union {NoLease} : RequestStarted(h, l)
      BY <1>0, <2>3 DEF UnmanagedInv, TypeOK, RequestStarted
    <2>4. CASE ClientDisconnects(h) \/ OperationBegins(h)
      BY <1>0, <2>4 DEF UnmanagedInv, TypeOK, ClientDisconnects, EndStream,
        OperationBegins, RequestStep
    <2>5. CASE \E save \in BOOLEAN : RequestShutdown(h, save)
      BY <1>0, <2>5 DEF UnmanagedInv, TypeOK, RequestShutdown
    <2> QED
      BY <1>3, <2>1, <2>2, <2>3, <2>4, <2>5 DEF ClientStep
  <1>4. CASE WatchdogStep
    BY <1>4 DEF UnmanagedInv, WatchdogStep, WatchdogSweep,
      WatchdogSeesDraining, WatchdogSeesStop, WatchdogStopsStreams,
      WatchdogStopsLeases, WatchdogNotifies, WatchdogMoves
  <1>5. CASE HostProgress \/ HostStartFails
    BY <1>5 DEF UnmanagedInv, HostProgress, HostStartFails, HostMoves,
      HostPublishes, HostSetsEntry, HostArms, HostStartsAnalysis, HostServes,
      HostLeavesServe, HostStopsStreams, HostStopsLeases, HostCloses, HostReleases
  <1>6. CASE Tick \/ AnalysisStep \/ Signal \/ UNCHANGED vars
    BY <1>6, AnalysisFrame DEF UnmanagedInv, Tick, Signal, vars
  <1> QED
    BY <1>2, <1>3, <1>4, <1>5, <1>6 DEF Next

\* A server that is not managed goes on admitting clients, whatever leases
\* and shutdown requests come and go, until its host stops it.
THEOREM UnmanagedServerStays == Spec => []UnmanagedKeepsAdmitting
  <1>1. Init => UnmanagedInv
    BY DEF Init, UnmanagedInv
  <1>2. UnmanagedInv => UnmanagedKeepsAdmitting
    BY DEF UnmanagedInv, UnmanagedKeepsAdmitting, Admits
  <1> QED
    BY <1>1, <1>2, InductiveInvariant, UnmanagedStep, PTL DEF Spec
-----------------------------------------------------------------------------
(* The analysis and the main thread *)

\* Where the main thread is while the analysis runs, and who lets it leave
\* serve(): a signal, or the watchdog after the last slice.
StrandInv ==
    /\ host \in {"binding", "published", "entered"} => watchdog = "absent"
    /\ host \in {"binding", "published", "entered", "started"} => analysis = "none"
    /\ stopServing /\ ~stopSignal => watchdog = "ended" /\ analysis = "none"
    /\ host \in {"stopping", "draining", "closing"} /\ ~stopSignal => analysis = "none"

\* What handlers do leaves all of that alone.
LEMMA HandlersFrame ==
  ASSUME NEW h \in Handlers, HandlerProgress(h) \/ ClientStep(h)
  PROVE  UNCHANGED <<host, watchdog, stopServing, stopSignal, analysis>>
  BY DEF HandlerProgress, ClientStep, LeaseOpened, LeaseAttached, ClientDisconnects, StreamStops,
    EndStream, StreamDetaches, ReleaseLease, DetachLease, StreamAlreadyDetached, CleanupFinished,
    RequestStarted, OperationBegins, OperationEnds, RequestStep, RequestFinished, RequestShutdown,
    BeginRequestedShutdown, hostVars

\* The watchdog waits for the last slice, and no analysis starts after it.
LEMMA StrandStep == StrandInv /\ [Next]_vars => StrandInv'
  <1> SUFFICES ASSUME StrandInv, [Next]_vars PROVE StrandInv'
    OBVIOUS
  <1> USE DEF hostVars
  <1>1. ASSUME NEW h \in Handlers, HandlerProgress(h) \/ ClientStep(h)
        PROVE  StrandInv'
    BY <1>1, HandlersFrame DEF StrandInv
  <1>2. CASE Tick \/ Signal \/ UNCHANGED vars
    BY <1>2 DEF Tick, Signal, vars, StrandInv
  <1>3. CASE WatchdogStep
    BY <1>3 DEF WatchdogStep, WatchdogSweep, WatchdogSeesDraining, WatchdogSeesStop,
      WatchdogStopsStreams, WatchdogStopsLeases, WatchdogNotifies, WatchdogMoves, StrandInv
  <1>4. CASE AnalysisStep
    <2>1. analysis # "none"
      BY <1>4 DEF AnalysisStep, AnalysisBegins, SliceEnds, AnalysisEnds, AnalysisMoves
    <2> QED
      BY <1>4, <2>1, AnalysisFrame DEF StrandInv
  <1>5. CASE HostStartsAnalysis
    BY <1>5 DEF HostStartsAnalysis, ServerStopped, StrandInv
  <1>6. CASE HostArms
    BY <1>6 DEF HostArms, HostMoves, StrandInv
  <1>7. CASE HostServes
    BY <1>7 DEF HostServes, HostMoves, StrandInv
  <1>8. CASE \/ HostPublishes \/ HostSetsEntry \/ HostLeavesServe \/ HostStopsStreams
             \/ HostStopsLeases \/ HostCloses \/ HostReleases \/ HostStartFails
    BY <1>8 DEF HostPublishes, HostSetsEntry, HostLeavesServe, HostStopsStreams, HostStopsLeases,
      HostCloses, HostReleases, HostStartFails, HostMoves, StrandInv
  <1> QED
    BY <1>1, <1>2, <1>3, <1>4, <1>5, <1>6, <1>7, <1>8 DEF Next, HostProgress

\* stop() joins the analysis thread without a bound.  Whoever drains or releases
\* the server, the main thread does not get there while a slice waits for it:
\* only a signal can take it out of serve() then.
THEOREM OnlySignalsDo == Spec => []OnlySignalsStrand
  <1>1. Init => StrandInv
    BY DEF Init, StrandInv
  <1>2. StrandInv => OnlySignalsStrand
    BY DEF StrandInv, OnlySignalsStrand, Stranded
  <1> QED
    BY <1>1, <1>2, StrandStep, PTL DEF Spec

-----------------------------------------------------------------------------
(* NexusLeases implements WorkerService *)

\* No stop begins without a cause: a thread that is stopping the server was
\* told to by a signal or by a drain, and admission has ended by the time the
\* IDB is being closed.
StopsAreOwed ==
    /\ stopServing => draining \/ stopSignal
    /\ host \in {"stopping", "draining"} => draining \/ stopSignal
    /\ host \in {"closing", "closed", "released"} => draining
    /\ host = "binding" => Installed = {}
    /\ watchdog \in {"stopping", "draining", "notifying"} => draining
    /\ streamStop \/ watchdog = "ended" => draining \/ stopSignal
    /\ watchdog # "absent" => Managed
    /\ \A h \in Handlers :
         pc[h] \in {"granted", "committing"} => shutdownRequested

\* A detach leaves the threads that stop the server, and admission is closed
\* at most.
LEMMA DetachOwes ==
  ASSUME TypeInv, StopsAreOwed, NEW h \in Handlers, NEW l \in Leases,
         leases[l] # NoHandler, DetachLease(h, l)
  PROVE  StopsAreOwed'
  <1>1. /\ Installed' = Installed \ {l}
        /\ pc' = [pc EXCEPT ![h] = "cleanup"]
    BY DetachEffect
  <1>2. /\ UNCHANGED <<draining, streamStop, watchdog, host, stopServing, stopSignal>>
        /\ shutdownRequested => shutdownRequested'
    BY DEF DetachLease, drainVars, hostVars
  <1> QED
    BY <1>1, <1>2 DEF StopsAreOwed, TypeInv, TypeOK

\* What handlers do besides opening and detaching leases.
LeaseKeepingStep(h) ==
    \/ LeaseAttached(h) \/ ClientDisconnects(h) \/ StreamStops(h)
    \/ StreamAlreadyDetached(h) \/ CleanupFinished(h)
    \/ \E l \in Leases \union {NoLease} : RequestStarted(h, l)
    \/ OperationBegins(h) \/ OperationEnds(h) \/ RequestFinished(h)

\* It shows the clients nothing of the service.
LEMMA LeaseKeepingFrame ==
  ASSUME NEW h \in Handlers, LeaseKeepingStep(h)
  PROVE  UNCHANGED <<leases, draining, shutdownRequested, streamStop, watchdog, host,
                     stopServing, stopSignal>>
  BY DEF LeaseKeepingStep, LeaseAttached, ClientDisconnects, StreamStops,
    EndStream, StreamAlreadyDetached, CleanupFinished, RequestStarted,
    OperationBegins, OperationEnds, RequestStep, RequestFinished, tableVars,
    drainVars, hostVars

\* The steps of Next, as the service tells them apart.
LEMMA StepCases ==
  ASSUME TypeInv, [Next]_vars
  PROVE  \/ \E h \in Handlers, l \in Leases, k \in Keepalives,
               t \in IdleTimeouts : LeaseOpened(h, l, k, t)
         \/ \E h \in Handlers, l \in Leases :
               leases[l] # NoHandler /\ DetachLease(h, l)
         \/ \E h \in Handlers : LeaseKeepingStep(h)
         \/ \E h \in Handlers, save \in BOOLEAN : RequestShutdown(h, save)
         \/ \E h \in Handlers : BeginRequestedShutdown(h)
         \/ QuietStep
  <1>1. ASSUME NEW h \in Handlers, StreamDetaches(h)
        PROVE  \E l \in Leases : leases[l] # NoHandler /\ DetachLease(h, l)
    <2>1. target[h] \in Leases
      BY <1>1 DEF StreamDetaches, StreamTargets, StreamStates, TypeInv
    <2> QED
      BY <1>1, <2>1 DEF StreamDetaches
  <1>2. ASSUME NEW h \in Handlers, NEW l \in Leases, ReleaseLease(h, l)
        PROVE  leases[l] # NoHandler /\ DetachLease(h, l)
    BY <1>2 DEF ReleaseLease
  <1> QED
    BY <1>1, <1>2 DEF Next, HandlerProgress, ClientStep, LeaseKeepingStep,
      QuietStep

\* Every stop has a cause, after every step.
LEMMA StopsStep == TypeInv /\ StopsAreOwed /\ [Next]_vars => StopsAreOwed'
  <1> SUFFICES ASSUME TypeInv, StopsAreOwed, [Next]_vars
               PROVE  StopsAreOwed'
    OBVIOUS
  <1> USE DEF tableVars, drainVars, hostVars
  <1>1. ASSUME NEW h \in Handlers, NEW l \in Leases, NEW k \in Keepalives,
               NEW t \in IdleTimeouts, LeaseOpened(h, l, k, t)
        PROVE  StopsAreOwed'
    BY <1>1 DEF LeaseOpened, Reachable, StopsAreOwed, TypeInv, TypeOK
  <1>2. ASSUME NEW h \in Handlers, LeaseKeepingStep(h)
        PROVE  StopsAreOwed'
    <2>1. \A g \in Handlers : pc'[g] \in {"granted", "committing"} =>
                                pc[g] \in {"granted", "committing"}
      BY <1>2 DEF LeaseKeepingStep, LeaseAttached, FailedAttach,
        ClientDisconnects, StreamStops, EndStream, StreamAlreadyDetached,
        CleanupFinished, RequestStarted, OperationBegins, OperationEnds,
        RequestStep, RequestFinished, TypeInv, TypeOK
    <2> QED
      BY <1>2, <2>1, LeaseKeepingFrame DEF StopsAreOwed, Installed
  <1>3. ASSUME NEW h \in Handlers, NEW save \in BOOLEAN,
               RequestShutdown(h, save)
        PROVE  StopsAreOwed'
    BY <1>3 DEF RequestShutdown, StopsAreOwed, Installed
  <1>4. ASSUME NEW h \in Handlers, BeginRequestedShutdown(h)
        PROVE  StopsAreOwed'
    BY <1>4 DEF BeginRequestedShutdown, StopsAreOwed, Installed, TypeInv,
      TypeOK
  <1>5. CASE QuietStep
    <2>1. UNCHANGED <<pc, leases, shutdownRequested>> /\ Installed' = Installed
      BY <1>5, QuietStepFrame DEF Installed
    <2>2. CASE Tick \/ AnalysisStep \/ Signal \/ UNCHANGED vars
      BY <2>1, <2>2, AnalysisFrame DEF Tick, Signal, vars, StopsAreOwed
    <2>3. CASE WatchdogSweep
      BY <2>1, <2>3 DEF WatchdogSweep, StopsAreOwed
    <2>4. CASE WatchdogStep /\ ~WatchdogSweep
      BY <2>1, <2>4 DEF WatchdogStep, WatchdogSeesDraining, WatchdogSeesStop,
        WatchdogStopsStreams, WatchdogStopsLeases, WatchdogNotifies,
        WatchdogMoves, StopsAreOwed
    <2>5. CASE HostArms
      BY <2>1, <2>5 DEF HostArms, HostMoves, StopsAreOwed
    <2>6. CASE HostServes
      <3>1. stopServing' => stopServing
        BY <2>6 DEF HostServes
      <3> QED
        BY <2>1, <2>6, <3>1 DEF HostServes, HostMoves, StopsAreOwed
    <2>7. CASE HostStopsLeases \/ HostStartFails
      BY <2>1, <2>7 DEF HostStopsLeases, HostStartFails, HostMoves,
        StopsAreOwed
    <2>8. CASE \/ HostPublishes \/ HostSetsEntry \/ HostLeavesServe
               \/ HostStopsStreams \/ HostCloses \/ HostReleases
      BY <2>1, <2>8 DEF HostPublishes, HostSetsEntry, HostLeavesServe,
        HostStopsStreams, HostCloses, HostReleases, HostMoves, StopsAreOwed
    <2>9. CASE HostStartsAnalysis
      BY <2>1, <2>9 DEF HostStartsAnalysis, ServerStopped, StopsAreOwed
    <2> QED
      BY <1>5, <2>2, <2>3, <2>4, <2>5, <2>6, <2>7, <2>8, <2>9
        DEF QuietStep, HostProgress
  <1> QED
    BY <1>1, <1>2, <1>3, <1>4, <1>5, StepCases, DetachOwes

\* A server that is not serving its clients any more has ended admission.
LEMMA PhaseOfHost ==
  ASSUME StopsAreOwed
  PROVE  /\ ServicePhase = "serving" <=> Admits
         /\ ServicePhase = "closed" <=> host \in {"closed", "released"}
         /\ ServicePhase \in {"serving", "committed", "closed"}
  BY DEF StopsAreOwed, ServicePhase, Admits

\* A step that leaves admission, the clients, the signal and the closing of
\* the IDB alone is none of the service's.
LEMMA ServiceStutters ==
  ASSUME Installed' = Installed, stopSignal' = stopSignal, Admits' = Admits,
         host' \in {"closed", "released"} <=> host \in {"closed", "released"}
  PROVE  UNCHANGED Service!vars
  BY DEF Service!vars, ServicePhase

\* A step that ends admission and nothing else is the service's commitment,
\* or none when admission had ended.
LEMMA AdmissionEnds ==
  ASSUME StopsAreOwed, StopsAreOwed', Installed' = Installed,
         stopSignal' = stopSignal, ~Admits',
         host' \in {"closed", "released"} <=> host \in {"closed", "released"},
         Admits => Service!MayCommit
  PROVE  [Service!Next]_(Service!vars)
  <1>1. CASE Admits
    <2>1. ServicePhase = "serving" /\ ServicePhase' = "committed"
      BY <1>1, PhaseOfHost DEF ServicePhase
    <2> QED
      BY <1>1, <2>1 DEF Service!Commit, Service!Next
  <1>2. CASE ~Admits
    BY <1>2, ServiceStutters DEF Admits
  <1> QED
    BY <1>1, <1>2

\* An installed lease is a new client.
LEMMA OpenAttaches ==
  ASSUME TypeInv, StopsAreOwed, NEW h \in Handlers, NEW l \in Leases,
         NEW k \in Keepalives, NEW t \in IdleTimeouts, LeaseOpened(h, l, k, t)
  PROVE  Service!Attach(l)
  <1>1. Installed' = Installed \union {l} /\ l \notin Installed
    BY LeasesAssumption DEF LeaseOpened, Installed, TypeInv, TypeOK
  <1>2. UNCHANGED <<draining, shutdownRequested, host, stopSignal>> /\ Admits
    BY DEF LeaseOpened, drainVars, hostVars
  <1>3. ServicePhase = "serving" /\ ServicePhase' = ServicePhase
    BY <1>2, PhaseOfHost DEF ServicePhase, Admits
  <1> QED
    BY <1>1, <1>2, <1>3 DEF Service!Attach

\* A detached lease is a client that left; the last one may take a managed
\* worker with it.
LEMMA DetachDetaches ==
  ASSUME TypeInv, StopsAreOwed, NEW h \in Handlers, NEW l \in Leases,
         leases[l] # NoHandler, DetachLease(h, l)
  PROVE  Service!Detach(l) \/ Service!DetachAndCommit(l)
  <1>1. /\ Installed' = Installed \ {l}
        /\ l \in Installed
    BY DetachEffect
  <1>2. /\ UNCHANGED <<draining, host, stopSignal>>
        /\ shutdownRequested' \in BOOLEAN
        /\ shutdownRequested => shutdownRequested'
        /\ shutdownRequested' =>
             shutdownRequested \/ (Managed /\ Installed = {l})
    BY DEF DetachLease, FinalReleaseCommits, drainVars, hostVars, TypeInv,
      TypeOK
  <1>3. CASE Admits /\ ~Admits'
    <2>1. Managed /\ Installed = {l}
      BY <1>2, <1>3 DEF Admits
    <2>2. ServicePhase = "serving" /\ ServicePhase' = "committed"
      BY <1>2, <1>3, PhaseOfHost DEF ServicePhase
    <2> QED
      BY <1>1, <1>2, <2>1, <2>2 DEF Service!DetachAndCommit
  <1>4. CASE ~(Admits /\ ~Admits')
    <2>1. ServicePhase' = ServicePhase
      BY <1>2, <1>4 DEF ServicePhase, Admits
    <2> QED
      BY <1>1, <1>2, <2>1 DEF Service!Detach
  <1> QED
    BY <1>3, <1>4

\* The watchdog commits a worker that nobody holds; whoever else stops the
\* server was told to or completes a commitment.
LEMMA QuietServes ==
  ASSUME TypeInv, StopsAreOwed, StopsAreOwed', QuietStep
  PROVE  [Service!Next]_(Service!vars)
  <1> USE DEF drainVars, hostVars
  <1>1. UNCHANGED <<leases, shutdownRequested>> /\ Installed' = Installed
    BY QuietStepFrame DEF Installed
  <1>2. CASE Signal
    <2>1. stopSignal' = TRUE /\ ServicePhase' = ServicePhase
      BY <1>1, <1>2 DEF Signal, ServicePhase, Admits
    <2> QED
      BY <1>1, <2>1 DEF Service!Tell, Service!Next
  <1>3. CASE WatchdogSweep
    <2>1. UNCHANGED <<host, stopSignal>>
      BY <1>3 DEF WatchdogSweep
    <2>2. CASE ShutdownDue
      <3>1. Service!MayCommit
        BY <1>3, <2>2 DEF WatchdogSweep, StopsAreOwed, ShutdownDue,
          Service!MayCommit
      <3>2. ~Admits'
        BY <1>3, <2>2 DEF WatchdogSweep, Admits
      <3> QED
        BY <1>1, <2>1, <3>1, <3>2, AdmissionEnds
    <2>3. CASE ~ShutdownDue
      <3>1. Admits' = Admits
        BY <1>1, <1>3, <2>3 DEF WatchdogSweep, Admits
      <3> QED
        BY <1>1, <2>1, <3>1, ServiceStutters
    <2> QED
      BY <2>2, <2>3
  <1>4. CASE HostStopsLeases
    <2>1. stopSignal' = stopSignal /\ host = "draining" /\ host' = "closing"
          /\ ~Admits'
      BY <1>4 DEF HostStopsLeases, HostMoves, Admits
    <2>2. Admits => Service!MayCommit
      BY <2>1 DEF StopsAreOwed, Admits, Service!MayCommit
    <2> QED
      BY <1>1, <2>1, <2>2, AdmissionEnds
  <1>5. CASE HostCloses
    <2>1. /\ host = "closing" /\ host' = "closed" /\ draining
          /\ stopSignal' = stopSignal
      BY <1>5 DEF HostCloses, HostMoves, StopsAreOwed
    <2>2. ServicePhase = "committed" /\ ServicePhase' = "closed"
      BY <2>1 DEF ServicePhase, Admits
    <2> QED
      BY <1>1, <2>1, <2>2 DEF Service!Close, Service!Next
  <1>6. CASE HostStartFails
    <2>1. /\ host = "binding" /\ host' = "released" /\ Installed = {}
          /\ stopSignal' = stopSignal
      BY <1>6 DEF HostStartFails, HostMoves, StopsAreOwed
    <2>2. ServicePhase \in {"serving", "committed"} /\ ServicePhase' = "closed"
      BY <2>1 DEF ServicePhase
    <2> QED
      BY <1>1, <2>1, <2>2 DEF Service!Close, Service!Abort, Service!Next
  <1>7. CASE WatchdogStep /\ ~WatchdogSweep
    <2>1. draining' = draining /\ UNCHANGED <<host, stopSignal>>
      BY <1>7 DEF WatchdogStep, WatchdogSeesDraining, WatchdogSeesStop,
        WatchdogStopsStreams, WatchdogStopsLeases, WatchdogNotifies,
        WatchdogMoves, StopsAreOwed
    <2> QED
      BY <1>1, <2>1, ServiceStutters DEF Admits
  <1>8. CASE \/ HostPublishes \/ HostSetsEntry \/ HostArms \/ HostStartsAnalysis
             \/ HostServes \/ HostLeavesServe \/ HostStopsStreams \/ HostReleases
    <2>1. /\ draining' = draining /\ stopSignal' = stopSignal
          /\ host' \in {"closed", "released"} <=> host \in {"closed", "released"}
      BY <1>8 DEF HostPublishes, HostSetsEntry, HostArms, HostStartsAnalysis, HostServes,
        HostLeavesServe, HostStopsStreams, HostReleases, HostMoves
    <2> QED
      BY <1>1, <2>1, ServiceStutters DEF Admits
  <1>9. CASE Tick \/ AnalysisStep \/ UNCHANGED vars
    BY <1>1, <1>9, AnalysisFrame, ServiceStutters DEF Tick, vars, Admits
  <1> QED
    BY <1>2, <1>3, <1>4, <1>5, <1>6, <1>7, <1>8, <1>9
      DEF QuietStep, WatchdogStep, HostProgress

\* Each step of the server is a step of the service or none.
LEMMA ServiceStep ==
  ASSUME TypeInv, StopsAreOwed, StopsAreOwed', [Next]_vars
  PROVE  [Service!Next]_(Service!vars)
  <1>1. ASSUME NEW h \in Handlers, LeaseKeepingStep(h)
        PROVE  [Service!Next]_(Service!vars)
    BY <1>1, LeaseKeepingFrame, ServiceStutters DEF Installed, Admits
  <1>2. ASSUME NEW h \in Handlers, NEW save \in BOOLEAN,
               RequestShutdown(h, save)
        PROVE  [Service!Next]_(Service!vars)
    <2>1. /\ UNCHANGED <<leases, host, stopSignal>> /\ ~Admits'
          /\ Managed /\ Installed = {target[h]} /\ target[h] \in Leases
      BY <1>2 DEF RequestShutdown, ExclusiveOwner, Admits, tableVars,
        hostVars, TypeInv, TypeOK
    <2>2. Service!MayCommit
      BY <2>1 DEF Service!MayCommit
    <2>3. Installed' = Installed
      BY <2>1 DEF Installed
    <2> QED
      BY <2>1, <2>2, <2>3, AdmissionEnds
  <1>3. ASSUME NEW h \in Handlers, BeginRequestedShutdown(h)
        PROVE  [Service!Next]_(Service!vars)
    <2>1. /\ UNCHANGED <<leases, host, stopSignal, shutdownRequested>>
          /\ shutdownRequested
      BY <1>3 DEF BeginRequestedShutdown, StopsAreOwed, tableVars, hostVars
    <2> QED
      BY <2>1, ServiceStutters DEF Installed, Admits
  <1> QED
    BY <1>1, <1>2, <1>3, StepCases, OpenAttaches, DetachDetaches, QuietServes
      DEF Service!Next

\* Clients are cut off only by a signal or by their own exclusive shutdown:
\* whatever the threads of the server do, it implements the safety of
\* WorkerService.
THEOREM KeepsService == Spec => ImplementsService
  <1>1. Init => StopsAreOwed /\ Service!Init
    <2> SUFFICES ASSUME Init PROVE StopsAreOwed /\ Service!Init
      OBVIOUS
    <2>1. Installed = {} /\ Admits /\ host = "binding"
      BY DEF Init, Installed, Admits
    <2> QED
      BY <2>1 DEF Init, StopsAreOwed, ServicePhase, Service!Init
  <1>2. Spec => []TypeInv
    BY TypeInit, TypeStep, PTL DEF Spec
  <1> QED
    BY <1>1, <1>2, StopsStep, ServiceStep, PTL
      DEF Spec, ImplementsService, Service!Spec
=============================================================================
