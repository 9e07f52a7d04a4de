------------------------ MODULE NexusOperations_proofs ------------------------
(***************************************************************************)
(* Safety of NexusOperations for any number of requests, cancel requests,  *)
(* leases and slices of the analysis: the tables of the server are exact,  *)
(* an operation cancelled in the queue never runs, an interruption hits the*)
(* operation it was meant for, and the analysis yields to the queue.       *)
(*                                                                         *)
(* The argument follows an interruption from the server into the runtime:  *)
(* whoever is active in the runtime is the job that entered last           *)
(* (RuntimeExclusive), a request's job is in the runtime only while the    *)
(* running fields name it (JobsFollow, RunningFieldsExact), and they cannot*)
(* change while a canceller holds _activity (CancelHeld).                  *)
(***************************************************************************)
EXTENDS NexusOperations, FiniteSetTheorems, TLAPS

\* The foreground waiters are the requests that count themselves as such.
Queueing == {r \in Requests : pc[r] \in {"waiting", "acquired", "quitting"}}
WaitersExact == waiters = Cardinality(Queueing)

\* The backend lock has the request that is past its acquire.
BackendOwned ==
  \A r \in Requests :
    pc[r] \in {"acquired", "admitted", "running", "cleared"} <=> backendLock = r

\* OperationTableExact, element by element.
Arrived(r) == pc[r] \notin {"idle", "done"}
TableKept ==
  /\ \A k \in pending : k.operation # NoOperation /\ \E r \in Requests : Arrived(r) /\ key[r] = k
  /\ \A r \in Requests : Arrived(r) /\ key[r].operation # NoOperation => key[r] \in pending
  /\ cancelled \subseteq pending
  /\ \A q, r \in Requests : Arrived(q) /\ Arrived(r) /\ q # r /\ key[q] = key[r] =>
       key[q].operation = NoOperation

InRuntime == {"entered", "invoked", "returned"}

\* One job at a time is in the runtime, and it is the active generation.
RuntimeExclusive ==
  /\ kindSet => generation \in Jobs /\ job[generation] \in InRuntime
  /\ \A j \in Jobs : job[j] \in InRuntime => generation = j /\ kindSet

\* A request's job runs between its admission and its clearing; the job of a
\* lease's cleanup comes last; a job has no outcome before it has returned.
JobsFollow ==
  /\ \A r \in Requests :
       /\ job[r] \in {"queued", "entered", "invoked", "returned"} => pc[r] = "running"
       /\ pc[r] \in {"idle", "waiting", "acquired", "quitting", "admitted"} => job[r] = "out"
  /\ \A l \in Leases : cleanup[l] \notin {"releasing", "done"} => job[l] = "out"
  /\ \A j \in Jobs : job[j] \in {"out", "queued", "entered", "invoked"} => outcome[j] = "none"

\* The running operation is the one a canceller found, until it is done.
CancelHeld ==
  \A c \in Cancellers : canceller[c] \in {"reading", "interrupting"} =>
    activity = c /\ running = cancelKey[c]

\* What has been hit has arrived, and so has the cause: their keys stay.
HitsKept ==
  \A h \in hits : /\ h[2] \in Requests => pc[h[2]] # "idle"
                  /\ h[1] \in Cancellers => canceller[h[1]] # "idle"

\* An operation whose cancellation was acknowledged in the queue stays marked
\* until it leaves, and has not been handed to the runtime.
AckKept ==
  \A r \in ackQueued :
    /\ job[r] = "out"
    /\ pc[r] \in {"waiting", "acquired", "quitting", "admitted", "leaving", "done"}
    /\ pc[r] \in {"waiting", "acquired", "quitting", "admitted"} => key[r] \in cancelled

OperationsInv ==
  /\ TypeOK /\ WaitersExact /\ BackendOwned /\ RunningFieldsExact
  /\ TableKept /\ RuntimeExclusive /\ JobsFollow /\ CancelHeld
  /\ HitsKept /\ AckKept /\ InterruptsItsOwn

-----------------------------------------------------------------------------
(* Types *)

LEMMA InitInv == Init => OperationsInv
  <1> SUFFICES ASSUME Init PROVE OperationsInv
    OBVIOUS
  <1> USE DEF Init
  <1>1. NoKey \in Key
    BY DEF NoKey, Key
  <1>2. TypeOK
    BY <1>1 DEF TypeOK
  <1>3. WaitersExact
    <2>1. Queueing = {}
      BY DEF Queueing
    <2> QED
      BY <2>1, FS_EmptySet DEF WaitersExact
  <1>4. BackendOwned
    BY OperationsAssumption DEF BackendOwned, Jobs
  <1>5. RunningFieldsExact
    BY DEF RunningFieldsExact
  <1>6. TableKept
    BY DEF TableKept, Arrived
  <1>7. RuntimeExclusive /\ JobsFollow
    BY DEF RuntimeExclusive, JobsFollow, InRuntime, Jobs
  <1>8. CancelHeld /\ HitsKept /\ AckKept
    BY DEF CancelHeld, HitsKept, AckKept
  <1>9. InterruptsItsOwn
    BY DEF InterruptsItsOwn, CancelSparesSuccessors, DeadlineHitsOwnOperation, NativeFlagIsOwn
  <1> QED
    BY <1>2, <1>3, <1>4, <1>5, <1>6, <1>7, <1>8, <1>9 DEF OperationsInv

\* Whatever _interrupt_active does, it does to the active generation, a job.
LEMMA InterruptTypes ==
  ASSUME TypeOK, RuntimeExclusive, NEW g, NEW cause \in Callers \cup Requests,
         InterruptActive(g, cause)
  PROVE  /\ interrupt' \in BOOLEAN /\ nativeFlag' \in BOOLEAN
         /\ deferred' \in SUBSET Jobs
         /\ hits' \in SUBSET ((Callers \union Requests) \X Jobs)
  <1>1. CASE StillActive(g)
    <2>1. generation \in Jobs /\ g = generation
      BY <1>1 DEF StillActive, RuntimeExclusive
    <2>2. interrupt' = TRUE /\ nativeFlag' = (nativeFlag \/ ~Gui)
      BY <1>1 DEF InterruptActive
    <2>3. deferred' \in SUBSET Jobs
      BY <1>1, <2>1 DEF InterruptActive, TypeOK
    <2>4. hits' = hits \cup {<<cause, generation>>}
      BY <1>1 DEF InterruptActive
    <2>5. nativeFlag' \in BOOLEAN
      BY <2>2
    <2> QED
      BY <2>1, <2>2, <2>3, <2>4, <2>5 DEF TypeOK
  <1>2. CASE ~StillActive(g)
    BY <1>2 DEF InterruptActive, TypeOK
  <1> QED
    BY <1>1, <1>2

LEMMA TypeStep ==
  ASSUME TypeOK, RuntimeExclusive, waiters' \in Nat, [Next]_vars
  PROVE  TypeOK'
  <1> USE DEF serverVars, runtimeVars, historyVars
  <1>1. ASSUME NEW r \in Requests, NEW k \in Key, RequestArrives(r, k) PROVE TypeOK'
    BY <1>1 DEF RequestArrives, TypeOK
  <1>2. ASSUME NEW r \in Requests, RequestAcquires(r) PROVE TypeOK'
    BY <1>2 DEF RequestAcquires, TypeOK
  <1>3. ASSUME NEW r \in Requests, RequestGivesUp(r) PROVE TypeOK'
    BY <1>3 DEF RequestGivesUp, TypeOK
  <1>4. ASSUME NEW r \in Requests, RequestStopsWaiting(r) PROVE TypeOK'
    BY <1>4 DEF RequestStopsWaiting, TypeOK
  <1>5. ASSUME NEW r \in Requests, RequestRuns(r) PROVE TypeOK'
    <2>1. /\ running' \in Key /\ backendLock' \in Requests \cup Slices \cup {Nobody}
          /\ job' \in [Jobs -> {"out", "queued", "entered", "invoked", "returned", "finished"}]
          /\ pc' \in [Requests -> {"idle", "waiting", "acquired", "quitting",
                                   "admitted", "running", "cleared", "leaving", "done"}]
      BY <1>5 DEF RequestRuns, RefusedReleases, TypeOK
    <2> QED
      BY <1>5, <2>1 DEF RequestRuns, TypeOK
  <1>6. ASSUME NEW r \in Requests, RequestClears(r) PROVE TypeOK'
    BY <1>6 DEF RequestClears, NoKey, Key, RunningCleared, RefusedReleases, TypeOK
  <1>7. ASSUME NEW r \in Requests, RequestReleases(r) PROVE TypeOK'
    BY <1>7 DEF RequestReleases, TypeOK
  <1>8. ASSUME NEW r \in Requests, RequestLeaves(r) PROVE TypeOK'
    BY <1>8 DEF RequestLeaves, FlagDiscarded, TypeOK
  <1>9. ASSUME NEW r \in Requests, TimerPops(r) PROVE TypeOK'
    BY <1>9 DEF TimerPops, TypeOK
  <1>10. ASSUME NEW r \in Requests, TimerFires(r) PROVE TypeOK'
    <2>1. /\ interrupt' \in BOOLEAN /\ nativeFlag' \in BOOLEAN
          /\ deferred' \in SUBSET Jobs
          /\ hits' \in SUBSET ((Callers \union Requests) \X Jobs)
      BY <1>10, InterruptTypes DEF TimerFires
    <2> QED
      BY <1>10, <2>1 DEF TimerFires, TypeOK
  <1>11. ASSUME NEW j \in Jobs, JobEnters(j) PROVE TypeOK'
    <2>1. /\ job' = [job EXCEPT ![j] = "entered"] /\ generation' = j
          /\ kindSet' = TRUE /\ threadSet' = FALSE /\ interrupt' = FALSE
          /\ UNCHANGED <<serverVars, snapshot, timer, nativeFlag, deferred, historyVars>>
      BY <1>11 DEF JobEnters
    <2> QED
      BY <2>1, ZenonT(60) DEF TypeOK
  <1>12. ASSUME NEW j \in Jobs, JobInvokes(j) PROVE TypeOK'
    <2>1. /\ job' \in [Jobs -> {"out", "queued", "entered", "invoked", "returned", "finished"}]
          /\ outcome' \in [Jobs -> {"none", "interrupted", "completed"}]
      BY <1>12 DEF JobInvokes, TypeOK
    <2>2. timer' \in [Requests -> {"none", "armed", "firing"}]
      BY <1>12 DEF JobInvokes, TypeOK
    <2>3. /\ nativeFlag' = FALSE /\ threadSet' \in BOOLEAN
          /\ UNCHANGED <<serverVars, generation, kindSet, interrupt, snapshot, deferred, hits, ackQueued>>
      BY <1>12 DEF JobInvokes, TypeOK
    <2> QED
      BY <2>1, <2>2, <2>3, ZenonT(60) DEF TypeOK
  <1>13. ASSUME NEW j \in Jobs, JobReturns(j) PROVE TypeOK'
    <2>1. /\ outcome' \in [Jobs -> {"none", "interrupted", "completed"}]
          /\ job' \in [Jobs -> {"out", "queued", "entered", "invoked", "returned", "finished"}]
          /\ timer' \in [Requests -> {"none", "armed", "firing"}]
      BY <1>13 DEF JobReturns, TypeOK
    <2> QED
      BY <1>13, <2>1 DEF JobReturns, TypeOK
  <1>14. ASSUME NEW j \in Jobs, JobLeaves(j) PROVE TypeOK'
    BY <1>14 DEF JobLeaves, TypeOK
  <1>15. ASSUME NEW c \in Cancellers, NEW k \in Key, CancelArrives(c, k) PROVE TypeOK'
    BY <1>15 DEF CancelArrives, HoldActivity, TypeOK
  <1>16. ASSUME NEW c \in Cancellers, CancelReads(c) PROVE TypeOK'
    BY <1>16 DEF CancelReads, Callers, TypeOK
  <1>17. ASSUME NEW c \in Cancellers, CancelInterrupts(c) PROVE TypeOK'
    <2>1. /\ interrupt' \in BOOLEAN /\ nativeFlag' \in BOOLEAN
          /\ deferred' \in SUBSET Jobs
          /\ hits' \in SUBSET ((Callers \union Requests) \X Jobs)
      BY <1>17, InterruptTypes DEF CancelInterrupts, Callers
    <2> QED
      BY <1>17, <2>1 DEF CancelInterrupts, TypeOK
  <1>18. ASSUME NEW l \in Leases, LeaseDetaches(l) PROVE TypeOK'
    BY <1>18 DEF LeaseDetaches, TypeOK
  <1>19. ASSUME NEW l \in Leases, CleanupChecks(l) PROVE TypeOK'
    BY <1>19 DEF CleanupChecks, TypeOK
  <1>20. ASSUME NEW l \in Leases, CleanupReads(l) PROVE TypeOK'
    BY <1>20 DEF CleanupReads, Callers, TypeOK
  <1>21. ASSUME NEW l \in Leases, CleanupInterrupts(l) PROVE TypeOK'
    <2>1. /\ interrupt' \in BOOLEAN /\ nativeFlag' \in BOOLEAN
          /\ deferred' \in SUBSET Jobs
          /\ hits' \in SUBSET ((Callers \union Requests) \X Jobs)
      BY <1>21, InterruptTypes DEF CleanupInterrupts, Callers
    <2> QED
      BY <1>21, <2>1 DEF CleanupInterrupts, TypeOK
  <1>22. ASSUME NEW l \in Leases, CleanupReleasesSession(l) PROVE TypeOK'
    BY <1>22 DEF CleanupReleasesSession, Jobs, TypeOK
  <1>23. ASSUME NEW l \in Leases, CleanupEnds(l) PROVE TypeOK'
    BY <1>23 DEF CleanupEnds, TypeOK
  <1>24. ASSUME NEW g \in deferred, NativeCancel(g) PROVE TypeOK'
    BY <1>24 DEF NativeCancel, NativeApplies, TypeOK
  <1>25. ASSUME NEW s \in Slices, AnalysisAcquires(s) PROVE TypeOK'
    BY <1>25 DEF AnalysisAcquires, Jobs, TypeOK
  <1>26. ASSUME NEW s \in Slices, AnalysisReleases(s) PROVE TypeOK'
    BY <1>26 DEF AnalysisReleases, TypeOK
  <1>27. CASE UNCHANGED vars
    BY <1>27 DEF vars, TypeOK
  <1> QED
    BY <1>1, <1>2, <1>3, <1>4, <1>5, <1>6, <1>7, <1>8, <1>9, <1>10, <1>11, <1>12, <1>13, <1>14, <1>15, <1>16, <1>17, <1>18, <1>19, <1>20, <1>21, <1>22, <1>23, <1>24, <1>25, <1>26, <1>27
    DEF Next, RequestProgress, JobProgress, CancelProgress, CleanupProgress, AnalysisProgress

-----------------------------------------------------------------------------
(* The tables of the server *)

RequestMoves(r) == (\E k \in Key : RequestArrives(r, k)) \/ RequestProgress(r)

\* Who else is not a request leaves the requests' state alone.
LEMMA RequestsUntouched ==
  ASSUME [Next]_vars, \A r \in Requests : ~RequestMoves(r)
  PROVE  /\ UNCHANGED <<pc, key, pending, waiters, running>>
         /\ \/ backendLock' = backendLock
            \/ (backendLock = Nobody /\ backendLock' \in Slices)
            \/ (backendLock \in Slices /\ backendLock' = Nobody)
  <1> USE DEF serverVars, runtimeVars, historyVars
  <1>1. ASSUME NEW r \in Requests, TimerPops(r) \/ TimerFires(r)
        PROVE  UNCHANGED <<pc, key, pending, waiters, running, backendLock>>
    BY <1>1 DEF TimerPops, TimerFires
  <1>2. ASSUME NEW j \in Jobs, JobProgress(j)
        PROVE  UNCHANGED <<pc, key, pending, waiters, running, backendLock>>
    BY <1>2 DEF JobProgress, JobEnters, JobInvokes, JobReturns, JobLeaves
  <1>3. ASSUME NEW c \in Cancellers, (\E k \in Key : CancelArrives(c, k)) \/ CancelProgress(c)
        PROVE  UNCHANGED <<pc, key, pending, waiters, running, backendLock>>
    BY <1>3 DEF CancelArrives, CancelProgress, CancelReads, CancelInterrupts
  <1>4. ASSUME NEW l \in Leases, LeaseDetaches(l) \/ CleanupProgress(l)
        PROVE  UNCHANGED <<pc, key, pending, waiters, running, backendLock>>
    BY <1>4 DEF LeaseDetaches, CleanupProgress, CleanupChecks, CleanupReads, CleanupInterrupts,
       CleanupReleasesSession, CleanupEnds
  <1>5. ASSUME NEW g \in deferred, NativeCancel(g)
        PROVE  UNCHANGED <<pc, key, pending, waiters, running, backendLock>>
    BY <1>5 DEF NativeCancel
  <1>6. ASSUME NEW s \in Slices, AnalysisAcquires(s) \/ AnalysisReleases(s)
        PROVE  /\ UNCHANGED <<pc, key, pending, waiters, running>>
               /\ \/ (backendLock = Nobody /\ backendLock' \in Slices)
                  \/ (backendLock \in Slices /\ backendLock' = Nobody)
    BY <1>6 DEF AnalysisAcquires, AnalysisReleases, MayStartSlice
  <1>7. CASE UNCHANGED vars
    BY <1>7 DEF vars
  <1> QED
    BY <1>1, <1>2, <1>3, <1>4, <1>5, <1>6, <1>7 DEF Next, RequestMoves, AnalysisProgress

LEMMA QueueFinite == IsFiniteSet(Queueing) /\ IsFiniteSet(Queueing')
  <1>1. IsFiniteSet(Requests)
    BY OperationsAssumption
  <1>2. Queueing \subseteq Requests /\ Queueing' \subseteq Requests
    BY DEF Queueing
  <1> QED
    BY <1>1, <1>2, FS_Subset

\* The foreground intent is counted once per queued request.
LEMMA WaitersStep ==
  ASSUME TypeOK, WaitersExact, [Next]_vars
  PROVE  WaitersExact' /\ waiters' \in Nat
  <1>1. ASSUME NEW r \in Requests, NEW k \in Key, RequestArrives(r, k) PROVE WaitersExact'
    <2>1. pc[r] = "idle" /\ r \notin Queueing
      BY <1>1 DEF RequestArrives, Queueing
    <2>2. CASE Duplicate(k)
      <3>1. pc' = [pc EXCEPT ![r] = "done"] /\ waiters' = waiters
        BY <1>1, <2>2 DEF RequestArrives
      <3>2. Queueing' = Queueing
        BY <2>1, <3>1 DEF Queueing, TypeOK
      <3> QED
        BY <3>1, <3>2 DEF WaitersExact
    <2>3. CASE ~Duplicate(k)
      <3>1. pc' = [pc EXCEPT ![r] = "waiting"] /\ waiters' = waiters + 1
        BY <1>1, <2>3 DEF RequestArrives, IntentPublished
      <3>2. Queueing' = Queueing \cup {r}
        BY <2>1, <3>1 DEF Queueing, TypeOK
      <3> QED
        BY <2>1, <3>1, <3>2, QueueFinite, FS_AddElement DEF WaitersExact
    <2> QED
      BY <2>2, <2>3
  <1>2. ASSUME NEW r \in Requests, RequestStopsWaiting(r) PROVE WaitersExact'
    <2>1. /\ pc[r] \in {"acquired", "quitting"} /\ waiters' = waiters - 1
          /\ pc'[r] \in {"admitted", "leaving"}
          /\ \A q \in Requests : q # r => pc'[q] = pc[q]
      BY <1>2 DEF RequestStopsWaiting, IntentWithdrawn, TypeOK
    <2>2. r \in Queueing /\ Queueing' = Queueing \ {r}
      BY <2>1 DEF Queueing
    <2>3. Cardinality(Queueing) \in Nat /\ Cardinality(Queueing \ {r}) = Cardinality(Queueing) - 1
      BY <2>2, QueueFinite, FS_CardinalityType, FS_RemoveElement
    <2> QED
      BY <2>1, <2>2, <2>3 DEF WaitersExact
  <1>3. ASSUME NEW r \in Requests,
               \/ RequestAcquires(r) \/ RequestGivesUp(r) \/ RequestRuns(r)
               \/ RequestClears(r) \/ RequestReleases(r) \/ RequestLeaves(r)
        PROVE  WaitersExact'
    <2>1. /\ waiters' = waiters
          /\ (pc[r] \in {"waiting", "acquired", "quitting"}) <=>
               (pc'[r] \in {"waiting", "acquired", "quitting"})
          /\ \A q \in Requests : q # r => pc'[q] = pc[q]
      BY <1>3 DEF RequestAcquires, RequestGivesUp, RequestRuns, RequestClears, RequestReleases,
         RequestLeaves, TypeOK
    <2>2. Queueing' = Queueing
      BY <2>1 DEF Queueing
    <2> QED
      BY <2>1, <2>2 DEF WaitersExact
  <1>4. ASSUME \A r \in Requests : ~RequestMoves(r) PROVE WaitersExact'
    <2>1. pc' = pc /\ waiters' = waiters
      BY <1>4, RequestsUntouched
    <2>2. Queueing' = Queueing
      BY <2>1 DEF Queueing
    <2> QED
      BY <2>1, <2>2 DEF WaitersExact
  <1>5. WaitersExact'
    BY <1>1, <1>2, <1>3, <1>4 DEF RequestMoves, RequestProgress
  <1> QED
    BY <1>5, QueueFinite, FS_CardinalityType DEF WaitersExact

LEMMA BackendStep ==
  ASSUME TypeOK, BackendOwned, [Next]_vars
  PROVE  BackendOwned'
  <1>1. ASSUME NEW r \in Requests, NEW k \in Key, RequestArrives(r, k) PROVE BackendOwned'
    BY <1>1 DEF RequestArrives, BackendOwned, TypeOK
  <1>2. ASSUME NEW r \in Requests, RequestAcquires(r) PROVE BackendOwned'
    BY <1>2, OperationsAssumption DEF RequestAcquires, BackendOwned, TypeOK, Jobs
  <1>3. ASSUME NEW r \in Requests, RequestGivesUp(r) \/ RequestStopsWaiting(r) PROVE BackendOwned'
    BY <1>3 DEF RequestGivesUp, RequestStopsWaiting, BackendOwned, TypeOK
  <1>4. ASSUME NEW r \in Requests, RequestRuns(r) PROVE BackendOwned'
    BY <1>4, OperationsAssumption DEF RequestRuns, RefusedReleases, BackendOwned, TypeOK, Jobs
  <1>5. ASSUME NEW r \in Requests, RequestClears(r) \/ RequestLeaves(r) PROVE BackendOwned'
    BY <1>5 DEF RequestClears, RequestLeaves, BackendOwned, TypeOK
  <1>6. ASSUME NEW r \in Requests, RequestReleases(r) PROVE BackendOwned'
    BY <1>6, OperationsAssumption DEF RequestReleases, BackendOwned, TypeOK, Jobs
  <1>7. CASE \A r \in Requests : ~RequestMoves(r)
    BY <1>7, RequestsUntouched, OperationsAssumption DEF BackendOwned, Jobs
  <1> QED
    BY <1>1, <1>2, <1>3, <1>4, <1>5, <1>6, <1>7 DEF RequestMoves, RequestProgress

LEMMA RunningStep ==
  ASSUME TypeOK, BackendOwned, RunningFieldsExact, [Next]_vars
  PROVE  RunningFieldsExact'
  <1>0. BackendOwned'
    BY BackendStep
  <1>1. ASSUME NEW r \in Requests, NEW k \in Key, RequestArrives(r, k) PROVE RunningFieldsExact'
    BY <1>0, <1>1 DEF RequestArrives, RunningFieldsExact, BackendOwned, TypeOK
  <1>2. ASSUME NEW r \in Requests,
               \/ RequestAcquires(r) \/ RequestGivesUp(r) \/ RequestStopsWaiting(r)
               \/ RequestReleases(r) \/ RequestLeaves(r)
        PROVE  RunningFieldsExact'
    <2>1. /\ UNCHANGED <<key, running>>
          /\ pc[r] # "running" /\ pc'[r] # "running"
          /\ \A q \in Requests : q # r => pc'[q] = pc[q]
      BY <1>2 DEF RequestAcquires, RequestGivesUp, RequestStopsWaiting, RequestReleases, RequestLeaves, TypeOK
    <2> QED
      BY <1>0, <2>1 DEF RunningFieldsExact, BackendOwned
  <1>3. ASSUME NEW r \in Requests, RequestRuns(r) PROVE RunningFieldsExact'
    <2>1. /\ key' = key /\ pc[r] = "admitted"
          /\ \A q \in Requests : q # r => pc'[q] = pc[q]
          /\ \/ (pc'[r] = "running" /\ running' = key[r])
             \/ (pc'[r] = "leaving" /\ running' = running)
      BY <1>3 DEF RequestRuns, TypeOK
    <2>2. \A q \in Requests : pc[q] # "running"
      BY <2>1 DEF BackendOwned
    <2> QED
      BY <1>0, <2>1, <2>2 DEF RunningFieldsExact, BackendOwned
  <1>4. ASSUME NEW r \in Requests, RequestClears(r) PROVE RunningFieldsExact'
    <2>1. /\ key' = key /\ pc[r] = "running" /\ pc'[r] = "cleared"
          /\ \A q \in Requests : q # r => pc'[q] = pc[q]
          /\ running' = IF running = key[r] THEN NoKey ELSE running
      BY <1>4 DEF RequestClears, RunningCleared, TypeOK
    <2>2. running = key[r] /\ \A q \in Requests : q # r => pc[q] # "running"
      BY <2>1 DEF BackendOwned, RunningFieldsExact
    <2> QED
      BY <2>1, <2>2 DEF RunningFieldsExact
  <1>5. CASE \A r \in Requests : ~RequestMoves(r)
    BY <1>0, <1>5, RequestsUntouched DEF RunningFieldsExact, BackendOwned
  <1> QED
    BY <1>1, <1>2, <1>3, <1>4, <1>5 DEF RequestMoves, RequestProgress

\* The cancelled set grows by pending keys only, and shrinks with them.
LEMMA CancelledChanges ==
  ASSUME [Next]_vars, \A r \in Requests : ~RequestLeaves(r)
  PROVE  \/ cancelled' = cancelled
         \/ \E k \in pending : cancelled' = cancelled \cup {k}
  <1> USE DEF serverVars, runtimeVars, historyVars
  <1>1. ASSUME NEW r \in Requests, RequestMoves(r) \/ TimerPops(r) \/ TimerFires(r)
        PROVE  cancelled' = cancelled
    BY <1>1 DEF RequestMoves, RequestProgress, RequestArrives, RequestAcquires, RequestGivesUp,
       RequestStopsWaiting, RequestRuns, RequestClears, RequestReleases, TimerPops, TimerFires
  <1>2. ASSUME NEW j \in Jobs, JobProgress(j) PROVE cancelled' = cancelled
    BY <1>2 DEF JobProgress, JobEnters, JobInvokes, JobReturns, JobLeaves
  <1>3. ASSUME NEW c \in Cancellers, NEW k \in Key, CancelArrives(c, k)
        PROVE  k \in pending /\ cancelled' = cancelled \cup {k}
    BY <1>3 DEF CancelArrives
  <1>4. ASSUME NEW c \in Cancellers, CancelProgress(c) PROVE cancelled' = cancelled
    BY <1>4 DEF CancelProgress, CancelReads, CancelInterrupts
  <1>5. ASSUME NEW l \in Leases, LeaseDetaches(l) \/ CleanupProgress(l) PROVE cancelled' = cancelled
    BY <1>5 DEF LeaseDetaches, CleanupProgress, CleanupChecks, CleanupReads, CleanupInterrupts,
       CleanupReleasesSession, CleanupEnds
  <1>6. CASE (\E g \in deferred : NativeCancel(g)) \/ AnalysisProgress \/ UNCHANGED vars
    BY <1>6 DEF NativeCancel, AnalysisProgress, AnalysisAcquires, AnalysisReleases, vars
  <1> QED
    BY <1>1, <1>2, <1>3, <1>4, <1>5, <1>6 DEF Next, RequestMoves

LEMMA TableStep ==
  ASSUME TypeOK, TableKept, [Next]_vars
  PROVE  TableKept'
  <1>1. ASSUME NEW r \in Requests, NEW k \in Key, RequestArrives(r, k) PROVE TableKept'
    <2>1. /\ key' = [key EXCEPT ![r] = k] /\ cancelled' = cancelled
          /\ pc[r] = "idle" /\ \A q \in Requests : q # r => pc'[q] = pc[q]
      BY <1>1 DEF RequestArrives, TypeOK
    <2>2. ~Arrived(r) /\ \A q \in Requests : q # r => (Arrived(q)' <=> Arrived(q)) /\ key'[q] = key[q]
      BY <2>1 DEF Arrived, TypeOK
    <2>3. CASE Duplicate(k)
      <3>1. pending' = pending /\ ~Arrived(r)'
        BY <1>1, <2>3 DEF RequestArrives, Arrived, TypeOK
      <3> QED
        BY <2>1, <2>2, <3>1 DEF TableKept
    <2>4. CASE ~Duplicate(k)
      <3>1. /\ Arrived(r)' /\ key'[r] = k
            /\ pending' = IF k.operation = NoOperation THEN pending ELSE pending \cup {k}
        BY <1>1, <2>4 DEF RequestArrives, Arrived, TypeOK
      <3>2. k.operation # NoOperation => k \notin pending
        BY <2>4 DEF Duplicate
      <3> QED
        BY <2>1, <2>2, <3>1, <3>2 DEF TableKept
    <2> QED
      BY <2>3, <2>4
  <1>2. ASSUME NEW r \in Requests, RequestLeaves(r) PROVE TableKept'
    <2>1. /\ pending' = pending \ {key[r]} /\ cancelled' = cancelled \ {key[r]}
          /\ key' = key /\ pc[r] = "leaving" /\ pc'[r] = "done"
          /\ \A q \in Requests : q # r => pc'[q] = pc[q]
      BY <1>2 DEF RequestLeaves, FlagDiscarded, TypeOK
    <2>2. /\ Arrived(r) /\ ~Arrived(r)'
          /\ \A q \in Requests : q # r => (Arrived(q)' <=> Arrived(q))
      BY <2>1 DEF Arrived
    <2> QED
      BY <2>1, <2>2 DEF TableKept
  <1>3. ASSUME UNCHANGED <<key, pending>>,
               \A q \in Requests : Arrived(q)' <=> Arrived(q),
               \A q \in Requests : ~RequestLeaves(q)
        PROVE  TableKept'
    BY <1>3, CancelledChanges DEF TableKept
  <1>4. ASSUME NEW r \in Requests,
               \/ RequestAcquires(r) \/ RequestGivesUp(r) \/ RequestStopsWaiting(r)
               \/ RequestRuns(r) \/ RequestClears(r) \/ RequestReleases(r),
               \A q \in Requests : ~RequestLeaves(q)
        PROVE  TableKept'
    <2>1. /\ UNCHANGED <<key, pending>>
          /\ pc[r] \notin {"idle", "done"} /\ pc'[r] \notin {"idle", "done"}
          /\ \A q \in Requests : q # r => pc'[q] = pc[q]
      BY <1>4 DEF RequestAcquires, RequestGivesUp, RequestStopsWaiting, RequestRuns, RequestClears,
         RequestReleases, TypeOK
    <2>2. \A q \in Requests : Arrived(q)' <=> Arrived(q)
      BY <2>1 DEF Arrived
    <2> QED
      BY <1>3, <1>4, <2>1, <2>2
  <1>5. CASE \A r \in Requests : ~RequestMoves(r)
    <2>1. UNCHANGED <<pc, key, pending>>
      BY <1>5, RequestsUntouched
    <2>2. \A q \in Requests : ~RequestLeaves(q) /\ (Arrived(q)' <=> Arrived(q))
      BY <1>5, <2>1 DEF RequestMoves, RequestProgress, Arrived
    <2> QED
      BY <1>3, <2>1, <2>2
  <1> QED
    BY <1>1, <1>2, <1>4, <1>5 DEF RequestMoves, RequestProgress

-----------------------------------------------------------------------------
(* The runtime *)

\* The steps that move a job.
JobMoves ==
  \/ \E r \in Requests : RequestRuns(r)
  \/ \E j \in Jobs : JobProgress(j)
  \/ \E l \in Leases : CleanupReleasesSession(l)
  \/ \E s \in Slices : AnalysisAcquires(s)

LEMMA JobsUntouched ==
  ASSUME [Next]_vars, ~JobMoves
  PROVE  UNCHANGED <<job, generation, kindSet, threadSet, outcome>>
  <1> USE DEF serverVars, runtimeVars, historyVars
  <1>1. ASSUME NEW r \in Requests, (\E k \in Key : RequestArrives(r, k)) \/ RequestProgress(r)
        PROVE  UNCHANGED <<job, generation, kindSet, threadSet, outcome>>
    BY <1>1 DEF JobMoves, RequestProgress, RequestArrives, RequestAcquires, RequestGivesUp,
       RequestStopsWaiting, RequestClears, RequestReleases, RequestLeaves
  <1>2. ASSUME NEW r \in Requests, TimerPops(r) \/ TimerFires(r)
        PROVE  UNCHANGED <<job, generation, kindSet, threadSet, outcome>>
    BY <1>2 DEF TimerPops, TimerFires
  <1>3. ASSUME NEW c \in Cancellers, (\E k \in Key : CancelArrives(c, k)) \/ CancelProgress(c)
        PROVE  UNCHANGED <<job, generation, kindSet, threadSet, outcome>>
    BY <1>3 DEF CancelArrives, CancelProgress, CancelReads, CancelInterrupts
  <1>4. ASSUME NEW l \in Leases, LeaseDetaches(l) \/ CleanupProgress(l)
        PROVE  UNCHANGED <<job, generation, kindSet, threadSet, outcome>>
    BY <1>4 DEF JobMoves, LeaseDetaches, CleanupProgress, CleanupChecks, CleanupReads,
       CleanupInterrupts, CleanupEnds
  <1>5. CASE (\E g \in deferred : NativeCancel(g)) \/ UNCHANGED vars
    BY <1>5 DEF NativeCancel, vars
  <1>6. CASE AnalysisProgress
    BY <1>6 DEF JobMoves, AnalysisProgress, AnalysisReleases
  <1> QED
    BY <1>1, <1>2, <1>3, <1>4, <1>5, <1>6 DEF Next, JobMoves

\* A job that was out of the runtime is queued: the runtime does not change.
LEMMA QueuesKeepRuntime ==
  ASSUME TypeOK, RuntimeExclusive, NEW j \in Jobs, job[j] = "out",
         job' = [job EXCEPT ![j] = "queued"], UNCHANGED <<generation, kindSet>>
  PROVE  RuntimeExclusive'
  BY DEF RuntimeExclusive, InRuntime, TypeOK

LEMMA RuntimeStep ==
  ASSUME TypeOK, RuntimeExclusive, JobsFollow, [Next]_vars
  PROVE  RuntimeExclusive'
  <1>1. ASSUME NEW r \in Requests, RequestRuns(r) PROVE RuntimeExclusive'
    <2>1. r \in Jobs /\ job[r] = "out" /\ UNCHANGED <<generation, kindSet>>
      BY <1>1 DEF RequestRuns, JobsFollow, Jobs
    <2>2. job' = [job EXCEPT ![r] = "queued"] \/ job' = job
      BY <1>1 DEF RequestRuns
    <2> QED
      BY <2>1, <2>2, QueuesKeepRuntime DEF RuntimeExclusive
  <1>2. ASSUME NEW j \in Jobs, JobEnters(j) PROVE RuntimeExclusive'
    BY <1>2 DEF JobEnters, OperationLockFree, RuntimeExclusive, InRuntime, TypeOK
  <1>3. ASSUME NEW j \in Jobs, JobInvokes(j) \/ JobReturns(j) PROVE RuntimeExclusive'
    <2>1. /\ UNCHANGED <<generation, kindSet>>
          /\ job[j] \in InRuntime /\ job'[j] \in InRuntime
          /\ \A i \in Jobs : i # j => job'[i] = job[i]
      BY <1>3 DEF JobInvokes, JobReturns, InRuntime, TypeOK
    <2> QED
      BY <2>1 DEF RuntimeExclusive
  <1>4. ASSUME NEW j \in Jobs, JobLeaves(j) PROVE RuntimeExclusive'
    BY <1>4 DEF JobLeaves, RuntimeExclusive, InRuntime, TypeOK
  <1>5. ASSUME NEW l \in Leases, CleanupReleasesSession(l) PROVE RuntimeExclusive'
    <2>1. l \in Jobs /\ job[l] = "out" /\ UNCHANGED <<generation, kindSet>>
      BY <1>5 DEF CleanupReleasesSession, JobsFollow, Jobs
    <2> QED
      BY <1>5, <2>1, QueuesKeepRuntime DEF CleanupReleasesSession
  <1>6. ASSUME NEW s \in Slices, AnalysisAcquires(s) PROVE RuntimeExclusive'
    <2>1. s \in Jobs /\ job[s] = "out" /\ UNCHANGED <<generation, kindSet>>
      BY <1>6 DEF AnalysisAcquires, Jobs
    <2> QED
      BY <1>6, <2>1, QueuesKeepRuntime DEF AnalysisAcquires
  <1>7. CASE ~JobMoves
    BY <1>7, JobsUntouched DEF RuntimeExclusive
  <1> QED
    BY <1>1, <1>2, <1>3, <1>4, <1>5, <1>6, <1>7 DEF JobMoves, JobProgress

\* A job has no outcome before it has returned.
NoEarlyOutcome ==
  \A j \in Jobs : job[j] \in {"out", "queued", "entered", "invoked"} => outcome[j] = "none"

LEMMA OutcomeStep ==
  ASSUME TypeOK, JobsFollow, [Next]_vars
  PROVE  NoEarlyOutcome'
  <1>0. NoEarlyOutcome
    BY DEF JobsFollow, NoEarlyOutcome
  <1>1. ASSUME NEW j \in Jobs, job[j] = "out", outcome' = outcome,
               \A i \in Jobs : i # j => job'[i] = job[i]
        PROVE  NoEarlyOutcome'
    BY <1>0, <1>1 DEF NoEarlyOutcome
  <1>2. ASSUME NEW r \in Requests, RequestRuns(r) PROVE NoEarlyOutcome'
    <2>1. /\ r \in Jobs /\ job[r] = "out" /\ outcome' = outcome
          /\ \A i \in Jobs : i # r => job'[i] = job[i]
      BY <1>2 DEF RequestRuns, JobsFollow, Jobs, TypeOK, historyVars
    <2> QED
      BY <1>1, <2>1
  <1>3. ASSUME NEW j \in Jobs, JobEnters(j) \/ JobLeaves(j) PROVE NoEarlyOutcome'
    BY <1>0, <1>3 DEF JobEnters, JobLeaves, NoEarlyOutcome, TypeOK, historyVars
  <1>4. ASSUME NEW j \in Jobs, JobInvokes(j) \/ JobReturns(j) PROVE NoEarlyOutcome'
    <2>1. /\ \A i \in Jobs : i # j => job'[i] = job[i] /\ outcome'[i] = outcome[i]
          /\ job'[j] = "returned" \/ (job[j] = "entered" /\ outcome'[j] = outcome[j])
      BY <1>4 DEF JobInvokes, JobReturns, TypeOK
    <2> QED
      BY <1>0, <2>1 DEF NoEarlyOutcome
  <1>5. ASSUME NEW l \in Leases, CleanupReleasesSession(l) PROVE NoEarlyOutcome'
    <2>1. /\ l \in Jobs /\ job[l] = "out" /\ outcome' = outcome
          /\ \A i \in Jobs : i # l => job'[i] = job[i]
      BY <1>5 DEF CleanupReleasesSession, JobsFollow, Jobs, TypeOK, historyVars
    <2> QED
      BY <1>1, <2>1
  <1>6. ASSUME NEW s \in Slices, AnalysisAcquires(s) PROVE NoEarlyOutcome'
    <2>1. /\ s \in Jobs /\ job[s] = "out" /\ outcome' = outcome
          /\ \A i \in Jobs : i # s => job'[i] = job[i]
      BY <1>6 DEF AnalysisAcquires, Jobs, TypeOK, historyVars
    <2> QED
      BY <1>1, <2>1
  <1>7. CASE ~JobMoves
    BY <1>0, <1>7, JobsUntouched DEF NoEarlyOutcome
  <1> QED
    BY <1>2, <1>3, <1>4, <1>5, <1>6, <1>7 DEF JobMoves, JobProgress

\* The job of a cleanup is out until the cleanup releases the session.
CleanupsJob == \A l \in Leases : cleanup[l] \notin {"releasing", "done"} => job[l] = "out"

LEMMA CleanupJobStep ==
  ASSUME TypeOK, JobsFollow, [Next]_vars
  PROVE  CleanupsJob'
  <1> USE DEF serverVars, runtimeVars, historyVars
  <1>0. CleanupsJob
    BY DEF JobsFollow, CleanupsJob
  <1>1. ASSUME UNCHANGED <<cleanup, job>> PROVE CleanupsJob'
    BY <1>0, <1>1 DEF CleanupsJob
  <1>2. ASSUME NEW r \in Requests,
               \/ \E k \in Key : RequestArrives(r, k)
               \/ RequestProgress(r) \/ TimerPops(r) \/ TimerFires(r)
        PROVE  CleanupsJob'
    <2>1. /\ cleanup' = cleanup
          /\ job' = job \/ job' = [job EXCEPT ![r] = "queued"]
      BY <1>2 DEF RequestProgress, RequestArrives, RequestAcquires, RequestGivesUp, RequestStopsWaiting,
         RequestRuns, RequestClears, RequestReleases, RequestLeaves, TimerPops, TimerFires
    <2>2. r \notin Leases
      BY OperationsAssumption
    <2>3. \A l \in Leases : job'[l] = job[l]
      BY <2>1, <2>2 DEF TypeOK, Jobs
    <2> QED
      BY <1>0, <2>1, <2>3 DEF CleanupsJob
  <1>3. ASSUME NEW j \in Jobs, JobProgress(j) PROVE CleanupsJob'
    <2>1. /\ cleanup' = cleanup /\ job[j] # "out"
          /\ \A i \in Jobs : i # j => job'[i] = job[i]
      BY <1>3 DEF JobProgress, JobEnters, JobInvokes, JobReturns, JobLeaves, TypeOK
    <2> QED
      BY <1>0, <2>1 DEF CleanupsJob, Jobs
  <1>4. ASSUME NEW c \in Cancellers, (\E k \in Key : CancelArrives(c, k)) \/ CancelProgress(c)
        PROVE  CleanupsJob'
    BY <1>1, <1>4 DEF CancelArrives, CancelProgress, CancelReads, CancelInterrupts
  <1>5. ASSUME NEW l \in Leases,
               \/ LeaseDetaches(l) \/ CleanupChecks(l) \/ CleanupReads(l) \/ CleanupInterrupts(l)
        PROVE  CleanupsJob'
    <2>1. /\ job' = job /\ cleanup[l] \notin {"releasing", "done"}
          /\ \A m \in Leases : m # l => cleanup'[m] = cleanup[m]
      BY <1>5 DEF LeaseDetaches, CleanupChecks, CleanupReads, CleanupInterrupts, TypeOK
    <2> QED
      BY <1>0, <2>1 DEF CleanupsJob
  <1>6. ASSUME NEW l \in Leases, CleanupReleasesSession(l) \/ CleanupEnds(l) PROVE CleanupsJob'
    <2>1. /\ cleanup'[l] \in {"releasing", "done"}
          /\ \A m \in Leases : m # l => cleanup'[m] = cleanup[m] /\ job'[m] = job[m]
      BY <1>6 DEF CleanupReleasesSession, CleanupEnds, TypeOK, Jobs
    <2> QED
      BY <1>0, <2>1 DEF CleanupsJob
  <1>7. CASE (\E g \in deferred : NativeCancel(g)) \/ UNCHANGED vars
    BY <1>1, <1>7 DEF NativeCancel, vars
  <1>8. ASSUME NEW s \in Slices, AnalysisAcquires(s) \/ AnalysisReleases(s) PROVE CleanupsJob'
    <2>1. cleanup' = cleanup /\ \A l \in Leases : job'[l] = job[l]
      BY <1>8, OperationsAssumption DEF AnalysisAcquires, AnalysisReleases, TypeOK, Jobs
    <2> QED
      BY <1>0, <2>1 DEF CleanupsJob
  <1> QED
    BY <1>2, <1>3, <1>4, <1>5, <1>6, <1>7, <1>8 DEF Next, CleanupProgress, AnalysisProgress

\* A request's job is between its admission and its clearing.
RequestsJob ==
  \A r \in Requests :
    /\ job[r] \in {"queued", "entered", "invoked", "returned"} => pc[r] = "running"
    /\ pc[r] \in {"idle", "waiting", "acquired", "quitting", "admitted"} => job[r] = "out"

LEMMA RequestJobStep ==
  ASSUME TypeOK, JobsFollow, [Next]_vars
  PROVE  RequestsJob'
  <1>0. RequestsJob
    BY DEF JobsFollow, RequestsJob
  <1>1. ASSUME NEW r \in Requests, NEW k \in Key, RequestArrives(r, k) PROVE RequestsJob'
    BY <1>0, <1>1 DEF RequestArrives, RequestsJob, TypeOK, runtimeVars
  <1>2. ASSUME NEW r \in Requests,
               \/ RequestAcquires(r) \/ RequestGivesUp(r) \/ RequestStopsWaiting(r)
               \/ RequestReleases(r) \/ RequestLeaves(r)
        PROVE  RequestsJob'
    <2>1. /\ job' = job /\ pc[r] \notin {"idle", "running"}
          /\ \/ pc[r] \in {"waiting", "acquired", "quitting", "admitted"}
             \/ pc'[r] \in {"leaving", "done"}
          /\ \A q \in Requests : q # r => pc'[q] = pc[q]
      BY <1>2 DEF RequestAcquires, RequestGivesUp, RequestStopsWaiting, RequestReleases,
         RequestLeaves, TypeOK, runtimeVars
    <2> QED
      BY <1>0, <2>1 DEF RequestsJob
  <1>3. ASSUME NEW r \in Requests, RequestRuns(r) PROVE RequestsJob'
    <2>1. /\ pc[r] = "admitted"
          /\ \A q \in Requests : q # r => pc'[q] = pc[q] /\ job'[q] = job[q]
          /\ pc'[r] = "running" \/ (pc'[r] = "leaving" /\ job'[r] = job[r])
      BY <1>3 DEF RequestRuns, TypeOK, Jobs
    <2> QED
      BY <1>0, <2>1 DEF RequestsJob
  <1>4. ASSUME NEW r \in Requests, RequestClears(r) PROVE RequestsJob'
    BY <1>0, <1>4 DEF RequestClears, RequestsJob, TypeOK, runtimeVars
  <1>5. ASSUME NEW j \in Jobs, JobProgress(j) PROVE RequestsJob'
    <2>1. /\ pc' = pc /\ job[j] \in {"queued", "entered", "invoked", "returned"}
          /\ \A i \in Jobs : i # j => job'[i] = job[i]
      BY <1>5 DEF JobProgress, JobEnters, JobInvokes, JobReturns, JobLeaves, TypeOK, serverVars
    <2> QED
      BY <1>0, <2>1 DEF RequestsJob, Jobs
  <1>6. ASSUME \A r \in Requests : ~RequestMoves(r), \A r \in Requests : job'[r] = job[r]
        PROVE  RequestsJob'
    BY <1>0, <1>6, RequestsUntouched DEF RequestsJob
  <1>7. ASSUME NEW l \in Leases, CleanupReleasesSession(l), \A r \in Requests : ~RequestMoves(r)
        PROVE  RequestsJob'
    <2>1. \A r \in Requests : job'[r] = job[r]
      BY <1>7, OperationsAssumption DEF CleanupReleasesSession, TypeOK, Jobs
    <2> QED
      BY <1>6, <1>7, <2>1
  <1>8. ASSUME NEW s \in Slices, AnalysisAcquires(s), \A r \in Requests : ~RequestMoves(r)
        PROVE  RequestsJob'
    <2>1. \A r \in Requests : job'[r] = job[r]
      BY <1>8, OperationsAssumption DEF AnalysisAcquires, TypeOK, Jobs
    <2> QED
      BY <1>6, <1>8, <2>1
  <1>9. ASSUME ~JobMoves, \A r \in Requests : ~RequestMoves(r) PROVE RequestsJob'
    BY <1>6, <1>9, JobsUntouched
  <1> QED
    BY <1>1, <1>2, <1>3, <1>4, <1>5, <1>7, <1>8, <1>9 DEF JobMoves, RequestMoves, RequestProgress

LEMMA JobsStep ==
  ASSUME TypeOK, JobsFollow, [Next]_vars
  PROVE  JobsFollow'
  BY OutcomeStep, CleanupJobStep, RequestJobStep DEF JobsFollow, NoEarlyOutcome, CleanupsJob, RequestsJob

-----------------------------------------------------------------------------
(* Cancelling *)

LEMMA HeldStep ==
  ASSUME TypeOK, CancelHeld, [Next]_vars
  PROVE  CancelHeld'
  <1> USE DEF serverVars, runtimeVars, historyVars
  <1>0. Nobody \notin Cancellers
    BY OperationsAssumption
  <1>1. ASSUME UNCHANGED <<canceller, activity, cancelKey>>, activity = Nobody \/ running' = running
        PROVE  CancelHeld'
    BY <1>0, <1>1 DEF CancelHeld
  <1>2. ASSUME NEW r \in Requests,
               (\E k \in Key : RequestArrives(r, k)) \/ RequestProgress(r) \/ TimerPops(r) \/ TimerFires(r)
        PROVE  CancelHeld'
    <2>1. /\ UNCHANGED <<canceller, activity, cancelKey>>
          /\ activity = Nobody \/ running' = running
      BY <1>2 DEF RequestProgress, RequestArrives, RequestAcquires, RequestGivesUp, RequestStopsWaiting,
         RequestRuns, RequestClears, RequestReleases, RequestLeaves, TimerPops, TimerFires
    <2> QED
      BY <1>1, <2>1
  <1>3. ASSUME NEW j \in Jobs, JobProgress(j) PROVE CancelHeld'
    BY <1>1, <1>3 DEF JobProgress, JobEnters, JobInvokes, JobReturns, JobLeaves
  <1>4. ASSUME NEW c \in Cancellers, NEW k \in Key, CancelArrives(c, k) PROVE CancelHeld'
    <2>1. /\ activity = Nobody /\ running' = running
          /\ cancelKey'[c] = k
          /\ \/ (canceller'[c] = "reading" /\ running = k /\ activity' = c)
             \/ canceller'[c] = "done"
          /\ \A d \in Cancellers : d # c => canceller'[d] = canceller[d]
      BY <1>4 DEF CancelArrives, HoldActivity, TypeOK
    <2> QED
      BY <1>0, <2>1 DEF CancelHeld
  <1>5. ASSUME NEW c \in Cancellers, CancelProgress(c) PROVE CancelHeld'
    <2>1. /\ canceller[c] \in {"reading", "interrupting"} /\ UNCHANGED <<running, cancelKey>>
          /\ canceller'[c] = "done" \/ activity' = activity
          /\ \A d \in Cancellers : d # c => canceller'[d] = canceller[d]
      BY <1>5 DEF CancelProgress, CancelReads, CancelInterrupts, TypeOK
    <2> QED
      BY <2>1 DEF CancelHeld
  <1>6. ASSUME NEW l \in Leases, LeaseDetaches(l) \/ CleanupProgress(l) PROVE CancelHeld'
    BY <1>1, <1>6 DEF LeaseDetaches, CleanupProgress, CleanupChecks, CleanupReads, CleanupInterrupts,
       CleanupReleasesSession, CleanupEnds
  <1>7. CASE (\E g \in deferred : NativeCancel(g)) \/ AnalysisProgress \/ UNCHANGED vars
    BY <1>1, <1>7 DEF NativeCancel, AnalysisProgress, AnalysisAcquires, AnalysisReleases, vars
  <1> QED
    BY <1>2, <1>3, <1>4, <1>5, <1>6, <1>7 DEF Next

\* Nobody forgets that he has begun, and keys are set at the beginning.
LEMMA KeysStay ==
  ASSUME TypeOK, [Next]_vars
  PROVE  /\ \A r \in Requests : pc[r] # "idle" => pc'[r] # "idle" /\ key'[r] = key[r]
         /\ \A c \in Cancellers : canceller[c] # "idle" =>
              canceller'[c] # "idle" /\ cancelKey'[c] = cancelKey[c]
  <1> USE DEF serverVars, runtimeVars, historyVars
  <1>1. ASSUME NEW q \in Requests, pc[q] # "idle" PROVE pc'[q] # "idle" /\ key'[q] = key[q]
    <2>1. ASSUME NEW r \in Requests, NEW k \in Key, RequestArrives(r, k)
          PROVE  pc'[q] # "idle" /\ key'[q] = key[q]
      BY <1>1, <2>1 DEF RequestArrives, TypeOK
    <2>2. ASSUME NEW r \in Requests, RequestProgress(r)
          PROVE  pc'[q] # "idle" /\ key'[q] = key[q]
      BY <1>1, <2>2 DEF RequestProgress, RequestAcquires, RequestGivesUp, RequestStopsWaiting,
         RequestRuns, RequestClears, RequestReleases, RequestLeaves, TypeOK
    <2>3. CASE \A r \in Requests : ~RequestMoves(r)
      BY <1>1, <2>3, RequestsUntouched
    <2> QED
      BY <2>1, <2>2, <2>3 DEF RequestMoves
  <1>3. ASSUME NEW d \in Cancellers, canceller[d] # "idle"
        PROVE  canceller'[d] # "idle" /\ cancelKey'[d] = cancelKey[d]
    <2>1. ASSUME NEW c \in Cancellers, (\E k \in Key : CancelArrives(c, k)) \/ CancelProgress(c)
          PROVE  canceller'[d] # "idle" /\ cancelKey'[d] = cancelKey[d]
      BY <1>3, <2>1 DEF CancelArrives, CancelProgress, CancelReads, CancelInterrupts, TypeOK
    <2>2. ASSUME UNCHANGED <<canceller, cancelKey>>
          PROVE  canceller'[d] # "idle" /\ cancelKey'[d] = cancelKey[d]
      BY <1>3, <2>2
    <2>3. ASSUME NEW r \in Requests,
                 (\E k \in Key : RequestArrives(r, k)) \/ RequestProgress(r) \/ TimerPops(r) \/ TimerFires(r)
          PROVE  canceller'[d] # "idle" /\ cancelKey'[d] = cancelKey[d]
      BY <2>2, <2>3 DEF RequestProgress, RequestArrives, RequestAcquires, RequestGivesUp, RequestStopsWaiting,
         RequestRuns, RequestClears, RequestReleases, RequestLeaves, TimerPops, TimerFires
    <2>4. ASSUME NEW j \in Jobs, JobProgress(j)
          PROVE  canceller'[d] # "idle" /\ cancelKey'[d] = cancelKey[d]
      BY <2>2, <2>4 DEF JobProgress, JobEnters, JobInvokes, JobReturns, JobLeaves
    <2>5. ASSUME NEW l \in Leases, LeaseDetaches(l) \/ CleanupProgress(l)
          PROVE  canceller'[d] # "idle" /\ cancelKey'[d] = cancelKey[d]
      BY <2>2, <2>5 DEF LeaseDetaches, CleanupProgress, CleanupChecks, CleanupReads, CleanupInterrupts,
         CleanupReleasesSession, CleanupEnds
    <2>6. CASE (\E g \in deferred : NativeCancel(g)) \/ AnalysisProgress \/ UNCHANGED vars
      BY <2>2, <2>6 DEF NativeCancel, AnalysisProgress, AnalysisAcquires, AnalysisReleases, vars
    <2> QED
      BY <2>1, <2>3, <2>4, <2>5, <2>6 DEF Next
  <1> QED
    BY <1>1, <1>3

\* Who is hit is the active generation.
LEMMA HitsChange ==
  ASSUME TypeOK, RuntimeExclusive, [Next]_vars
  PROVE  \/ hits' = hits
         \/ \E r \in Requests : r = generation /\ kindSet /\ hits' = hits \cup {<<r, r>>}
         \/ \E c \in Cancellers : /\ canceller[c] = "interrupting"
                                  /\ kindSet /\ hits' = hits \cup {<<c, generation>>}
         \/ \E l \in Leases : kindSet /\ hits' = hits \cup {<<l, generation>>}
  <1> USE DEF serverVars, runtimeVars, historyVars
  <1>1. ASSUME NEW r \in Requests, TimerFires(r)
        PROVE  hits' = hits \/ (r = generation /\ kindSet /\ hits' = hits \cup {<<r, r>>})
    BY <1>1 DEF TimerFires, InterruptActive, StillActive
  <1>2. ASSUME NEW c \in Cancellers, CancelInterrupts(c)
        PROVE  \/ hits' = hits
               \/ (canceller[c] = "interrupting" /\ kindSet /\ hits' = hits \cup {<<c, generation>>})
    BY <1>2 DEF CancelInterrupts, InterruptActive, StillActive
  <1>3. ASSUME NEW l \in Leases, CleanupInterrupts(l)
        PROVE  hits' = hits \/ (kindSet /\ hits' = hits \cup {<<l, generation>>})
    BY <1>3 DEF CleanupInterrupts, InterruptActive, StillActive
  <1>4. ASSUME NEW r \in Requests, (\E k \in Key : RequestArrives(r, k)) \/ RequestProgress(r) \/ TimerPops(r)
        PROVE  hits' = hits
    BY <1>4 DEF RequestProgress, RequestArrives, RequestAcquires, RequestGivesUp, RequestStopsWaiting,
       RequestRuns, RequestClears, RequestReleases, RequestLeaves, TimerPops
  <1>5. ASSUME NEW j \in Jobs, JobProgress(j) PROVE hits' = hits
    BY <1>5 DEF JobProgress, JobEnters, JobInvokes, JobReturns, JobLeaves
  <1>6. ASSUME NEW c \in Cancellers, (\E k \in Key : CancelArrives(c, k)) \/ CancelReads(c)
        PROVE  hits' = hits
    BY <1>6 DEF CancelArrives, CancelReads
  <1>7. ASSUME NEW l \in Leases,
               \/ LeaseDetaches(l) \/ CleanupChecks(l) \/ CleanupReads(l)
               \/ CleanupReleasesSession(l) \/ CleanupEnds(l)
        PROVE  hits' = hits
    BY <1>7 DEF LeaseDetaches, CleanupChecks, CleanupReads, CleanupReleasesSession, CleanupEnds
  <1>8. CASE (\E g \in deferred : NativeCancel(g)) \/ AnalysisProgress \/ UNCHANGED vars
    BY <1>8 DEF NativeCancel, AnalysisProgress, AnalysisAcquires, AnalysisReleases, vars
  <1> QED
    BY <1>1, <1>2, <1>3, <1>4, <1>5, <1>6, <1>7, <1>8 DEF Next, CancelProgress, CleanupProgress

\* An active request is running, and a canceller that is about to interrupt
\* holds _activity since it found its own key in the running fields.
LEMMA ActiveIsRunning ==
  ASSUME RuntimeExclusive, JobsFollow, RunningFieldsExact, CancelHeld, kindSet
  PROVE  /\ generation \in Requests => pc[generation] = "running" /\ running = key[generation]
         /\ \A c \in Cancellers : canceller[c] = "interrupting" /\ generation \in Requests =>
              key[generation] = cancelKey[c]
  <1>1. job[generation] \in {"entered", "invoked", "returned"}
    BY DEF RuntimeExclusive, InRuntime
  <1>2. generation \in Requests => pc[generation] = "running"
    BY <1>1 DEF JobsFollow
  <1> QED
    BY <1>2 DEF RunningFieldsExact, CancelHeld

LEMMA HitsStep ==
  ASSUME TypeOK, RuntimeExclusive, JobsFollow, RunningFieldsExact, CancelHeld, HitsKept,
         CancelSparesSuccessors, DeadlineHitsOwnOperation, [Next]_vars
  PROVE  HitsKept' /\ CancelSparesSuccessors' /\ DeadlineHitsOwnOperation'
  <1> DEFINE Good(h) == /\ h[2] \in Requests => pc'[h[2]] # "idle"
                        /\ h[1] \in Cancellers => canceller'[h[1]] # "idle"
                        /\ h[1] \in Cancellers /\ h[2] \in Requests =>
                             key'[h[2]] = cancelKey'[h[1]]
                        /\ h[1] \in Requests => h[2] = h[1]
  <1>0. \A c \in Cancellers : c \notin Requests /\ c \notin Leases
    BY OperationsAssumption
  <1>00. \A l \in Leases : l \notin Requests
    BY OperationsAssumption
  <1>1. \A h \in hits : Good(h)
    BY KeysStay DEF HitsKept, CancelSparesSuccessors, DeadlineHitsOwnOperation
  <1>2. ASSUME NEW r \in Requests, r = generation, kindSet PROVE Good(<<r, r>>)
    <2>1. pc'[r] # "idle"
      BY <1>2, ActiveIsRunning, KeysStay
    <2> QED
      BY <1>0, <1>2, <2>1
  <1>3. ASSUME NEW c \in Cancellers, canceller[c] = "interrupting", kindSet
        PROVE  Good(<<c, generation>>)
    <2>1. generation \in Requests => /\ pc'[generation] # "idle"
                                     /\ key'[generation] = cancelKey'[c]
      BY <1>3, ActiveIsRunning, KeysStay
    <2>2. canceller'[c] # "idle"
      BY <1>3, KeysStay
    <2> QED
      BY <1>0, <2>1, <2>2
  <1>4. ASSUME NEW l \in Leases, kindSet PROVE Good(<<l, generation>>)
    <2>1. generation \in Requests => pc'[generation] # "idle"
      BY <1>4, ActiveIsRunning, KeysStay
    <2> QED
      BY <1>0, <1>00, <2>1
  <1>5. \A h \in hits' : Good(h)
    BY <1>1, <1>2, <1>3, <1>4, HitsChange
  <1> QED
    BY <1>5 DEF HitsKept, CancelSparesSuccessors, DeadlineHitsOwnOperation

LEMMA AckStep ==
  ASSUME TypeOK, TableKept, JobsFollow, AckKept, [Next]_vars
  PROVE  AckKept'
  <1> USE DEF serverVars, runtimeVars, historyVars
  <1> DEFINE Queued == {"waiting", "acquired", "quitting", "admitted"}
  <1>1. ASSUME UNCHANGED <<pc, key, cancelled, ackQueued>>, \A r \in Requests : job[r] = "out" => job'[r] = "out"
        PROVE  AckKept'
    BY <1>1 DEF AckKept, TypeOK
  <1>2. ASSUME NEW r \in Requests, NEW k \in Key, RequestArrives(r, k) PROVE AckKept'
    <2>1. /\ UNCHANGED <<cancelled, ackQueued, job>> /\ pc[r] = "idle"
          /\ \A q \in Requests : q # r => pc'[q] = pc[q] /\ key'[q] = key[q]
      BY <1>2 DEF RequestArrives, TypeOK
    <2>2. r \notin ackQueued
      BY <2>1 DEF AckKept
    <2> QED
      BY <2>1, <2>2 DEF AckKept, TypeOK
  <1>3. ASSUME NEW r \in Requests,
               RequestAcquires(r) \/ RequestGivesUp(r) \/ RequestStopsWaiting(r)
        PROVE  AckKept'
    <2>1. /\ UNCHANGED <<key, cancelled, ackQueued, job>>
          /\ pc[r] \in Queued /\ pc'[r] \in Queued \cup {"leaving"}
          /\ \A q \in Requests : q # r => pc'[q] = pc[q]
      BY <1>3 DEF RequestAcquires, RequestGivesUp, RequestStopsWaiting, TypeOK
    <2> QED
      BY <2>1 DEF AckKept, TypeOK
  <1>4. ASSUME NEW r \in Requests, RequestRuns(r) PROVE AckKept'
    <2>1. /\ UNCHANGED <<key, cancelled, ackQueued>> /\ pc[r] = "admitted"
          /\ \A q \in Requests : q # r => pc'[q] = pc[q] /\ job'[q] = job[q]
          /\ MayRun(r) \/ (pc'[r] = "leaving" /\ job'[r] = job[r])
      BY <1>4 DEF RequestRuns, TypeOK, Jobs
    <2>2. r \in ackQueued => ~MayRun(r)
      BY <2>1 DEF AckKept, MayRun
    <2> QED
      BY <2>1, <2>2 DEF AckKept, TypeOK
  <1>5. ASSUME NEW r \in Requests, RequestClears(r) \/ RequestReleases(r) PROVE AckKept'
    <2>1. /\ UNCHANGED <<key, cancelled, ackQueued, job>>
          /\ pc[r] \in {"running", "cleared"}
          /\ \A q \in Requests : q # r => pc'[q] = pc[q]
      BY <1>5 DEF RequestClears, RequestReleases, TypeOK
    <2>2. r \notin ackQueued
      BY <2>1 DEF AckKept
    <2> QED
      BY <2>1, <2>2 DEF AckKept, TypeOK
  <1>6. ASSUME NEW r \in Requests, RequestLeaves(r) PROVE AckKept'
    <2>1. /\ UNCHANGED <<key, ackQueued, job>> /\ cancelled' = cancelled \ {key[r]}
          /\ pc[r] = "leaving" /\ pc'[r] = "done"
          /\ \A q \in Requests : q # r => pc'[q] = pc[q]
      BY <1>6 DEF RequestLeaves, FlagDiscarded, TypeOK
    <2>2. ASSUME NEW q \in ackQueued, q # r, pc[q] \in Queued PROVE key[q] \in cancelled'
      <3>1. q \in Requests /\ key[q] \in cancelled
        BY <2>2 DEF AckKept, TypeOK
      <3>2. key[q] \in pending /\ key[q].operation # NoOperation
        BY <3>1 DEF TableKept
      <3>3. key[q] # key[r]
        BY <2>1, <2>2, <3>1, <3>2 DEF TableKept, Arrived
      <3> QED
        BY <2>1, <3>1, <3>3
    <2> QED
      BY <2>1, <2>2 DEF AckKept, TypeOK
  <1>7. ASSUME NEW r \in Requests, TimerPops(r) \/ TimerFires(r) PROVE AckKept'
    BY <1>1, <1>7 DEF TimerPops, TimerFires
  <1>8. ASSUME NEW j \in Jobs, JobProgress(j) PROVE AckKept'
    <2>1. /\ UNCHANGED <<pc, key, cancelled, ackQueued>> /\ job[j] # "out"
          /\ \A i \in Jobs : i # j => job'[i] = job[i]
      BY <1>8 DEF JobProgress, JobEnters, JobInvokes, JobReturns, JobLeaves, TypeOK
    <2> QED
      BY <1>1, <2>1 DEF Jobs
  <1>9. ASSUME NEW c \in Cancellers, NEW k \in Key, CancelArrives(c, k) PROVE AckKept'
    <2>1. /\ UNCHANGED <<pc, key, job>> /\ cancelled' = cancelled \cup {k}
          /\ ackQueued' = ackQueued \cup
               {r \in Requests : key[r] = k /\ pc[r] \in {"waiting", "acquired", "admitted"}}
      BY <1>9 DEF CancelArrives
    <2>2. \A r \in Requests : pc[r] \in {"waiting", "acquired", "admitted"} => job[r] = "out"
      BY DEF JobsFollow
    <2> QED
      BY <2>1, <2>2 DEF AckKept, TypeOK
  <1>10. ASSUME NEW c \in Cancellers, CancelProgress(c) PROVE AckKept'
    BY <1>1, <1>10 DEF CancelProgress, CancelReads, CancelInterrupts
  <1>11. ASSUME NEW l \in Leases,
                \/ LeaseDetaches(l) \/ CleanupChecks(l) \/ CleanupReads(l) \/ CleanupInterrupts(l)
                \/ CleanupEnds(l)
         PROVE  AckKept'
    BY <1>1, <1>11 DEF LeaseDetaches, CleanupChecks, CleanupReads, CleanupInterrupts, CleanupEnds
  <1>12. ASSUME NEW l \in Leases, CleanupReleasesSession(l) PROVE AckKept'
    <2>1. /\ UNCHANGED <<pc, key, cancelled, ackQueued>>
          /\ \A r \in Requests : job'[r] = job[r]
      BY <1>12, OperationsAssumption DEF CleanupReleasesSession, TypeOK, Jobs
    <2> QED
      BY <1>1, <2>1
  <1>13. ASSUME NEW s \in Slices, AnalysisAcquires(s) \/ AnalysisReleases(s) PROVE AckKept'
    <2>1. /\ UNCHANGED <<pc, key, cancelled, ackQueued>>
          /\ \A r \in Requests : job'[r] = job[r]
      BY <1>13, OperationsAssumption DEF AnalysisAcquires, AnalysisReleases, TypeOK, Jobs
    <2> QED
      BY <1>1, <2>1
  <1>14. CASE (\E g \in deferred : NativeCancel(g)) \/ UNCHANGED vars
    BY <1>1, <1>14 DEF NativeCancel, vars
  <1> QED
    BY <1>2, <1>3, <1>4, <1>5, <1>6, <1>7, <1>8, <1>9, <1>10, <1>11, <1>12, <1>13, <1>14
    DEF Next, RequestProgress, CleanupProgress, AnalysisProgress

LEMMA FlagStep ==
  ASSUME NativeFlagIsOwn, [Next]_vars
  PROVE  NativeFlagIsOwn'
  <1> USE DEF serverVars, runtimeVars, historyVars, NativeFlagIsOwn
  <1>1. ASSUME NEW r \in Requests, (\E k \in Key : RequestArrives(r, k)) \/ RequestProgress(r) \/ TimerPops(r)
        PROVE  NativeFlagIsOwn'
    BY <1>1 DEF RequestProgress, RequestArrives, RequestAcquires, RequestGivesUp, RequestStopsWaiting,
       RequestRuns, RequestClears, RequestReleases, RequestLeaves, TimerPops
  <1>2. ASSUME NEW r \in Requests, TimerFires(r) PROVE NativeFlagIsOwn'
    BY <1>2 DEF TimerFires, InterruptActive
  <1>3. ASSUME NEW j \in Jobs, JobProgress(j) PROVE NativeFlagIsOwn'
    BY <1>3 DEF JobProgress, JobEnters, JobInvokes, JobReturns, JobLeaves
  <1>4. ASSUME NEW c \in Cancellers, (\E k \in Key : CancelArrives(c, k)) \/ CancelProgress(c)
        PROVE  NativeFlagIsOwn'
    BY <1>4 DEF CancelArrives, CancelProgress, CancelReads, CancelInterrupts, InterruptActive
  <1>5. ASSUME NEW l \in Leases, LeaseDetaches(l) \/ CleanupProgress(l) PROVE NativeFlagIsOwn'
    BY <1>5 DEF LeaseDetaches, CleanupProgress, CleanupChecks, CleanupReads, CleanupInterrupts,
       CleanupReleasesSession, CleanupEnds, InterruptActive
  <1>6. ASSUME NEW g \in deferred, NativeCancel(g) PROVE NativeFlagIsOwn'
    BY <1>6 DEF NativeCancel, NativeApplies
  <1>7. CASE AnalysisProgress \/ UNCHANGED vars
    BY <1>7 DEF AnalysisProgress, AnalysisAcquires, AnalysisReleases, vars
  <1> QED
    BY <1>1, <1>2, <1>3, <1>4, <1>5, <1>6, <1>7 DEF Next

-----------------------------------------------------------------------------
(* The theorems *)

LEMMA OperationsStep == OperationsInv /\ [Next]_vars => OperationsInv'
  <1> SUFFICES ASSUME OperationsInv, [Next]_vars PROVE OperationsInv'
    OBVIOUS
  <1>1. /\ TypeOK /\ WaitersExact /\ BackendOwned /\ RunningFieldsExact /\ TableKept
        /\ RuntimeExclusive /\ JobsFollow /\ CancelHeld /\ HitsKept /\ AckKept
    BY DEF OperationsInv
  <1>2. CancelSparesSuccessors /\ DeadlineHitsOwnOperation /\ NativeFlagIsOwn
    BY DEF OperationsInv, InterruptsItsOwn
  <1>3. TypeOK' /\ WaitersExact'
    BY <1>1, WaitersStep, TypeStep
  <1>4. BackendOwned' /\ RunningFieldsExact' /\ TableKept'
    BY <1>1, BackendStep, RunningStep, TableStep
  <1>5. RuntimeExclusive' /\ JobsFollow'
    BY <1>1, RuntimeStep, JobsStep
  <1>6. CancelHeld' /\ AckKept'
    BY <1>1, HeldStep, AckStep
  <1>7. HitsKept' /\ CancelSparesSuccessors' /\ DeadlineHitsOwnOperation'
    BY <1>1, <1>2, HitsStep
  <1>8. NativeFlagIsOwn'
    BY <1>2, FlagStep
  <1> QED
    BY <1>3, <1>4, <1>5, <1>6, <1>7, <1>8 DEF OperationsInv, InterruptsItsOwn

\* Nothing else starts a slice.
LEMMA AnalysisStarts ==
  ASSUME [Next]_vars, analysis = "yielding", analysis' = "advancing"
  PROVE  \E s \in Slices : AnalysisAcquires(s)
  <1> USE DEF serverVars, runtimeVars, historyVars
  <1>1. ASSUME NEW r \in Requests,
               (\E k \in Key : RequestArrives(r, k)) \/ RequestProgress(r) \/ TimerPops(r) \/ TimerFires(r)
        PROVE  analysis' = analysis
    BY <1>1 DEF RequestProgress, RequestArrives, RequestAcquires, RequestGivesUp, RequestStopsWaiting,
       RequestRuns, RequestClears, RequestReleases, RequestLeaves, TimerPops, TimerFires
  <1>2. ASSUME NEW j \in Jobs, JobProgress(j) PROVE analysis' = analysis
    BY <1>2 DEF JobProgress, JobEnters, JobInvokes, JobReturns, JobLeaves
  <1>3. ASSUME NEW c \in Cancellers, (\E k \in Key : CancelArrives(c, k)) \/ CancelProgress(c)
        PROVE  analysis' = analysis
    BY <1>3 DEF CancelArrives, CancelProgress, CancelReads, CancelInterrupts
  <1>4. ASSUME NEW l \in Leases, LeaseDetaches(l) \/ CleanupProgress(l) PROVE analysis' = analysis
    BY <1>4 DEF LeaseDetaches, CleanupProgress, CleanupChecks, CleanupReads, CleanupInterrupts,
       CleanupReleasesSession, CleanupEnds
  <1>5. CASE (\E g \in deferred : NativeCancel(g)) \/ UNCHANGED vars
    BY <1>5 DEF NativeCancel, vars
  <1>6. ASSUME NEW s \in Slices, AnalysisReleases(s) PROVE analysis # "yielding"
    BY <1>6 DEF AnalysisReleases
  <1> QED
    BY <1>1, <1>2, <1>3, <1>4, <1>5, <1>6 DEF Next, AnalysisProgress

\* The strengthened invariant holds in every behaviour.
THEOREM OperationsInvariant == Spec => []OperationsInv
  BY InitInv, OperationsStep, PTL DEF Spec

\* Every variable has its type, the active generation of a hit included.
THEOREM TypeCorrect == Spec => []TypeOK
  <1>1. OperationsInv => TypeOK
    BY DEF OperationsInv
  <1> QED
    BY <1>1, OperationsInvariant, PTL

\* However many requests share the backend, the running fields and the
\* operation table are what cancel, release and shutdown take them for.
THEOREM TablesStayExact == Spec => []TablesAreExact
  <1>1. ASSUME OperationsInv PROVE TablesAreExact
    <2>1. TypeOK /\ TableKept /\ RunningFieldsExact
      BY <1>1 DEF OperationsInv
    <2>2. \A r \in Requests : r \in InFlight <=> Arrived(r)
      BY DEF InFlight, Arrived
    <2>3. InFlight \subseteq Requests
      BY DEF InFlight
    <2>4. pending = {key[r] : r \in {q \in InFlight : key[q].operation # NoOperation}}
      <3>1. ASSUME NEW k \in pending
            PROVE  \E r \in {q \in InFlight : key[q].operation # NoOperation} : key[r] = k
        <4>1. k.operation # NoOperation
          BY <2>1 DEF TableKept
        <4>2. PICK r \in Requests : Arrived(r) /\ key[r] = k
          BY <2>1 DEF TableKept
        <4>3. r \in {q \in InFlight : key[q].operation # NoOperation}
          BY <2>2, <4>1, <4>2
        <4> QED
          BY <4>2, <4>3
      <3>2. ASSUME NEW r \in {q \in InFlight : key[q].operation # NoOperation}
            PROVE  key[r] \in pending
        BY <2>1, <2>2, <2>3 DEF TableKept
      <3> QED
        BY <3>1, <3>2
    <2>5. cancelled \subseteq pending
      BY <2>1 DEF TableKept
    <2>6. \A q, r \in InFlight : q # r /\ key[q] = key[r] => key[q].operation = NoOperation
      BY <2>1, <2>2, <2>3 DEF TableKept
    <2> QED
      BY <2>1, <2>4, <2>5, <2>6 DEF TablesAreExact, OperationTableExact
  <1> QED
    BY <1>1, OperationsInvariant, PTL

\* An acknowledged cancellation of a queued operation is kept.
THEOREM CancelledNeverRuns == Spec => []CancelledWhileQueuedNeverRuns
  <1>1. ASSUME OperationsInv PROVE CancelledWhileQueuedNeverRuns
    <2>1. TypeOK /\ AckKept /\ JobsFollow
      BY <1>1 DEF OperationsInv
    <2>2. ackQueued \subseteq Jobs
      BY <2>1 DEF TypeOK, Jobs
    <2> QED
      BY <2>1, <2>2 DEF AckKept, JobsFollow, CancelledWhileQueuedNeverRuns
  <1> QED
    BY <1>1, OperationsInvariant, PTL

\* Cancels, deadlines and IDA's own flag hit what they were meant for.
THEOREM InterruptsStayOwn == Spec => []InterruptsItsOwn
  <1>1. OperationsInv => InterruptsItsOwn
    BY DEF OperationsInv
  <1> QED
    BY <1>1, OperationsInvariant, PTL

\* No slice of the analysis starts while a request is queued.
THEOREM AnalysisAlwaysYields == Spec => AnalysisYields
  <1>1. ASSUME OperationsInv, Next, analysis = "yielding", analysis' = "advancing",
               NEW r \in Requests
        PROVE  pc[r] \notin {"waiting", "acquired", "quitting"}
    <2>1. \E s \in Slices : AnalysisAcquires(s)
      BY <1>1, AnalysisStarts
    <2>2. waiters = 0
      BY <2>1 DEF AnalysisAcquires, MayStartSlice
    <2>3. Cardinality(Queueing) = 0
      BY <1>1, <2>2 DEF OperationsInv, WaitersExact
    <2>4. Queueing = {}
      BY <2>3, QueueFinite, FS_EmptySet
    <2> QED
      BY <2>4 DEF Queueing
  <1>2. OperationsInv /\ [Next]_vars =>
          [analysis = "yielding" /\ analysis' = "advancing" =>
             \A r \in Requests : pc[r] \notin {"waiting", "acquired", "quitting"}]_vars
    BY <1>1
  <1> QED
    BY <1>2, OperationsInvariant, PTL DEF Spec, AnalysisYields
=============================================================================
