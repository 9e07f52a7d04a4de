--------------------------- MODULE GuiProcess_proofs ---------------------------
(***************************************************************************)
(* Safety of what a GUI process adds to IDA: the plugin and its sessions   *)
(* (GuiSession), and the threads that serve their clients (HTTPWorkerPool).*)
(*                                                                         *)
(* GuiSession, for any number of providers, databases and registrations: a *)
(* database has one live record, a lock outlives the ida-domain Database   *)
(* of its session and no close of IDA's database lets it go, and a provider*)
(* never backs off from itself.  None of the three is                      *)
(* inductive.  They follow once every registration with a live record is   *)
(* known to its provider as the server of its session or as its pending    *)
(* release, a loaded provider has no release pending, and nothing else     *)
(* happens while a start is under way.                                     *)
(*                                                                         *)
(* HTTPWorkerPool, for any number of connections, workers, prewarmed and   *)
(* idle threads: the counters are exact, and a service that is closed      *)
(* leaves no connection queued or served uncut.  That proof goes in two    *)
(* parts: Core (types and counters), and InOnePlace, which says that a     *)
(* connection is in the queue or with one worker, never in two places.     *)
(* ClosedLeavesNothing needs it: else one worker that finishes could take  *)
(* the connection of another out of _active_connections before             *)
(* server_close has seen it there.                                         *)
(***************************************************************************)
EXTENDS GuiSession, HTTPWorkerPool, FiniteSetTheorems, SequenceTheorems, TLAPS

-----------------------------------------------------------------------------
(* The plugin and its sessions *)

\* While a provider starts, the kernel stays at the database it was found at,
\* the provider stays loaded, and the database has no live record.
StartAlone ==
  /\ starter = None <=> step = "none"
  /\ starter = None => made = None
  /\ starter # None =>
       /\ kernel = "idle" /\ db \in Databases /\ starter \in ready
       /\ server[starter] = None
       /\ \A r \in Registrations : ~(Live(r) /\ names[r].of = db)

\* The registration of the start.
StartsOne ==
  /\ made # None => state[made] = "locked" /\ names[made] = [by |-> starter, of |-> db]
  /\ step = "bound" => made # None
  /\ step \in {"looked", "attached"} => made = None
  /\ attached \subseteq ready
  /\ step = "detached" => starter \notin attached

\* Who knows a registration: its provider's session, or the pending release
\* of a provider that is unloaded; and each was made by that provider.
KnownTo(r) == names[r].by \in Providers /\ (server[names[r].by] = r \/ pending[names[r].by] = r)

Known ==
  /\ \A p \in Providers : server[p] # None =>
       p \in ready /\ state[server[p]] # "free" /\ names[server[p]].by = p
  /\ \A p \in Providers : pending[p] # None =>
       p \notin ready /\ state[pending[p]] # "free" /\ names[pending[p]].by = p
  /\ \A r \in queue :
       /\ state[r] # "free"
       /\ Held(r) => names[r].by \in Providers /\ pending[names[r].by] = r
  /\ \A r \in Registrations : Live(r) => KnownTo(r)

GInv == TypeOK /\ StartAlone /\ StartsOne /\ Known /\ OneRegistration

\* At first nothing is registered.
LEMMA InitGInv == Init => GInv
  BY GuiAssumption DEF Init, GInv, TypeOK, StartAlone, StartsOne, Known, KnownTo, OneRegistration,
     Live, Held, KernelStates, RegStates, StepStates, NoName

-----------------------------------------------------------------------------
\* The steps of the kernel, the end of the process included.
LEMMA KernelKeeps == GInv /\ KernelSteps => GInv'
  <1> SUFFICES ASSUME GInv, KernelSteps PROVE GInv'
    OBVIOUS
  <1>1. TypeOK'
    BY DEF GInv, TypeOK, KernelSteps, OpensDatabase, Dispatches, BeginsClosing, ClosesDatabase,
       Exits, pluginVars, regVars, startVars, KernelStates, RegStates, Held
  <1>2. StartAlone'
    BY DEF GInv, StartAlone, KernelSteps, OpensDatabase, Dispatches, BeginsClosing, ClosesDatabase,
       Exits, pluginVars, regVars, startVars, MainThreadFree, Held, Live, TypeOK
  <1>3. StartsOne'
    BY DEF GInv, StartAlone, StartsOne, KernelSteps, OpensDatabase, Dispatches, BeginsClosing,
       ClosesDatabase, Exits, pluginVars, regVars, startVars, MainThreadFree, TypeOK
  <1>4. Known' /\ OneRegistration'
    BY DEF GInv, Known, KnownTo, OneRegistration, Live, Held, KernelSteps, OpensDatabase,
       Dispatches, BeginsClosing, ClosesDatabase, Exits, pluginVars, regVars, startVars, TypeOK
  <1> QED
    BY <1>1, <1>2, <1>3, <1>4 DEF GInv

\* Loading a provider.
LEMMA InitialisesKeeps ==
  ASSUME NEW p \in Providers, GInv, Initialises(p) PROVE GInv'
  <1>1. TypeOK'
    BY GuiAssumption DEF GInv, TypeOK, Initialises, kernelVars, startVars, Released, RegStates
  <1>2. StartAlone' /\ StartsOne'
    BY GuiAssumption DEF GInv, TypeOK, StartAlone, StartsOne, Initialises, kernelVars, startVars,
       Released, MainThreadFree, Live
  <1>3. \A r \in Registrations : Held(r)' => Held(r) /\ r # pending[p]
    BY GuiAssumption DEF GInv, TypeOK, Initialises, Released, Held
  <1>4. \A r \in Registrations : (state[r] # "free" => state'[r] # "free") /\ (Live(r)' => Live(r))
    BY DEF GInv, TypeOK, Initialises, Released, Live
  <1>5. Known'
    BY <1>3, <1>4, GuiAssumption DEF GInv, TypeOK, Known, KnownTo, Initialises, Live, Held
  <1>6. OneRegistration'
    BY <1>4 DEF GInv, OneRegistration, Initialises
  <1> QED
    BY <1>1, <1>2, <1>5, <1>6 DEF GInv

\* Unloading a provider.
LEMMA TerminatesKeeps ==
  ASSUME NEW p \in Providers, GInv, Terminates(p) PROVE GInv'
  <1>1. TypeOK'
    BY GuiAssumption DEF GInv, TypeOK, Terminates, Deferred, kernelVars, startVars, regVars
  <1>2. StartAlone' /\ StartsOne'
    BY GuiAssumption DEF GInv, TypeOK, StartAlone, StartsOne, Terminates, kernelVars, startVars,
       regVars, MainThreadFree, Live
  <1>3. UNCHANGED <<state, names>> /\ pending[p] = None
    BY DEF GInv, TypeOK, Known, Terminates, regVars
  <1>4. Known'
    BY <1>3, GuiAssumption DEF GInv, TypeOK, Known, KnownTo, Terminates, Deferred, Live, Held
  <1>5. OneRegistration'
    BY <1>3 DEF GInv, OneRegistration, Live
  <1> QED
    BY <1>1, <1>2, <1>4, <1>5 DEF GInv

\* The queued release of a session.
LEMMA ReleaseKeeps ==
  ASSUME NEW r \in Registrations, GInv, ReleasesWhenIdle(r) PROVE GInv'
  <1>1. TypeOK'
    BY GuiAssumption DEF GInv, TypeOK, ReleasesWhenIdle, kernelVars, startVars, Released, RegStates
  <1>2. StartAlone' /\ StartsOne'
    BY GuiAssumption DEF GInv, TypeOK, StartAlone, StartsOne, ReleasesWhenIdle, kernelVars, startVars,
       Released, MainThreadFree, Live
  <1>3. \A q \in Registrations : /\ Held(q)' => Held(q) /\ q # r
                                 /\ state[q] # "free" => state'[q] # "free"
                                 /\ Live(q)' => Live(q) /\ q # r
    BY GuiAssumption DEF GInv, TypeOK, ReleasesWhenIdle, Released, Held, Live
  <1>4. Known'
    BY <1>3, GuiAssumption DEF GInv, TypeOK, Known, KnownTo, ReleasesWhenIdle
  <1>5. OneRegistration'
    BY <1>3 DEF GInv, OneRegistration, ReleasesWhenIdle
  <1> QED
    BY <1>1, <1>2, <1>4, <1>5 DEF GInv

-----------------------------------------------------------------------------
\* A start begins, or backs off.
LEMMA LooksKeeps ==
  ASSUME NEW p \in Providers, GInv, StartLooks(p) PROVE GInv'
  <1>1. TypeOK'
    BY GuiAssumption DEF GInv, TypeOK, StartLooks, kernelVars, startVars, regVars, StepStates
  <1>2. StartAlone' /\ StartsOne'
    BY GuiAssumption DEF GInv, TypeOK, StartAlone, StartsOne, StartLooks, kernelVars, startVars,
       regVars, MainThreadFree, Live
  <1>3. Known' /\ OneRegistration'
    BY DEF GInv, Known, KnownTo, OneRegistration, StartLooks, regVars, Live, Held
  <1> QED
    BY <1>1, <1>2, <1>3 DEF GInv

\* The rest of a start, to its success or the end of its failure.
LEMMA ContinuesKeeps == GInv /\ StartContinues => GInv'
  <1> SUFFICES ASSUME GInv, StartContinues PROVE GInv'
    OBVIOUS
  <1>0. step # "none" => starter \in Providers /\ starter # None
    BY DEF GInv, TypeOK, StartAlone
  <1>1. CASE StartAttaches
    <2>1. TypeOK' /\ StartAlone' /\ StartsOne'
      BY <1>0, <1>1 DEF GInv, TypeOK, StartAlone, StartsOne, StartAttaches, kernelVars, regVars,
         StepStates, Live
    <2>2. Known' /\ OneRegistration'
      BY <1>1 DEF GInv, Known, KnownTo, OneRegistration, StartAttaches, regVars, Live, Held
    <2> QED
      BY <2>1, <2>2 DEF GInv
  <1>2. CASE StartBinds
    <2>1. TypeOK'
      BY <1>0, <1>2 DEF GInv, TypeOK, StartAlone, StartBinds, kernelVars, pluginVars, regVars,
         StepStates, RegStates
    <2>2. \A r \in Registrations : /\ state[r] # "free" => state'[r] = state[r] /\ names'[r] = names[r]
                                   /\ Live(r)' => state[r] = "published"
      BY <1>2 DEF GInv, TypeOK, StartBinds, regVars, Live
    <2>3. StartAlone'
      BY <1>0, <1>2, <2>2 DEF GInv, TypeOK, StartAlone, StartsOne, StartBinds, kernelVars, pluginVars, Live
    <2>4. StartsOne'
      BY <1>0, <1>2, GuiAssumption DEF GInv, TypeOK, StartAlone, StartsOne, StartBinds, kernelVars,
         pluginVars, regVars
    <2>5. Known' /\ OneRegistration'
      BY <1>2, <2>2 DEF GInv, TypeOK, Known, KnownTo, OneRegistration, StartBinds, pluginVars, Live, Held
    <2> QED
      BY <2>1, <2>3, <2>4, <2>5 DEF GInv
  <1>3. CASE StartPublishes
    <2>1. made \in Registrations /\ state[made] = "locked" /\ names[made] = [by |-> starter, of |-> db]
      BY <1>3 DEF GInv, TypeOK, StartsOne, StartPublishes
    <2>2. CASE step' = "failing" /\ UNCHANGED <<state, server, starter, made>>
      <3>1. TypeOK' /\ StartAlone' /\ StartsOne'
        BY <1>0, <1>3, <2>2 DEF GInv, TypeOK, StartAlone, StartsOne, StartPublishes, kernelVars,
           StepStates, Live
      <3>2. Known' /\ OneRegistration'
        BY <1>3, <2>2 DEF GInv, Known, KnownTo, OneRegistration, StartPublishes, Live, Held
      <3> QED
        BY <3>1, <3>2 DEF GInv
    <2>3. CASE /\ state' = [state EXCEPT ![made] = "published"]
               /\ server' = [server EXCEPT ![starter] = made]
               /\ starter' = None /\ step' = "none" /\ made' = None
      <3>1. TypeOK' /\ StartAlone' /\ StartsOne'
        BY <1>0, <1>3, <2>1, <2>3 DEF GInv, TypeOK, StartAlone, StartsOne, StartPublishes, kernelVars,
           StepStates, RegStates
      <3>2. /\ starter \in Providers /\ starter \in ready /\ server[starter] = None
            /\ \A r \in Registrations : ~(Live(r) /\ names[r].of = db)
        BY <1>0, <1>3 DEF GInv, StartAlone, StartPublishes
      <3>3. \A r \in Registrations : IF r = made THEN Live(r)' /\ Held(r)
                                     ELSE state'[r] = state[r]
        BY <1>3, <2>1, <2>3 DEF GInv, TypeOK, Live, Held
      <3>4. OneRegistration'
        BY <1>3, <2>1, <3>2, <3>3 DEF GInv, OneRegistration, StartPublishes, Live
      <3>5. Known'
        BY <1>3, <2>1, <2>3, <3>2, <3>3 DEF GInv, TypeOK, Known, KnownTo, StartPublishes, Live, Held
      <3> QED
        BY <3>1, <3>4, <3>5 DEF GInv
    <2> QED
      BY <1>3, <2>2, <2>3 DEF StartPublishes
  <1>4. CASE StartDetaches
    <2>1. TypeOK' /\ StartAlone' /\ StartsOne'
      BY <1>0, <1>4 DEF GInv, TypeOK, StartAlone, StartsOne, StartDetaches, kernelVars, regVars,
         StepStates, Live
    <2>2. Known' /\ OneRegistration'
      BY <1>4 DEF GInv, Known, KnownTo, OneRegistration, StartDetaches, regVars, Live, Held
    <2> QED
      BY <2>1, <2>2 DEF GInv
  <1>5. CASE StartReleases
    <2>1. TypeOK' /\ StartAlone' /\ StartsOne'
      BY <1>0, <1>5 DEF GInv, TypeOK, StartAlone, StartsOne, StartReleases, kernelVars, pluginVars,
         StepStates, RegStates, Released, Live
    <2>2. \A r \in Registrations : /\ Held(r)' => Held(r)
                                   /\ state[r] # "free" => state'[r] # "free"
                                   /\ Live(r)' => Live(r)
      BY <1>5 DEF GInv, TypeOK, StartReleases, Released, Held, Live
    <2>3. Known' /\ OneRegistration'
      BY <1>5, <2>2 DEF GInv, TypeOK, Known, KnownTo, OneRegistration, StartReleases, pluginVars
    <2> QED
      BY <2>1, <2>3 DEF GInv
  <1> QED
    BY <1>1, <1>2, <1>3, <1>4, <1>5 DEF StartContinues

\* Every step keeps the invariant.
LEMMA StepGInv == GInv /\ [Next]_vars => GInv'
  <1> SUFFICES ASSUME GInv, [Next]_vars PROVE GInv'
    OBVIOUS
  <1>1. CASE UNCHANGED vars
    BY <1>1 DEF GInv, vars, kernelVars, pluginVars, regVars, startVars, TypeOK, StartAlone, StartsOne,
       Known, KnownTo, OneRegistration, Live, Held
  <1>2. CASE Next
    BY <1>2, KernelKeeps, InitialisesKeeps, TerminatesKeeps, LooksKeeps, ReleaseKeeps, ContinuesKeeps
       DEF Next
  <1> QED
    BY <1>1, <1>2

\* The invariant holds of the plugin.
THEOREM GuiInvariant == Spec => []GInv
  BY InitGInv, StepGInv, PTL DEF Spec

\* The type invariant.
THEOREM TypeCorrect == Spec => []TypeOK
  <1>1. GInv => TypeOK
    BY DEF GInv
  <1> QED
    BY <1>1, GuiInvariant, PTL

\* Two records of one database are never live at once, however providers are
\* loaded, reloaded and released.
THEOREM OneLiveRecord == Spec => []OneRegistration
  <1>1. GInv => OneRegistration
    BY DEF GInv
  <1> QED
    BY <1>1, GuiInvariant, PTL

-----------------------------------------------------------------------------
\* Where a lock is given up: never with its Database attached, nor in the
\* middle of a close.
LEMMA LocksAtStep ==
  ASSUME GInv, [Next]_vars, NEW r \in Registrations, Held(r), ~Held(r)'
  PROVE  /\ names[r].by \notin attached'
         /\ kernel \in {"closing", "exiting"} => kernel' = "gone"
  <1>1. CASE Exits
    BY <1>1, GuiAssumption DEF Exits, GInv, StartAlone, StartsOne, pluginVars
  <1>2. ASSUME NEW p \in Providers, Initialises(p) PROVE r = pending[p]
    BY <1>2 DEF Initialises, Released, Held, GInv, TypeOK
  <1>3. ASSUME NEW p \in Providers, Initialises(p)
        PROVE names[r].by \notin attached' /\ kernel \notin {"closing", "exiting"}
    <2>1. r = pending[p] /\ r # None
      BY <1>2, <1>3, GuiAssumption
    <2>2. names[r].by = p /\ p \notin ready
      BY <2>1 DEF GInv, Known
    <2> QED
      BY <1>3, <2>2 DEF Initialises, GInv, StartsOne
  <1>4. ASSUME NEW q \in Registrations, ReleasesWhenIdle(q)
        PROVE names[r].by \notin attached' /\ kernel \notin {"closing", "exiting"}
    <2>1. q = r
      BY <1>4 DEF ReleasesWhenIdle, Released, Held, GInv, TypeOK
    <2> QED
      BY <1>4, <2>1, GuiAssumption DEF ReleasesWhenIdle, GInv, TypeOK, Known, StartsOne
  <1>5. CASE StartReleases
    <2>1. r = made /\ made # None
      BY <1>5, GuiAssumption DEF StartReleases, Released, Held, GInv, TypeOK
    <2>2. starter # None
      BY <1>5 DEF StartReleases, GInv, StartAlone
    <2> QED
      BY <1>5, <2>1, <2>2 DEF StartReleases, GInv, StartsOne, StartAlone, kernelVars, pluginVars
  <1>6. CASE StartBinds \/ StartPublishes
    BY <1>6 DEF StartBinds, StartPublishes, Held, GInv, TypeOK, StartsOne, regVars
  <1>7. CASE UNCHANGED state
    BY <1>7 DEF Held
  <1> QED
    BY <1>1, <1>3, <1>4, <1>5, <1>6, <1>7
       DEF Next, KernelSteps, OpensDatabase, Dispatches, BeginsClosing, ClosesDatabase, Terminates,
           StartLooks, StartContinues, StartAttaches, StartDetaches, regVars, vars

\* Where a provider backs off: its own records would be known to it.
LEMMA BackingOff ==
  ASSUME GInv, [Next]_vars, NEW p \in Providers, NEW r \in Registrations,
         p \in external' \ external, Live(r), names[r].of = db
  PROVE  names[r].by # p
  <1>1. StartLooks(p)
    BY DEF Next, KernelSteps, OpensDatabase, Dispatches, BeginsClosing, ClosesDatabase, Exits,
       Initialises, Terminates, StartLooks, ReleasesWhenIdle, StartContinues, StartAttaches,
       StartBinds, StartPublishes, StartDetaches, StartReleases, pluginVars, vars
  <1> QED
    BY <1>1, GuiAssumption DEF StartLooks, GInv, Known, KnownTo, TypeOK

\* A lock is given up after its session has detached and never while IDA closes
\* the database or exits (an unload at idle does give it up, the database still
\* open), and a reloaded provider never takes its own registration for that of
\* another one.
THEOREM KeptRegistrations == Spec => RegistrationIsKept
  <1>1. GInv /\ [Next]_vars =>
          [\A r \in Registrations : Held(r) /\ ~Held(r)' =>
             /\ names[r].by \notin attached'
             /\ kernel \in {"closing", "exiting"} => kernel' = "gone"]_vars
    BY LocksAtStep
  <1>2. GInv /\ [Next]_vars =>
          [\A p \in Providers, r \in Registrations :
             p \in external' \ external /\ Live(r) /\ names[r].of = db => names[r].by # p]_vars
    BY BackingOff
  <1>3. Spec => LocksOutliveDatabases
    BY <1>1, GuiInvariant, PTL DEF LocksOutliveDatabases, Spec
  <1>4. Spec => ReloadNeverBacksOff
    BY <1>2, GuiInvariant, PTL DEF ReloadNeverBacksOff, Spec
  <1> QED
    BY <1>3, <1>4 DEF RegistrationIsKept

-----------------------------------------------------------------------------
(* The threads of the HTTP service *)

\* The states in which a worker has a connection.
Holding == {"taken", "serving", "shutting"}

Core == /\ PoolTypeOK
        /\ IsFiniteSet(Running)
        /\ CountsExact
        /\ \A w \in Workers : worker[w] \in Holding => item[w] # Stop

-----------------------------------------------------------------------------
(* Types and counters *)

\* The counters start at the prewarmed workers.
LEMMA CoreInit == PoolInit => Core
  <1> SUFFICES ASSUME PoolInit PROVE Core
    OBVIOUS
  <1>1. PICK started \in SUBSET Workers :
          /\ IsFiniteSet(started) /\ Cardinality(started) = Prewarm
          /\ worker = [w \in Workers |-> IF w \in started THEN "top" ELSE "none"]
    BY DEF PoolInit
  <1>2. Running = started /\ Idle = {}
    BY <1>1 DEF Running, Idle
  <1>3. Cardinality(started) \in Nat
    BY <1>1, FS_CardinalityType
  <1>4. IsFiniteSet(Running) /\ CountsExact
    BY <1>1, <1>2, FS_EmptySet DEF CountsExact, PoolInit
  <1>5. PoolTypeOK
    <2>1. worker \in [Workers -> WorkerStates]
      BY <1>1 DEF WorkerStates
    <2>2. count \in Nat
      BY <1>1, <1>3 DEF PoolInit
    <2>3. requests \in Seq(Conns \cup {Stop})
      BY EmptySeq DEF PoolInit
    <2> QED
      BY <2>1, <2>2, <2>3 DEF PoolInit, PoolTypeOK, Statuses, CloserStates
  <1> QED
    BY <1>1, <1>4, <1>5 DEF Core, Holding

\* How a step of a worker changes the sets that are counted.
LEMMA WorkerMoves ==
  ASSUME PoolTypeOK, NEW w \in Workers, NEW from, NEW to \in WorkerStates,
         WorkerAt(w, from, to)
  PROVE  /\ worker' \in [Workers -> WorkerStates]
         /\ worker[w] = from /\ worker'[w] = to
         /\ \A v \in Workers : v # w => worker'[v] = worker[v]
         /\ Running' = IF to \in {"none", "gone"} THEN Running \ {w} ELSE Running \cup {w}
         /\ Idle' = IF to \in {"waiting", "got"} THEN Idle \cup {w} ELSE Idle \ {w}
         /\ w \in Running <=> from \notin {"none", "gone"}
         /\ w \in Idle <=> from \in {"waiting", "got"}
  BY DEF PoolTypeOK, WorkerAt, Running, Idle

\* What follows for the counters.
LEMMA Counting ==
  ASSUME Core, NEW w \in Workers, NEW from, NEW to \in WorkerStates,
         WorkerAt(w, from, to)
  PROVE  /\ IsFiniteSet(Running')
         /\ count + (IF to \in {"none", "gone"} THEN 0 ELSE 1)
              - (IF from \in {"none", "gone"} THEN 0 ELSE 1) = Cardinality(Running')
         /\ idle + (IF to \in {"waiting", "got"} THEN 1 ELSE 0)
              - (IF from \in {"waiting", "got"} THEN 1 ELSE 0) = Cardinality(Idle')
         /\ Cardinality(Running') \in Nat /\ Cardinality(Idle') \in Nat
  <1>1. IsFiniteSet(Idle)
    BY FS_Subset DEF Core, Running, Idle
  <1>2. /\ IsFiniteSet(Running \cup {w}) /\ IsFiniteSet(Running \ {w})
        /\ IsFiniteSet(Idle \cup {w}) /\ IsFiniteSet(Idle \ {w})
        /\ Cardinality(Running \cup {w}) = IF w \in Running THEN Cardinality(Running)
                                           ELSE Cardinality(Running) + 1
        /\ Cardinality(Running \ {w}) = IF w \in Running THEN Cardinality(Running) - 1
                                        ELSE Cardinality(Running)
        /\ Cardinality(Idle \cup {w}) = IF w \in Idle THEN Cardinality(Idle)
                                        ELSE Cardinality(Idle) + 1
        /\ Cardinality(Idle \ {w}) = IF w \in Idle THEN Cardinality(Idle) - 1
                                     ELSE Cardinality(Idle)
    BY <1>1, FS_AddElement, FS_RemoveElement DEF Core
  <1>3. count \in Nat /\ idle \in Nat /\ count = Cardinality(Running) /\ idle = Cardinality(Idle)
    BY DEF Core, PoolTypeOK, CountsExact
  <1>4. PoolTypeOK
    BY DEF Core
  <1>5. /\ Running' = IF to \in {"none", "gone"} THEN Running \ {w} ELSE Running \cup {w}
        /\ Idle' = IF to \in {"waiting", "got"} THEN Idle \cup {w} ELSE Idle \ {w}
        /\ w \in Running <=> from \notin {"none", "gone"}
        /\ w \in Idle <=> from \in {"waiting", "got"}
    BY <1>4, WorkerMoves
  <1>6. IsFiniteSet(Running') /\ IsFiniteSet(Idle')
    BY <1>2, <1>5
  <1>7. Cardinality(Running') \in Nat /\ Cardinality(Idle') \in Nat
    BY <1>6, FS_CardinalityType
  <1>8. count + (IF to \in {"none", "gone"} THEN 0 ELSE 1)
           - (IF from \in {"none", "gone"} THEN 0 ELSE 1) = Cardinality(Running')
    <2>1. CASE to \in {"none", "gone"}
      BY <1>2, <1>3, <1>5, <2>1
    <2>2. CASE to \notin {"none", "gone"}
      BY <1>2, <1>3, <1>5, <2>2
    <2> QED
      BY <2>1, <2>2
  <1>9. idle + (IF to \in {"waiting", "got"} THEN 1 ELSE 0)
           - (IF from \in {"waiting", "got"} THEN 1 ELSE 0) = Cardinality(Idle')
    <2>1. CASE to \in {"waiting", "got"}
      BY <1>2, <1>3, <1>5, <2>1
    <2>2. CASE to \notin {"waiting", "got"}
      BY <1>2, <1>3, <1>5, <2>2
    <2> QED
      BY <2>1, <2>2
  <1> QED
    BY <1>6, <1>7, <1>8, <1>9

\* Steps that move no worker keep Core.
LEMMA CoreStutters ==
  ASSUME Core, UNCHANGED <<worker, count, idle, item>>,
         requests' \in Seq(Conns \cup {Stop}), closing' \in BOOLEAN,
         active' \subseteq Conns, status' \in [Conns -> Statuses],
         closer' \in CloserStates, doomed' \subseteq Conns, cut' \subseteq Conns
  PROVE  Core'
  BY DEF Core, PoolTypeOK, CountsExact, Running, Idle

\* No path through process_request, the loop of a worker or server_close
\* counts a worker wrongly.
LEMMA CoreStep == Core /\ [PoolNext]_poolVars => Core'
  <1> SUFFICES ASSUME Core, [PoolNext]_poolVars PROVE Core'
    OBVIOUS
  <1>0. PoolTypeOK
    BY DEF Core
  <1>1. ASSUME NEW c \in Conns, Accept(c) PROVE Core'
    <2>1. CASE UNCHANGED <<count, worker>>
      <3>1. requests' \in Seq(Conns \cup {Stop})
        <4>1. requests' = requests \/ requests' = Append(requests, c)
          BY <1>1, Zenon DEF Accept
        <4>2. requests \in Seq(Conns \cup {Stop}) /\ c \in Conns \cup {Stop}
          BY <1>0 DEF PoolTypeOK
        <4> QED
          BY <4>1, <4>2, AppendProperties
      <3>2. status' \in [Conns -> Statuses]
        BY <1>0, <1>1 DEF Accept, PoolTypeOK, Statuses
      <3>3. UNCHANGED <<idle, closing, active, item, closer, doomed, cut>>
        BY <1>1 DEF Accept, closeVars
      <3> QED
        BY <1>0, <2>1, <3>1, <3>2, <3>3, CoreStutters DEF PoolTypeOK
    <2>2. CASE ~UNCHANGED <<count, worker>>
      <3>1. PICK w \in Workers : count' = count + 1 /\ WorkerAt(w, "none", "top")
        BY <1>1, <2>2 DEF Accept, StartsWorker
      <3>2. /\ IsFiniteSet(Running')
            /\ count' = Cardinality(Running') /\ idle = Cardinality(Idle')
            /\ worker' \in [Workers -> WorkerStates]
            /\ \A v \in Workers : worker'[v] \in Holding => worker[v] \in Holding
        BY <1>0, <3>1, Counting, WorkerMoves DEF WorkerStates, Holding, PoolTypeOK, Core
      <3>3. requests' \in Seq(Conns \cup {Stop})
        <4>1. requests \in Seq(Conns \cup {Stop}) /\ c \in Conns \cup {Stop}
          BY <1>0 DEF PoolTypeOK
        <4>2. requests' = requests \/ requests' = Append(requests, c)
          BY <1>1 DEF Accept
        <4> QED
          BY <4>1, <4>2, AppendProperties
      <3> QED
        BY <1>0, <1>1, <3>1, <3>2, <3>3 DEF Accept, Core, PoolTypeOK, CountsExact, Statuses, closeVars
    <2> QED
      BY <2>1, <2>2
  <1>2. ASSUME NEW w \in Workers, WorkerEnters(w) PROVE Core'
    <2>1. PICK to \in {"gone", "waiting"} :
            /\ WorkerAt(w, "top", to)
            /\ count' = count - (IF to = "gone" THEN 1 ELSE 0)
            /\ idle' = idle + (IF to = "waiting" THEN 1 ELSE 0)
      BY <1>0, <1>2 DEF WorkerEnters, PoolTypeOK
    <2>2. /\ IsFiniteSet(Running')
          /\ count' = Cardinality(Running') /\ idle' = Cardinality(Idle')
          /\ count' \in Nat /\ idle' \in Nat
          /\ worker' \in [Workers -> WorkerStates]
          /\ \A v \in Workers : worker'[v] \in Holding => worker[v] \in Holding
      BY <1>0, <2>1, Counting, WorkerMoves DEF WorkerStates, Holding, PoolTypeOK, Core
    <2> QED
      BY <1>0, <1>2, <2>2 DEF WorkerEnters, Core, PoolTypeOK, CountsExact, closeVars
  <1>3. ASSUME NEW w \in Workers, WorkerGets(w) PROVE Core'
    <2>1. /\ IsFiniteSet(Running')
          /\ count = Cardinality(Running') /\ idle = Cardinality(Idle')
          /\ worker' \in [Workers -> WorkerStates]
          /\ \A v \in Workers : worker'[v] \in Holding => worker[v] \in Holding /\ v # w
      BY <1>0, <1>3, Counting, WorkerMoves DEF WorkerGets, WorkerStates, Holding, PoolTypeOK, Core
    <2>2. Head(requests) \in Conns \cup {Stop} /\ requests' \in Seq(Conns \cup {Stop})
      BY <1>0, <1>3, HeadTailProperties DEF WorkerGets, PoolTypeOK
    <2>3. status' \in [Conns -> Statuses]
      BY <1>0, <1>3 DEF WorkerGets, PoolTypeOK, Statuses
    <2>4. item' \in [Workers -> Conns \cup {Stop}]
          /\ \A v \in Workers : v # w => item'[v] = item[v]
      BY <1>0, <1>3, <2>2 DEF WorkerGets, PoolTypeOK
    <2> QED
      BY <1>0, <1>3, <2>1, <2>2, <2>3, <2>4 DEF WorkerGets, Core, PoolTypeOK, CountsExact, closeVars
  <1>4. ASSUME NEW w \in Workers, WorkerCounts(w) PROVE Core'
    <2>1. PICK to \in {"stopping", "taken"} :
            WorkerAt(w, "got", to) /\ (to = "taken" => item[w] # Stop)
      BY <1>4 DEF WorkerCounts
    <2>2. /\ IsFiniteSet(Running')
          /\ count = Cardinality(Running') /\ idle' = Cardinality(Idle')
          /\ idle' \in Nat
          /\ worker' \in [Workers -> WorkerStates]
          /\ \A v \in Workers : worker'[v] \in Holding => worker[v] \in Holding \/ item[v] # Stop
      BY <1>0, <1>4, <2>1, Counting, WorkerMoves
         DEF WorkerCounts, WorkerStates, Holding, PoolTypeOK, Core
    <2> QED
      BY <1>0, <1>4, <2>2 DEF WorkerCounts, Core, PoolTypeOK, CountsExact, closeVars
  <1>5. ASSUME NEW w \in Workers, WorkerStops(w) PROVE Core'
    <2>1. /\ IsFiniteSet(Running')
          /\ count' = Cardinality(Running') /\ idle = Cardinality(Idle')
          /\ count' \in Nat
          /\ worker' \in [Workers -> WorkerStates]
          /\ \A v \in Workers : worker'[v] \in Holding => worker[v] \in Holding
      BY <1>0, <1>5, Counting, WorkerMoves DEF WorkerStops, WorkerStates, Holding, PoolTypeOK, Core
    <2> QED
      BY <1>0, <1>5, <2>1 DEF WorkerStops, Core, PoolTypeOK, CountsExact, closeVars
  <1>6. ASSUME NEW w \in Workers, WorkerAdmits(w) PROVE Core'
    <2>1. PICK to \in {"top", "serving"} : WorkerAt(w, "taken", to)
      BY <1>6 DEF WorkerAdmits
    <2>2. /\ IsFiniteSet(Running')
          /\ count = Cardinality(Running') /\ idle = Cardinality(Idle')
          /\ worker' \in [Workers -> WorkerStates]
          /\ worker[w] = "taken" /\ worker'[w] = to
          /\ \A v \in Workers : v # w => worker'[v] = worker[v]
      BY <1>0, <2>1, Counting, WorkerMoves DEF WorkerStates, PoolTypeOK, Core
    <2>3. item[w] \in Conns
      BY <1>0, <2>2 DEF Core, PoolTypeOK, Holding
    <2>4. CASE closing
      BY <1>0, <1>6, <2>2, <2>3, <2>4 DEF WorkerAdmits, WorkerAt, Core, PoolTypeOK, CountsExact,
         Holding, Statuses, closeVars
    <2>5. CASE ~closing
      BY <1>0, <1>6, <2>2, <2>3, <2>5 DEF WorkerAdmits, WorkerAt, Core, PoolTypeOK, CountsExact,
         Holding, Statuses, closeVars
    <2> QED
      BY <2>4, <2>5
  <1>7. ASSUME NEW w \in Workers, WorkerFinishes(w) PROVE Core'
    <2>1. /\ IsFiniteSet(Running')
          /\ count = Cardinality(Running') /\ idle = Cardinality(Idle')
          /\ worker' \in [Workers -> WorkerStates]
          /\ \A v \in Workers : worker'[v] \in Holding => worker[v] \in Holding
      BY <1>0, <1>7, Counting, WorkerMoves DEF WorkerFinishes, WorkerStates, Holding, PoolTypeOK, Core
    <2> QED
      BY <1>0, <1>7, <2>1 DEF WorkerFinishes, Core, PoolTypeOK, CountsExact, closeVars
  <1>8. ASSUME NEW w \in Workers, WorkerShuts(w) PROVE Core'
    <2>1. /\ IsFiniteSet(Running')
          /\ count = Cardinality(Running') /\ idle = Cardinality(Idle')
          /\ worker' \in [Workers -> WorkerStates]
          /\ \A v \in Workers : worker'[v] \in Holding => worker[v] \in Holding /\ v # w
      BY <1>0, <1>8, Counting, WorkerMoves DEF WorkerShuts, WorkerStates, Holding, PoolTypeOK, Core
    <2> QED
      BY <1>0, <1>8, <2>1 DEF WorkerShuts, Core, PoolTypeOK, CountsExact, Statuses, closeVars
  <1>9. CASE CloseStarts
    <2>1. requests' \in Seq(Conns \cup {Stop})
      BY <1>0, <1>9, IsASeq DEF CloseStarts, PoolTypeOK
    <2> QED
      BY <1>0, <1>9, <2>1, CoreStutters
         DEF CloseStarts, PoolTypeOK, Statuses, CloserStates, workerVars
  <1>10. CASE CloseCuts \/ CloseWaits \/ UNCHANGED poolVars
    BY <1>0, <1>10, CoreStutters
       DEF CloseCuts, CloseWaits, poolVars, workerVars, closeVars, PoolTypeOK, CloserStates
  <1> QED
    BY <1>1, <1>2, <1>3, <1>4, <1>5, <1>6, <1>7, <1>8, <1>9, <1>10
       DEF PoolNext, WorkerSteps, WorkerProgress, CloseSteps

\* Every reachable state is well typed and the counters are exact.
THEOREM CoreInvariant == PoolSpec => []Core
  BY CoreInit, CoreStep, PTL DEF PoolSpec

\* The type invariant.
THEOREM PoolTypeCorrect == PoolSpec => []PoolTypeOK
  <1>1. Core => PoolTypeOK
    BY DEF Core
  <1> QED
    BY <1>1, CoreInvariant, PTL

\* _worker_count and _idle_worker_count are the numbers they stand for, in
\* every interleaving of the listener, the workers and server_close.
THEOREM CountersAreExact == PoolSpec => []CountsExact
  <1>1. Core => CountsExact
    BY DEF Core
  <1> QED
    BY <1>1, CoreInvariant, PTL

-----------------------------------------------------------------------------
(* Connections *)

\* The queue has queued connections, each once.
QueueKept ==
  \A i \in 1..Len(requests) : requests[i] # Stop =>
    /\ requests[i] \in Conns /\ status[requests[i]] = "queued"
    /\ \A j \in 1..Len(requests) : i # j => requests[j] # requests[i]

\* A worker between the queue and the top of its loop has an item.
Has(w) == worker[w] \in Holding \cup {"got"} /\ item[w] # Stop

\* A connection that left the queue is with one worker, and one that is served
\* is among the active connections.
InOnePlace ==
  /\ \A w \in Workers : Has(w) => status[item[w]] \in {"taken", "serving"}
  /\ \A v, w \in Workers : Has(v) /\ Has(w) /\ v # w => item[v] # item[w]
  /\ \A w \in Workers : worker[w] = "serving" => item[w] \in active

\* After server_close began no connection is queued or admitted, and what was
\* active then is doomed, and cut before it waits.
ClosingKept ==
  /\ closing <=> closer # "idle"
  /\ closing => \A c \in Conns : status[c] # "queued"
  /\ closer = "cutting" => \A w \in Workers : worker[w] = "serving" => item[w] \in doomed
  /\ closer \in {"waiting", "done"} =>
       \A w \in Workers : worker[w] = "serving" => item[w] \in cut

PoolInv == Core /\ QueueKept /\ InOnePlace /\ ClosingKept

LEMMA PoolInvInit == PoolInit => PoolInv
  <1> SUFFICES ASSUME PoolInit PROVE PoolInv
    OBVIOUS
  <1>1. PICK started \in SUBSET Workers :
          worker = [w \in Workers |-> IF w \in started THEN "top" ELSE "none"]
    BY DEF PoolInit
  <1>2. \A w \in Workers : worker[w] \in {"top", "none"}
    BY <1>1
  <1>3. QueueKept
    BY DEF PoolInit, QueueKept
  <1>4. InOnePlace
    BY <1>2 DEF InOnePlace, Has, Holding
  <1>5. ClosingKept
    BY <1>2 DEF PoolInit, ClosingKept
  <1> QED
    BY <1>3, <1>4, <1>5, CoreInit DEF PoolInv

\* A step of one worker, as the other workers see it.
LEMMA OneMoves ==
  ASSUME PoolTypeOK, NEW w \in Workers, NEW from, NEW to, WorkerAt(w, from, to)
  PROVE  /\ worker[w] = from /\ worker'[w] = to
         /\ \A v \in Workers : v # w => worker'[v] = worker[v]
  BY DEF WorkerAt, PoolTypeOK

LEMMA QueueStep ==
  ASSUME PoolInv, [PoolNext]_poolVars
  PROVE  QueueKept'
  <1>0. PoolTypeOK /\ QueueKept /\ InOnePlace
    BY DEF PoolInv, Core
  <1>1. ASSUME NEW c \in Conns, Accept(c) PROVE QueueKept'
    <2>1. CASE closing
      <3>1. requests' = requests /\ status[c] = "new" /\ \A d \in Conns : d # c => status'[d] = status[d]
        BY <1>0, <1>1, <2>1 DEF Accept, PoolTypeOK
      <3> QED
        BY <1>0, <3>1 DEF QueueKept
    <2>2. CASE ~closing
      <3>1. /\ requests' = Append(requests, c) /\ status[c] = "new" /\ status'[c] = "queued"
            /\ \A d \in Conns : d # c => status'[d] = status[d]
        BY <1>0, <1>1, <2>2 DEF Accept, PoolTypeOK
      <3>2. /\ Len(requests') = Len(requests) + 1 /\ Len(requests) \in Nat
            /\ requests'[Len(requests) + 1] = c
            /\ \A i \in 1..Len(requests) : requests'[i] = requests[i]
        BY <1>0, <3>1, AppendProperties, LenProperties DEF PoolTypeOK
      <3>3. \A i \in 1..Len(requests) : requests[i] # Stop => requests[i] # c
        BY <1>0, <3>1 DEF QueueKept
      <3>4. ASSUME NEW i \in 1..Len(requests'), requests'[i] # Stop
            PROVE  /\ requests'[i] \in Conns /\ status'[requests'[i]] = "queued"
                   /\ \A j \in 1..Len(requests') : i # j => requests'[j] # requests'[i]
        <4>1. CASE i = Len(requests) + 1
          <5>1. \A j \in 1..Len(requests) : requests[j] # c
            BY <3>2, <3>3, <3>4, <4>1
          <5> QED
            BY <3>1, <3>2, <4>1, <5>1
        <4>2. CASE i \in 1..Len(requests)
          <5>1. requests'[i] = requests[i] /\ requests[i] # c
            BY <3>2, <3>3, <3>4, <4>2
          <5>2. /\ requests[i] \in Conns /\ status[requests[i]] = "queued"
                /\ \A j \in 1..Len(requests) : i # j => requests[j] # requests[i]
            BY <1>0, <3>4, <4>2, <5>1 DEF QueueKept
          <5>3. \A j \in 1..Len(requests') : i # j => requests'[j] # requests'[i]
            BY <3>2, <4>2, <5>1, <5>2
          <5> QED
            BY <3>1, <5>1, <5>2, <5>3
        <4> QED
          BY <3>2, <4>1, <4>2
      <3> QED
        BY <3>4 DEF QueueKept
    <2> QED
      BY <2>1, <2>2
  <1>2. ASSUME NEW w \in Workers, WorkerGets(w) PROVE QueueKept'
    <2>1. /\ requests # <<>> /\ requests' = Tail(requests)
          /\ status' = IF Head(requests) = Stop THEN status
                       ELSE [status EXCEPT ![Head(requests)] = "taken"]
      BY <1>2 DEF WorkerGets
    <2>2. /\ Len(requests) \in Nat /\ Len(requests) # 0 /\ Head(requests) = requests[1]
          /\ Len(requests') = Len(requests) - 1
          /\ \A i \in 1..Len(requests') : requests'[i] = requests[i + 1]
      BY <1>0, <2>1, HeadTailProperties, LenProperties, EmptySeq DEF PoolTypeOK
    <2>3. ASSUME NEW i \in 1..Len(requests'), requests'[i] # Stop
          PROVE  /\ requests'[i] \in Conns /\ status'[requests'[i]] = "queued"
                 /\ \A j \in 1..Len(requests') : i # j => requests'[j] # requests'[i]
      <3>1. i + 1 \in 1..Len(requests) /\ 1 \in 1..Len(requests) /\ i + 1 # 1 /\ requests'[i] = requests[i + 1]
        BY <2>2, <2>3
      <3>2. /\ requests[i + 1] \in Conns /\ status[requests[i + 1]] = "queued"
            /\ \A j \in 1..Len(requests) : i + 1 # j => requests[j] # requests[i + 1]
        BY <1>0, <2>3, <3>1 DEF QueueKept
      <3>3. requests[i + 1] # Head(requests)
        BY <2>2, <3>1, <3>2
      <3>4. status'[requests'[i]] = "queued"
        BY <1>0, <2>1, <3>1, <3>2, <3>3 DEF PoolTypeOK
      <3>5. ASSUME NEW j \in 1..Len(requests'), i # j PROVE requests'[j] # requests'[i]
        <4>1. j + 1 \in 1..Len(requests) /\ j + 1 # i + 1 /\ requests'[j] = requests[j + 1]
          BY <2>2, <3>5
        <4> QED
          BY <3>1, <3>2, <4>1
      <3> QED
        BY <3>1, <3>2, <3>4, <3>5
    <2> QED
      BY <2>3 DEF QueueKept
  <1>3. ASSUME NEW w \in Workers, WorkerAdmits(w) \/ WorkerShuts(w) PROVE QueueKept'
    <2>1. worker[w] \in {"taken", "shutting"} /\ requests' = requests
      BY <1>3 DEF WorkerAdmits, WorkerShuts, WorkerAt
    <2>2. item[w] # Stop /\ item[w] \in Conns
      BY <1>0, <2>1 DEF PoolInv, Core, Holding, PoolTypeOK
    <2>3. status[item[w]] # "queued"
      BY <1>0, <2>1, <2>2 DEF InOnePlace, Has, Holding
    <2>4. \A d \in Conns : d # item[w] => status'[d] = status[d]
      BY <1>0, <1>3 DEF WorkerAdmits, WorkerShuts, PoolTypeOK
    <2> QED
      BY <1>0, <2>1, <2>3, <2>4 DEF QueueKept
  <1>4. CASE CloseStarts
    <2>1. count \in Nat /\ requests' = [i \in 1..count |-> Stop]
      BY <1>0, <1>4 DEF CloseStarts, PoolTypeOK
    <2>2. Len(requests') = count
      BY <2>1
    <2> QED
      BY <2>1, <2>2 DEF QueueKept
  <1>5. CASE UNCHANGED <<requests, status>>
    BY <1>0, <1>5 DEF QueueKept
  <1>6. ASSUME NEW w \in Workers,
               WorkerEnters(w) \/ WorkerCounts(w) \/ WorkerStops(w) \/ WorkerFinishes(w)
        PROVE  QueueKept'
    BY <1>5, <1>6 DEF WorkerEnters, WorkerCounts, WorkerStops, WorkerFinishes
  <1>7. CASE CloseCuts \/ CloseWaits \/ UNCHANGED poolVars
    BY <1>5, <1>7 DEF CloseCuts, CloseWaits, poolVars
  <1> QED
    BY <1>1, <1>2, <1>3, <1>4, <1>6, <1>7 DEF PoolNext, WorkerSteps, WorkerProgress, CloseSteps

LEMMA PlaceStep ==
  ASSUME PoolInv, [PoolNext]_poolVars
  PROVE  InOnePlace'
  <1>0. PoolTypeOK /\ QueueKept /\ InOnePlace /\ \A w \in Workers : worker[w] \in Holding => item[w] # Stop
    BY DEF PoolInv, Core
  <1>1. ASSUME NEW c \in Conns, Accept(c) PROVE InOnePlace'
    <2>1. /\ UNCHANGED <<item, active>> /\ status[c] = "new"
          /\ \A d \in Conns : d # c => status'[d] = status[d]
      BY <1>0, <1>1 DEF Accept, PoolTypeOK
    <2>2. \A w \in Workers : worker'[w] = worker[w] \/ (worker[w] = "none" /\ worker'[w] = "top")
      BY <1>0, <1>1, OneMoves DEF Accept, StartsWorker, PoolTypeOK
    <2>3. \A w \in Workers : Has(w)' => Has(w)
      BY <2>1, <2>2 DEF Has, Holding
    <2>4. \A w \in Workers : Has(w) => item[w] # c /\ item[w] \in Conns
      BY <1>0, <2>1 DEF InOnePlace, Has, PoolTypeOK
    <2> QED
      BY <1>0, <2>1, <2>2, <2>3, <2>4 DEF InOnePlace
  <1>2. ASSUME NEW w \in Workers, WorkerGets(w) PROVE InOnePlace'
    <2>1. /\ worker[w] = "waiting" /\ worker'[w] = "got" /\ active' = active
          /\ \A v \in Workers : v # w => worker'[v] = worker[v]
      BY <1>0, <1>2, OneMoves DEF WorkerGets
    <2>2. item'[w] = Head(requests) /\ \A v \in Workers : v # w => item'[v] = item[v]
      BY <1>0, <1>2 DEF WorkerGets, PoolTypeOK
    <2>3. \A v \in Workers : v # w => (Has(v)' <=> Has(v))
      BY <2>1, <2>2 DEF Has
    <2>4. CASE Head(requests) = Stop
      <3>1. status' = status /\ ~Has(w)'
        BY <1>2, <2>2, <2>4 DEF WorkerGets, Has
      <3> QED
        BY <1>0, <2>1, <2>2, <2>3, <3>1 DEF InOnePlace
    <2>5. CASE Head(requests) # Stop
      <3>1. Len(requests) \in Nat /\ Len(requests) # 0 /\ Head(requests) = requests[1]
        BY <1>0, <1>2, HeadTailProperties, LenProperties, EmptySeq DEF WorkerGets, PoolTypeOK
      <3>2. Head(requests) \in Conns /\ status[Head(requests)] = "queued"
        BY <1>0, <2>5, <3>1 DEF QueueKept
      <3>3. /\ status'[Head(requests)] = "taken"
            /\ \A d \in Conns : d # Head(requests) => status'[d] = status[d]
        BY <1>0, <1>2, <2>5, <3>2 DEF WorkerGets, PoolTypeOK
      <3>4. \A v \in Workers : Has(v) => item[v] # Head(requests) /\ item[v] \in Conns
        BY <1>0, <3>2 DEF InOnePlace, Has, PoolTypeOK
      <3> QED
        BY <1>0, <2>1, <2>2, <2>3, <3>2, <3>3, <3>4 DEF InOnePlace
    <2> QED
      BY <2>4, <2>5
  <1>3. ASSUME NEW w \in Workers, WorkerAdmits(w) PROVE InOnePlace'
    <2>1. worker[w] = "taken" /\ \A v \in Workers : v # w => worker'[v] = worker[v]
      BY <1>0, <1>3, OneMoves DEF WorkerAdmits
    <2>2. Has(w) /\ item[w] \in Conns
      BY <1>0, <2>1 DEF Has, Holding, PoolTypeOK
    <2>3. \A v \in Workers : Has(v) /\ v # w => item[v] # item[w] /\ item[v] \in Conns
      BY <1>0, <2>2 DEF InOnePlace, Has, PoolTypeOK
    <2>4. \A d \in Conns : d # item[w] => status'[d] = status[d]
      BY <1>0, <1>3 DEF WorkerAdmits, PoolTypeOK
    <2>5. CASE closing
      <3>1. worker'[w] = "top" /\ active' = active /\ \A v \in Workers : v # w => item'[v] = item[v]
        BY <1>0, <1>3, <2>5, OneMoves DEF WorkerAdmits, PoolTypeOK
      <3>2. ~Has(w)' /\ \A v \in Workers : v # w => (Has(v)' <=> Has(v))
        BY <2>1, <3>1 DEF Has, Holding
      <3> QED
        BY <1>0, <2>1, <2>3, <2>4, <3>1, <3>2 DEF InOnePlace
    <2>6. CASE ~closing
      <3>1. /\ worker'[w] = "serving" /\ item' = item /\ active' = active \cup {item[w]}
            /\ status'[item[w]] = "serving"
        BY <1>0, <1>3, <2>2, <2>6, OneMoves DEF WorkerAdmits, PoolTypeOK
      <3>2. \A v \in Workers : Has(v)' <=> Has(v)
        BY <2>1, <2>2, <3>1 DEF Has, Holding
      <3> QED
        BY <1>0, <2>1, <2>3, <2>4, <3>1, <3>2 DEF InOnePlace
    <2> QED
      BY <2>5, <2>6
  <1>4. ASSUME NEW w \in Workers, WorkerFinishes(w) PROVE InOnePlace'
    <2>1. /\ worker[w] = "serving" /\ worker'[w] = "shutting"
          /\ \A v \in Workers : v # w => worker'[v] = worker[v]
          /\ UNCHANGED <<item, status>> /\ active' = active \ {item[w]}
      BY <1>0, <1>4, OneMoves DEF WorkerFinishes
    <2>2. \A v \in Workers : Has(v)' <=> Has(v)
      BY <2>1 DEF Has, Holding
    <2>3. ASSUME NEW v \in Workers, worker'[v] = "serving" PROVE item[v] \in active'
      <3>1. v # w /\ worker[v] = "serving" /\ Has(v) /\ Has(w)
        BY <1>0, <2>1, <2>3 DEF Has, Holding
      <3> QED
        BY <1>0, <2>1, <3>1 DEF InOnePlace
    <2> QED
      BY <1>0, <2>1, <2>2, <2>3 DEF InOnePlace
  <1>5. ASSUME NEW w \in Workers, WorkerShuts(w) PROVE InOnePlace'
    <2>1. /\ worker[w] = "shutting" /\ worker'[w] = "top" /\ active' = active
          /\ \A v \in Workers : v # w => worker'[v] = worker[v] /\ item'[v] = item[v]
      BY <1>0, <1>5, OneMoves DEF WorkerShuts, PoolTypeOK
    <2>2. Has(w) /\ item[w] \in Conns
      BY <1>0, <2>1 DEF Has, Holding, PoolTypeOK
    <2>3. ~Has(w)' /\ \A v \in Workers : v # w => (Has(v)' <=> Has(v))
      BY <2>1 DEF Has, Holding
    <2>4. \A v \in Workers : Has(v) /\ v # w => item[v] # item[w] /\ item[v] \in Conns
      BY <1>0, <2>2 DEF InOnePlace, Has, PoolTypeOK
    <2>5. \A d \in Conns : d # item[w] => status'[d] = status[d]
      BY <1>0, <1>5 DEF WorkerShuts, PoolTypeOK
    <2> QED
      BY <1>0, <2>1, <2>3, <2>4, <2>5 DEF InOnePlace
  <1>6. ASSUME NEW w \in Workers, WorkerEnters(w) \/ WorkerCounts(w) \/ WorkerStops(w)
        PROVE  InOnePlace'
    <2>1. /\ UNCHANGED <<item, status, active>>
          /\ worker'[w] \in {"gone", "waiting", "stopping", "taken"}
          /\ worker'[w] = "taken" => worker[w] = "got"
          /\ \A v \in Workers : v # w => worker'[v] = worker[v]
      BY <1>0, <1>6, OneMoves DEF WorkerEnters, WorkerCounts, WorkerStops
    <2>2. \A v \in Workers : Has(v)' => Has(v)
      BY <2>1 DEF Has, Holding
    <2> QED
      BY <1>0, <2>1, <2>2 DEF InOnePlace
  <1>7. CASE CloseStarts
    <2>1. UNCHANGED <<item, worker, active>> /\ \A c \in Conns : status[c] # "queued" => status'[c] = status[c]
      BY <1>7 DEF CloseStarts, workerVars
    <2>2. \A v \in Workers : Has(v) => item[v] \in Conns
      BY <1>0 DEF Has, PoolTypeOK
    <2> QED
      BY <1>0, <2>1, <2>2 DEF InOnePlace, Has
  <1>8. CASE CloseCuts \/ CloseWaits \/ UNCHANGED poolVars
    <2>1. UNCHANGED <<item, worker, active, status>>
      BY <1>8 DEF CloseCuts, CloseWaits, poolVars, workerVars
    <2> QED
      BY <1>0, <2>1 DEF InOnePlace, Has
  <1> QED
    BY <1>1, <1>2, <1>3, <1>4, <1>5, <1>6, <1>7, <1>8 DEF PoolNext, WorkerSteps, WorkerProgress, CloseSteps

LEMMA ClosingStep ==
  ASSUME PoolInv, [PoolNext]_poolVars
  PROVE  ClosingKept'
  <1>0. PoolTypeOK /\ InOnePlace /\ ClosingKept /\ \A w \in Workers : worker[w] \in Holding => item[w] # Stop
    BY DEF PoolInv, Core
  <1>1. ASSUME UNCHANGED <<closing, closer, doomed, cut>>,
               closing => \A c \in Conns : status'[c] = "queued" => status[c] = "queued",
               closing => \A w \in Workers : worker'[w] = "serving" =>
                            worker[w] = "serving" /\ item'[w] = item[w]
        PROVE  ClosingKept'
    BY <1>0, <1>1 DEF ClosingKept
  <1>2. ASSUME NEW c \in Conns, Accept(c) PROVE ClosingKept'
    <2>1. UNCHANGED <<closing, closer, doomed, cut, item>>
      BY <1>2 DEF Accept, closeVars
    <2>2. closing => worker' = worker /\ status' = [status EXCEPT ![c] = "shut"]
      BY <1>2 DEF Accept
    <2> QED
      BY <1>0, <1>1, <2>1, <2>2 DEF PoolTypeOK
  <1>3. ASSUME NEW w \in Workers, WorkerSteps(w) PROVE ClosingKept'
    <2>1. UNCHANGED <<closing, closer, doomed, cut>>
      BY <1>3 DEF WorkerSteps, WorkerProgress, WorkerEnters, WorkerGets, WorkerCounts, WorkerStops,
         WorkerAdmits, WorkerFinishes, WorkerShuts, closeVars
    <2>2. \A c \in Conns : status'[c] = "queued" => status[c] = "queued"
      BY <1>0, <1>3 DEF WorkerSteps, WorkerProgress, WorkerEnters, WorkerGets, WorkerCounts, WorkerStops,
         WorkerAdmits, WorkerFinishes, WorkerShuts, PoolTypeOK
    <2>3. closing => worker'[w] # "serving"
      BY <1>0, <1>3 DEF WorkerSteps, WorkerProgress, WorkerEnters, WorkerGets, WorkerCounts, WorkerStops,
         WorkerAdmits, WorkerFinishes, WorkerShuts, WorkerAt, PoolTypeOK
    <2>4. \A v \in Workers : v # w => worker'[v] = worker[v] /\ item'[v] = item[v]
      BY <1>0, <1>3 DEF WorkerSteps, WorkerProgress, WorkerEnters, WorkerGets, WorkerCounts, WorkerStops,
         WorkerAdmits, WorkerFinishes, WorkerShuts, WorkerAt, PoolTypeOK
    <2> QED
      BY <1>1, <2>1, <2>2, <2>3, <2>4
  <1>4. CASE CloseStarts
    <2>1. /\ closer' = "cutting" /\ closing' /\ doomed' = active /\ UNCHANGED <<worker, item>>
          /\ \A c \in Conns : status'[c] # "queued"
      BY <1>4 DEF CloseStarts, workerVars
    <2> QED
      BY <1>0, <2>1 DEF ClosingKept, InOnePlace
  <1>5. CASE CloseCuts \/ CloseWaits
    BY <1>0, <1>5 DEF CloseCuts, CloseWaits, workerVars, ClosingKept
  <1>6. CASE UNCHANGED poolVars
    BY <1>0, <1>6 DEF poolVars, workerVars, closeVars, ClosingKept
  <1> QED
    BY <1>2, <1>3, <1>4, <1>5, <1>6 DEF PoolNext, CloseSteps

\* A connection is in one place, and a service that closes cuts them all.
THEOREM PoolInvariant == PoolSpec => []PoolInv
  <1>1. PoolInv /\ [PoolNext]_poolVars => PoolInv'
    BY CoreStep, QueueStep, PlaceStep, ClosingStep DEF PoolInv
  <1> QED
    BY <1>1, PoolInvInit, PTL DEF PoolSpec

\* After server_close has begun, nothing is left in the queue and nothing slips
\* from the queue into a handler: what is still served has had its socket shut.
THEOREM ClosingIsComplete == PoolSpec => []ClosedLeavesNothing
  <1>1. PoolInv => ClosedLeavesNothing
    BY DEF PoolInv, ClosingKept, ClosedLeavesNothing
  <1> QED
    BY <1>1, PoolInvariant, PTL
=============================================================================
