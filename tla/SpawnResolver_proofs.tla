------------------------ MODULE SpawnResolver_proofs ------------------------
(***************************************************************************)
(* Safety of SpawnResolver for any number of resolvers (and the workers    *)
(* they start) and any set of edits.                                       *)
(*                                                                         *)
(* The invariant goes from the locks to the files:                         *)
(*   LocksHeld          types, and who holds the two locks                 *)
(*   GuardsRevoked      a worker that shows its database has no guard      *)
(*   FilesMatchLock     what is on disk while IDA has the database open    *)
(*   UnreadyAreAwaited  a worker no scan can see is waited for             *)
(*   AloneInLaunch      so the next launch has no other worker             *)
(*   Safe               no edit is lost, with what each launch still knows *)
(*                      of the files it looked at, unless it was overtaken *)
(*                                                                         *)
(* WorkPreserved is far from inductive: a discard, an open over leftovers  *)
(* and the save after a repair each destroy files because of what a        *)
(* resolver saw many steps earlier.  The parts of Safe say what of that    *)
(* still holds.  One thing carries them all: while a launch is pending no  *)
(* one else has the database open (LaunchesAreAlone), since whoever opens  *)
(* it then has overtaken the launch.                                       *)
(***************************************************************************)
EXTENDS SpawnResolver, TLAPS

\* Where a resolver is once it has started its worker.
Launched == {"awaiting", "polling", "failing", "checking", "discarding",
             "leaving", "done", "dead"}

\* A worker whose open has succeeded, before clients can reach it and after.
Exposed == {"disarmed", "serving", "draining", "unpublished", "closed"}

LocksHeld ==
    /\ TypeOK
    /\ id0Lock = Other <=> other \in {"open", "registered"}

\* A resolver starts one worker, once; _disarm_startup_cleanup comes before
\* everything a client could notice.
GuardsRevoked ==
    \A w \in Resolvers :
        /\ worker[w] # "none" => pc[w] \in Launched
        /\ worker[w] \in Exposed => ~guard[w]

FilesMatchLock ==
    /\ unpacked.state \in {"none", "damaged"} => unpacked.work = {}
    /\ id0Lock # Nobody => unpacked.state = "dirty"

UnreadyAreAwaited ==
    ~abandoned =>
        \A w \in Resolvers : Unready(w) => pc[w] \in {"awaiting", "polling"}

Pending(r) == pc[r] \in LaunchStates \/ worker[r] = "starting"

LaunchesAreAlone ==
    \A r \in Resolvers : Pending(r) => id0Lock \in {Nobody, r}

\* IDA may restore a packed base over crash leftovers or import afresh over
\* them: they hold nothing that is not saved.
LeftoversAreCopied ==
    \A r \in Resolvers :
        /\ pc[r] = "copying" => unpacked.state = "dirty"
        /\ pc[r] \in {"copied", "launching"} \/ worker[r] = "starting" =>
             (unpacked.state = "dirty" /\ (kind[r] = "fresh" \/ packed # Absent)
                => unpacked.work \subseteq Saved)

\* The save after a repair overwrites no packed IDB.
RepairsHaveNoBase ==
    \A r \in Resolvers :
        /\ saveOpen[r]
        /\ \/ pc[r] \in {"copying", "copied", "launching"}
           \/ worker[r] \in {"starting", "opening", "opened"}
        => packed = Absent

\* As long as the guard exists, the files that may be discarded hold nothing
\* that is not saved; a resolver that has seen the guard can rely on it.
DiscardsAreRedundant ==
    \A r \in Resolvers :
        /\ pc[r] \in LaunchStates /\ discard[r] /\ (guard[r] \/ worker[r] = "none")
             => unpacked.work \subseteq Saved /\ unpacked.state # "clean"
        /\ pc[r] \in {"checking", "discarding"} => guard[r] /\ discard[r]
        /\ pc[r] = "discarding" => worker[r] = "exited"

\* A close that packs loses nothing of the packed IDB it replaces.
BaseIsUnpacked ==
    id0Lock # Nobody \/ unpacked.state = "clean" => Base \subseteq unpacked.work

Safe ==
    ~raced =>
      /\ LaunchesAreAlone
      /\ LeftoversAreCopied
      /\ RepairsHaveNoBase
      /\ DiscardsAreRedundant
      /\ BaseIsUnpacked
      /\ edits \subseteq Kept

SpawnInv ==
    /\ LocksHeld
    /\ GuardsRevoked
    /\ FilesMatchLock
    /\ UnreadyAreAwaited
    /\ AloneInLaunch
    /\ Safe

-----------------------------------------------------------------------------
(* The two locks *)

\* At first both are free.
LEMMA LocksInit == Init => LocksHeld
  <1>1. NoUnpacked \in Unpacked
    BY DEF NoUnpacked, Unpacked
  <1>2. ASSUME Init PROVE LocksHeld
    <2>1. /\ pc \in [Resolvers -> ResolverStates]
          /\ worker \in [Resolvers -> WorkerStates]
          /\ \A r \in Resolvers : pc[r] \notin LockedStates /\ worker[r] \notin OpenStates
      BY <1>2 DEF Init, ResolverStates, WorkerStates, LockedStates, OpenStates
    <2> QED
      BY <1>1, <1>2, <2>1, ResolverAssumption DEF Init, LocksHeld, TypeOK
  <1> QED
    BY <1>2

\* A resolver takes the spawn lock when it is free and keeps it until it
\* leaves or dies; it never has the database open.
LEMMA ResolverLocks ==
  ASSUME LocksHeld, GuardsRevoked, NEW r \in Resolvers,
         \/ \E k \in {"attach", "open", "fresh"} : ResolveStarts(r, k)
         \/ ResolverProgress(r) \/ GivesUp(r) \/ AwaitTimesOut(r) \/ ResolverDies(r)
  PROVE  LocksHeld'
  <1> USE ResolverAssumption DEF LocksHeld, TypeOK, MovesTo, fileVars, LockedStates,
      OpenStates, ResolverStates, WorkerStates
  <1>0. ASSUME NEW k \in {"attach", "open", "fresh"}, ResolveStarts(r, k) PROVE LocksHeld'
    BY <1>0 DEF ResolveStarts
  <1>1. CASE FirstScan(r)
    BY <1>1 DEF FirstScan
  <1>2. CASE SpawnLockAcquired(r)
    BY <1>2 DEF SpawnLockAcquired
  <1>3. CASE SecondScan(r)
    BY <1>3 DEF SecondScan
  <1>4. CASE Probe(r)
    BY <1>4 DEF Probe
  <1>5. CASE BackupUnpacked(r)
    BY <1>5 DEF BackupUnpacked, Unpacked
  <1>6. CASE AfterBackup(r)
    BY <1>6 DEF AfterBackup
  <1>7. CASE GivesUp(r)
    BY <1>7 DEF GivesUp
  <1>8. CASE SpawnWorker(r)
    BY <1>8 DEF SpawnWorker, GuardsRevoked, Launched
  <1>9. CASE AwaitScans(r)
    BY <1>9 DEF AwaitScans
  <1>10. CASE AwaitPolls(r)
    BY <1>10 DEF AwaitPolls
  <1>11. CASE AwaitTimesOut(r)
    BY <1>11 DEF AwaitTimesOut
  <1>12. CASE LooksAtGuard(r)
    BY <1>12 DEF LooksAtGuard
  <1>13. CASE LooksAtExit(r)
    BY <1>13 DEF LooksAtExit
  <1>14. CASE DiscardExtraction(r)
    BY <1>14 DEF DiscardExtraction, Unpacked, NoUnpacked
  <1>15. CASE Leave(r)
    BY <1>15 DEF Leave, Unlocked
  <1>16. CASE ResolverDies(r)
    BY <1>16 DEF ResolverDies
  <1> QED
    BY <1>0, <1>1, <1>2, <1>3, <1>4, <1>5, <1>6, <1>7, <1>8, <1>9, <1>10, <1>11, <1>12, <1>13, <1>14, <1>15, <1>16 DEF ResolverProgress

\* A worker holds the lock of .id0 exactly while it has the database open.
LEMMA WorkerLocks ==
  ASSUME LocksHeld, NEW w \in Resolvers,
         \/ WorkerProgress(w) \/ \E e \in Edits : WorkerEdits(w, e)
         \/ WorkerDrains(w) \/ WorkerStartFails(w) \/ WorkerCrashes(w)
  PROVE  LocksHeld'
  <1> USE ResolverAssumption DEF LocksHeld, TypeOK, WorkerMoves, resolverVars, fileVars, LockedStates,
      OpenStates, ResolverStates, WorkerStates
  <1>a. ASSUME NEW e \in Edits, WorkerEdits(w, e) PROVE LocksHeld'
    BY <1>a DEF WorkerEdits, EditMade, Unpacked
  <1>b. ASSUME NEW save \in BOOLEAN, WorkerCloses(w, save) PROVE LocksHeld'
    BY <1>b DEF WorkerCloses, Closes, Unpacked, NoUnpacked
  <1>1. CASE WorkerOpens(w)
    BY <1>1 DEF WorkerOpens, Opens, WorkRestored, Unpacked
  <1>2. CASE WorkerOpened(w)
    BY <1>2 DEF WorkerOpened
  <1>3. CASE WorkerDisarms(w)
    BY <1>3 DEF WorkerDisarms, Unpacked
  <1>4. CASE WorkerPublishes(w)
    BY <1>4 DEF WorkerPublishes
  <1>5. CASE WorkerDrains(w)
    BY <1>5 DEF WorkerDrains
  <1>6. CASE WorkerStartFails(w)
    BY <1>6 DEF WorkerStartFails
  <1>7. CASE WorkerExits(w)
    BY <1>7 DEF WorkerExits
  <1>8. CASE WorkerFails(w)
    BY <1>8 DEF WorkerFails, TornExtraction, Unpacked, NoUnpacked
  <1>9. CASE WorkerCrashes(w)
    BY <1>9 DEF WorkerCrashes
  <1> QED
    BY <1>a, <1>b, <1>1, <1>2, <1>3, <1>4, <1>5, <1>6, <1>7, <1>8, <1>9 DEF WorkerProgress

\* So does the other IDA.
LEMMA OtherLocks ==
  ASSUME LocksHeld,
         \/ OtherOpens \/ OtherRegisters \/ \E e \in Edits : OtherEdits(e)
         \/ OtherCloses \/ OtherCrashes
  PROVE  LocksHeld'
  <1> USE ResolverAssumption DEF LocksHeld, TypeOK, OtherMoves, resolverVars, fileVars, LockedStates,
      OpenStates, ResolverStates, WorkerStates
  <1>a. ASSUME NEW e \in Edits, OtherEdits(e) PROVE LocksHeld'
    BY <1>a DEF OtherEdits, EditMade, Unpacked
  <1>1. CASE OtherOpens
    BY <1>1 DEF OtherOpens, Opens, WorkRestored, Unpacked
  <1>2. CASE OtherRegisters
    BY <1>2 DEF OtherRegisters
  <1>3. CASE OtherCloses
    BY <1>3 DEF OtherCloses, Closes, LeavesUnpacked, Unpacked, NoUnpacked
  <1>4. CASE OtherCrashes
    BY <1>4 DEF OtherCrashes
  <1> QED
    BY <1>a, <1>1, <1>2, <1>3, <1>4

-----------------------------------------------------------------------------
(* Guards, and the files while a database is open *)

\* Resolvers remove no files that are open, and guards are only made for a
\* worker that starts.
LEMMA ResolverFiles ==
  ASSUME LocksHeld, GuardsRevoked, FilesMatchLock, NEW r \in Resolvers,
         \/ \E k \in {"attach", "open", "fresh"} : ResolveStarts(r, k)
         \/ ResolverProgress(r) \/ GivesUp(r) \/ AwaitTimesOut(r) \/ ResolverDies(r)
  PROVE  GuardsRevoked' /\ FilesMatchLock'
  <1> USE ResolverAssumption DEF MovesTo, fileVars, LocksHeld, TypeOK, GuardsRevoked, FilesMatchLock, Launched, Exposed, OpenStates, LockedStates
  <1>1. ASSUME NEW k \in {"attach", "open", "fresh"}, ResolveStarts(r, k) PROVE GuardsRevoked' /\ FilesMatchLock'
    BY <1>1 DEF ResolveStarts
  <1>2. CASE FirstScan(r)
    BY <1>2 DEF FirstScan
  <1>3. CASE SpawnLockAcquired(r)
    BY <1>3 DEF SpawnLockAcquired
  <1>4. CASE SecondScan(r)
    BY <1>4 DEF SecondScan
  <1>5. CASE Probe(r)
    BY <1>5 DEF Probe
  <1>6. CASE BackupUnpacked(r)
    BY <1>6 DEF BackupUnpacked
  <1>7. CASE AfterBackup(r)
    BY <1>7 DEF AfterBackup
  <1>8. CASE GivesUp(r)
    BY <1>8 DEF GivesUp
  <1>9. CASE SpawnWorker(r)
    BY <1>9 DEF SpawnWorker
  <1>10. CASE AwaitScans(r)
    BY <1>10 DEF AwaitScans
  <1>11. CASE AwaitPolls(r)
    BY <1>11 DEF AwaitPolls
  <1>12. CASE AwaitTimesOut(r)
    BY <1>12 DEF AwaitTimesOut
  <1>13. CASE LooksAtGuard(r)
    BY <1>13 DEF LooksAtGuard
  <1>14. CASE LooksAtExit(r)
    BY <1>14 DEF LooksAtExit
  <1>15. CASE DiscardExtraction(r)
    BY <1>15 DEF DiscardExtraction, NoUnpacked, FileState, Unpacked
  <1>16. CASE Leave(r)
    BY <1>16 DEF Leave, Unlocked
  <1>17. CASE ResolverDies(r)
    BY <1>17 DEF ResolverDies
  <1> QED
    BY <1>1, <1>2, <1>3, <1>4, <1>5, <1>6, <1>7, <1>8, <1>9, <1>10, <1>11, <1>12, <1>13, <1>14, <1>15, <1>16, <1>17 DEF ResolverProgress

\* Workers disarm before they publish; they leave no work without a tree.
LEMMA WorkerFiles ==
  ASSUME LocksHeld, GuardsRevoked, FilesMatchLock, NEW w \in Resolvers,
         \/ WorkerProgress(w) \/ \E e \in Edits : WorkerEdits(w, e)
         \/ WorkerDrains(w) \/ WorkerStartFails(w) \/ WorkerCrashes(w)
  PROVE  GuardsRevoked' /\ FilesMatchLock'
  <1> USE ResolverAssumption DEF WorkerMoves, resolverVars, fileVars, LocksHeld, TypeOK, GuardsRevoked, FilesMatchLock, Launched, Exposed, OpenStates, LockedStates
  <1>1. ASSUME NEW e \in Edits, WorkerEdits(w, e) PROVE GuardsRevoked' /\ FilesMatchLock'
    BY <1>1 DEF WorkerEdits, EditMade, Unpacked
  <1>2. ASSUME NEW save \in BOOLEAN, WorkerCloses(w, save) PROVE GuardsRevoked' /\ FilesMatchLock'
    BY <1>2 DEF WorkerCloses, Closes, NoUnpacked, Unpacked
  <1>3. CASE WorkerOpens(w)
    BY <1>3 DEF WorkerOpens, Opens, WorkRestored, Unpacked
  <1>4. CASE WorkerOpened(w)
    BY <1>4 DEF WorkerOpened
  <1>5. CASE WorkerDisarms(w)
    BY <1>5 DEF WorkerDisarms
  <1>6. CASE WorkerPublishes(w)
    BY <1>6 DEF WorkerPublishes
  <1>7. CASE WorkerDrains(w)
    BY <1>7 DEF WorkerDrains
  <1>8. CASE WorkerStartFails(w)
    BY <1>8 DEF WorkerStartFails
  <1>9. CASE WorkerExits(w)
    BY <1>9 DEF WorkerExits
  <1>10. CASE WorkerFails(w)
    BY <1>10 DEF WorkerFails, TornExtraction, Unpacked, NoUnpacked
  <1>11. CASE WorkerCrashes(w)
    BY <1>11 DEF WorkerCrashes
  <1> QED
    BY <1>1, <1>2, <1>3, <1>4, <1>5, <1>6, <1>7, <1>8, <1>9, <1>10, <1>11 DEF WorkerProgress

\* The other IDA has no guard.
LEMMA OtherFiles ==
  ASSUME LocksHeld, GuardsRevoked, FilesMatchLock, \/ OtherOpens \/ OtherRegisters \/ \E e \in Edits : OtherEdits(e)
         \/ OtherCloses \/ OtherCrashes
  PROVE  GuardsRevoked' /\ FilesMatchLock'
  <1> USE ResolverAssumption DEF OtherMoves, resolverVars, fileVars, LocksHeld, TypeOK, GuardsRevoked, FilesMatchLock, Launched, Exposed, OpenStates, LockedStates
  <1>1. ASSUME NEW e \in Edits, OtherEdits(e) PROVE GuardsRevoked' /\ FilesMatchLock'
    BY <1>1 DEF OtherEdits, EditMade, Unpacked
  <1>2. CASE OtherOpens
    BY <1>2 DEF OtherOpens, Opens, WorkRestored, Unpacked
  <1>3. CASE OtherRegisters
    BY <1>3 DEF OtherRegisters
  <1>4. CASE OtherCloses
    BY <1>4 DEF OtherCloses, Closes, LeavesUnpacked, NoUnpacked, Unpacked
  <1>5. CASE OtherCrashes
    BY <1>5 DEF OtherCrashes
  <1> QED
    BY <1>1, <1>2, <1>3, <1>4, <1>5

-----------------------------------------------------------------------------
(* Creators share one worker *)

\* A second scan that finds nobody has the spawn lock, so no one else waits
\* for a worker, and whoever stopped waiting left one that a scan would see.
LEMMA ResolverAlone ==
  ASSUME LocksHeld, GuardsRevoked, UnreadyAreAwaited, AloneInLaunch, NEW r \in Resolvers,
         \/ \E k \in {"attach", "open", "fresh"} : ResolveStarts(r, k)
         \/ ResolverProgress(r) \/ GivesUp(r) \/ AwaitTimesOut(r) \/ ResolverDies(r)
  PROVE  UnreadyAreAwaited' /\ AloneInLaunch'
  <1> USE ResolverAssumption DEF MovesTo, fileVars, LocksHeld, TypeOK, GuardsRevoked, UnreadyAreAwaited, AloneInLaunch, Unready, Registered, Running, Launched, OpenStates, LockedStates, LaunchStates
  <1>1. ASSUME NEW k \in {"attach", "open", "fresh"}, ResolveStarts(r, k) PROVE UnreadyAreAwaited' /\ AloneInLaunch'
    BY <1>1 DEF ResolveStarts
  <1>2. CASE FirstScan(r)
    BY <1>2 DEF FirstScan, NoOwner
  <1>3. CASE SpawnLockAcquired(r)
    BY <1>3 DEF SpawnLockAcquired
  <1>4. CASE SecondScan(r)
    BY <1>4 DEF SecondScan, NobodyOwns, NoOwner
  <1>5. CASE Probe(r)
    BY <1>5 DEF Probe, FileState, MustCopy
  <1>6. CASE BackupUnpacked(r)
    BY <1>6 DEF BackupUnpacked
  <1>7. CASE AfterBackup(r)
    BY <1>7 DEF AfterBackup
  <1>8. CASE GivesUp(r)
    BY <1>8 DEF GivesUp
  <1>9. CASE SpawnWorker(r)
    BY <1>9 DEF SpawnWorker
  <1>10. CASE AwaitScans(r)
    BY <1>10 DEF AwaitScans
  <1>11. CASE AwaitPolls(r)
    BY <1>11 DEF AwaitPolls, HasExited
  <1>12. CASE AwaitTimesOut(r)
    <2>1. /\ pc[r] = "awaiting" /\ pc' = [pc EXCEPT ![r] = "failing"] /\ worker' = worker
          /\ abandoned' = (abandoned \/ Unready(r)) /\ UNCHANGED <<spawnLock, other>>
      BY <1>12 DEF AwaitTimesOut
    <2>2. ASSUME NEW w \in Resolvers, Unready(w)', ~abandoned' PROVE pc'[w] \in {"awaiting", "polling"}
      BY <2>1, <2>2
    <2>3. ASSUME NEW s \in Resolvers, NEW w \in Resolvers, s # w, ~abandoned',
                 pc'[s] \in LaunchStates \union {"probing"}
          PROVE  ~Running(w)'
      BY <2>1, <2>3
    <2> QED
      BY <2>2, <2>3
  <1>13. CASE LooksAtGuard(r)
    BY <1>13 DEF LooksAtGuard
  <1>14. CASE LooksAtExit(r)
    BY <1>14 DEF LooksAtExit
  <1>15. CASE DiscardExtraction(r)
    BY <1>15 DEF DiscardExtraction, NoUnpacked, FileState, Unpacked
  <1>16. CASE Leave(r)
    <2>1. /\ pc[r] = "leaving" /\ pc' = [pc EXCEPT ![r] = "done"] /\ worker' = worker
          /\ abandoned' = abandoned
      BY <1>16 DEF Leave
    <2>2. UnreadyAreAwaited'
      BY <2>1
    <2>3. AloneInLaunch'
      BY <2>1
    <2> QED
      BY <2>2, <2>3
  <1>17. CASE ResolverDies(r)
    <2>1. /\ pc' = [pc EXCEPT ![r] = "dead"] /\ worker' = worker
          /\ abandoned' = (abandoned \/ Unready(r))
      BY <1>17 DEF ResolverDies
    <2>2. ASSUME NEW w \in Resolvers, Unready(w)', ~abandoned' PROVE pc'[w] \in {"awaiting", "polling"}
      <3>1. ~abandoned /\ Unready(w) /\ w # r
        BY ONLY <2>1, <2>2 DEF Unready, Running, Registered
      <3>2. pc[w] \in {"awaiting", "polling"}
        BY <3>1
      <3> QED
        BY <2>1, <3>1, <3>2
    <2>3. ASSUME NEW s \in Resolvers, NEW w \in Resolvers, s # w, ~abandoned',
                 pc'[s] \in LaunchStates \union {"probing"}
          PROVE  ~Running(w)'
      BY <2>1, <2>3
    <2> QED
      BY <2>2, <2>3
  <1> QED
    BY <1>1, <1>2, <1>3, <1>4, <1>5, <1>6, <1>7, <1>8, <1>9, <1>10, <1>11, <1>12, <1>13, <1>14, <1>15, <1>16, <1>17 DEF ResolverProgress

\* No worker starts by itself, and one that a scan sees stays visible until
\* it is gone.
LEMMA WorkerAlone ==
  ASSUME LocksHeld, GuardsRevoked, UnreadyAreAwaited, AloneInLaunch, NEW w \in Resolvers,
         \/ WorkerProgress(w) \/ \E e \in Edits : WorkerEdits(w, e)
         \/ WorkerDrains(w) \/ WorkerStartFails(w) \/ WorkerCrashes(w)
  PROVE  UnreadyAreAwaited' /\ AloneInLaunch'
  <1> USE ResolverAssumption DEF WorkerMoves, resolverVars, fileVars, LocksHeld, TypeOK, GuardsRevoked, UnreadyAreAwaited, AloneInLaunch, Unready, Registered, Running, Launched, OpenStates, LockedStates, LaunchStates
  <1>1. ASSUME NEW e \in Edits, WorkerEdits(w, e) PROVE UnreadyAreAwaited' /\ AloneInLaunch'
    BY <1>1 DEF WorkerEdits, EditMade, Unpacked
  <1>2. ASSUME NEW save \in BOOLEAN, WorkerCloses(w, save) PROVE UnreadyAreAwaited' /\ AloneInLaunch'
    BY <1>2 DEF WorkerCloses, Closes, NoUnpacked, Unpacked
  <1>3. CASE WorkerOpens(w)
    BY <1>3 DEF WorkerOpens, Opens, WorkRestored, Unpacked
  <1>4. CASE WorkerOpened(w)
    BY <1>4 DEF WorkerOpened
  <1>5. CASE WorkerDisarms(w)
    BY <1>5 DEF WorkerDisarms
  <1>6. CASE WorkerPublishes(w)
    BY <1>6 DEF WorkerPublishes
  <1>7. CASE WorkerDrains(w)
    BY <1>7 DEF WorkerDrains
  <1>8. CASE WorkerStartFails(w)
    BY <1>8 DEF WorkerStartFails
  <1>9. CASE WorkerExits(w)
    BY <1>9 DEF WorkerExits
  <1>10. CASE WorkerFails(w)
    BY <1>10 DEF WorkerFails, TornExtraction, Unpacked, NoUnpacked
  <1>11. CASE WorkerCrashes(w)
    BY <1>11 DEF WorkerCrashes
  <1> QED
    BY <1>1, <1>2, <1>3, <1>4, <1>5, <1>6, <1>7, <1>8, <1>9, <1>10, <1>11 DEF WorkerProgress

\* The other IDA is no worker.
LEMMA OtherAlone ==
  ASSUME LocksHeld, GuardsRevoked, UnreadyAreAwaited, AloneInLaunch, \/ OtherOpens \/ OtherRegisters \/ \E e \in Edits : OtherEdits(e)
         \/ OtherCloses \/ OtherCrashes
  PROVE  UnreadyAreAwaited' /\ AloneInLaunch'
  <1> USE ResolverAssumption DEF OtherMoves, resolverVars, fileVars, LocksHeld, TypeOK, GuardsRevoked, UnreadyAreAwaited, AloneInLaunch, Unready, Registered, Running, Launched, OpenStates, LockedStates, LaunchStates
  <1>1. ASSUME NEW e \in Edits, OtherEdits(e) PROVE UnreadyAreAwaited' /\ AloneInLaunch'
    BY <1>1 DEF OtherEdits, EditMade, Unpacked
  <1>2. CASE OtherOpens
    BY <1>2 DEF OtherOpens, Opens, WorkRestored, Unpacked
  <1>3. CASE OtherRegisters
    BY <1>3 DEF OtherRegisters
  <1>4. CASE OtherCloses
    BY <1>4 DEF OtherCloses, Closes, LeavesUnpacked, NoUnpacked, Unpacked
  <1>5. CASE OtherCrashes
    BY <1>5 DEF OtherCrashes
  <1> QED
    BY <1>1, <1>2, <1>3, <1>4, <1>5

-----------------------------------------------------------------------------
(* No edit is lost *)

\* Probe is where a launch learns what it relies on; BackupUnpacked makes it
\* true; DiscardExtraction uses it.
LEMMA ResolverSafe ==
  ASSUME LocksHeld, GuardsRevoked, FilesMatchLock, Safe, NEW r \in Resolvers,
         \/ \E k \in {"attach", "open", "fresh"} : ResolveStarts(r, k)
         \/ ResolverProgress(r) \/ GivesUp(r) \/ AwaitTimesOut(r) \/ ResolverDies(r)
  PROVE  Safe'
  <1> USE ResolverAssumption DEF MovesTo, fileVars, LocksHeld, TypeOK, GuardsRevoked, FilesMatchLock, Safe, LaunchesAreAlone, LeftoversAreCopied,
      RepairsHaveNoBase, DiscardsAreRedundant, BaseIsUnpacked, Base, Saved, Kept, Pending,
      Launched, Exposed, OpenStates, LockedStates, LaunchStates
  <1>1. ASSUME NEW k \in {"attach", "open", "fresh"}, ResolveStarts(r, k) PROVE Safe'
    BY <1>1 DEF ResolveStarts
  <1>2. CASE FirstScan(r)
    BY <1>2 DEF FirstScan, NoOwner
  <1>3. CASE SpawnLockAcquired(r)
    BY <1>3 DEF SpawnLockAcquired
  <1>4. CASE SecondScan(r)
    <2>1. /\ \E to \in {"probing", "leaving"} : pc' = [pc EXCEPT ![r] = to]
          /\ UNCHANGED <<kind, discard, saveOpen, guard, worker, fileVars, edits, raced>>
      BY <1>4 DEF SecondScan
    <2>2. ASSUME ~raced PROVE LaunchesAreAlone' /\ LeftoversAreCopied'
      BY <2>1, <2>2
    <2>3. ASSUME ~raced PROVE RepairsHaveNoBase' /\ DiscardsAreRedundant'
      BY <2>1, <2>3
    <2>4. ASSUME ~raced PROVE BaseIsUnpacked' /\ (edits \subseteq Kept)'
      BY <2>1, <2>4
    <2> QED
      BY <2>1, <2>2, <2>3, <2>4
  <1>5. CASE Probe(r)
    <2>1. /\ pc[r] = "probing" /\ worker[r] = "none" /\ UNCHANGED <<kind, guard, worker, fileVars, edits, raced>>
          /\ \A s \in Resolvers \ {r} : pc[s] \notin LockedStates
          /\ \A s \in Resolvers \ {r} : pc'[s] = pc[s] /\ discard'[s] = discard[s] /\ saveOpen'[s] = saveOpen[s]
          /\ discard'[r] <=> FileState = "packed"
          /\ saveOpen'[r] <=> FileState = "crashed" /\ ~MustCopy(r)
          /\ \/ pc'[r] = "leaving" /\ FileState \in {"in_use", "unknown"}
             \/ pc'[r] = "copying" /\ FileState = "crashed" /\ MustCopy(r)
             \/ pc'[r] = "launching" /\ FileState \notin {"in_use", "unknown"}
                  /\ ~(FileState = "crashed" /\ MustCopy(r))
      <3>1. /\ pc[r] = "probing" /\ UNCHANGED <<kind, guard, worker, fileVars, edits, raced>>
            /\ discard' = [discard EXCEPT ![r] = FileState = "packed"]
            /\ saveOpen' = [saveOpen EXCEPT ![r] = FileState = "crashed" /\ ~MustCopy(r)]
            /\ \E to \in {"leaving", "copying", "launching"} : pc' = [pc EXCEPT ![r] = to]
        BY <1>5 DEF Probe
      <3>2. /\ worker[r] = "none"
            /\ \A s \in Resolvers \ {r} : pc[s] \notin LockedStates
        BY <3>1
      <3>3. /\ \A s \in Resolvers \ {r} :
                 pc'[s] = pc[s] /\ discard'[s] = discard[s] /\ saveOpen'[s] = saveOpen[s]
            /\ discard'[r] <=> FileState = "packed"
            /\ saveOpen'[r] <=> FileState = "crashed" /\ ~MustCopy(r)
        <4>1. /\ pc \in [Resolvers -> ResolverStates] /\ discard \in [Resolvers -> BOOLEAN]
              /\ saveOpen \in [Resolvers -> BOOLEAN]
          OBVIOUS
        <4> QED
          BY ONLY <3>1, <4>1
      <3>4. \/ pc'[r] = "leaving" /\ FileState \in {"in_use", "unknown"}
            \/ pc'[r] = "copying" /\ FileState = "crashed" /\ MustCopy(r)
            \/ pc'[r] = "launching" /\ FileState \notin {"in_use", "unknown"}
                 /\ ~(FileState = "crashed" /\ MustCopy(r))
        <4> DEFINE to == CASE FileState \in {"in_use", "unknown"} -> "leaving"
                           [] FileState = "crashed" /\ MustCopy(r) -> "copying"
                           [] OTHER -> "launching"
        <4>1. pc' = [pc EXCEPT ![r] = to]
          BY <1>5 DEF Probe
        <4> HIDE DEF to
        <4>2. pc'[r] = to
          BY <4>1
        <4>3. \/ to = "leaving" /\ FileState \in {"in_use", "unknown"}
              \/ to = "copying" /\ FileState = "crashed" /\ MustCopy(r)
              \/ to = "launching" /\ FileState \notin {"in_use", "unknown"}
                   /\ ~(FileState = "crashed" /\ MustCopy(r))
          BY ONLY DEF to
        <4> QED
          BY ONLY <4>2, <4>3
      <3> QED
        BY <3>1, <3>2, <3>3, <3>4
    <2>2. /\ FileState = "packed" <=> unpacked.state = "none" /\ packed # Absent
          /\ FileState = "crashed" <=> unpacked.state = "dirty" /\ id0Lock = Nobody
          /\ FileState \notin {"in_use", "unknown"} => id0Lock = Nobody
      BY DEF FileState, Unpacked
    <2>3. ASSUME ~raced PROVE LaunchesAreAlone'
      BY <2>1, <2>2, <2>3
    <2>4. ASSUME ~raced PROVE LeftoversAreCopied'
      BY <2>1, <2>2, <2>4 DEF MustCopy
    <2>5. ASSUME ~raced PROVE RepairsHaveNoBase'
      BY <2>1, <2>2, <2>5 DEF MustCopy
    <2>6. ASSUME ~raced PROVE DiscardsAreRedundant'
      BY <2>1, <2>2, <2>6 DEF MustCopy
    <2>7. ASSUME ~raced PROVE BaseIsUnpacked' /\ (edits \subseteq Kept)'
      BY <2>1, <2>2, <2>7
    <2> QED
      BY <2>1, <2>3, <2>4, <2>5, <2>6, <2>7
  <1>6. CASE BackupUnpacked(r)
    BY <1>6 DEF BackupUnpacked, MustCopy
  <1>7. CASE AfterBackup(r)
    BY <1>7 DEF AfterBackup
  <1>8. CASE GivesUp(r)
    BY <1>8 DEF GivesUp
  <1>9. CASE SpawnWorker(r)
    BY <1>9 DEF SpawnWorker
  <1>10. CASE AwaitScans(r)
    BY <1>10 DEF AwaitScans
  <1>11. CASE AwaitPolls(r)
    BY <1>11 DEF AwaitPolls, HasExited
  <1>12. CASE AwaitTimesOut(r)
    BY <1>12 DEF AwaitTimesOut
  <1>13. CASE LooksAtGuard(r)
    BY <1>13 DEF LooksAtGuard, GuardAllows
  <1>14. CASE LooksAtExit(r)
    BY <1>14 DEF LooksAtExit
  <1>15. CASE DiscardExtraction(r)
    BY <1>15 DEF DiscardExtraction, NoUnpacked, FileState, Unpacked
  <1>16. CASE Leave(r)
    BY <1>16 DEF Leave, Unlocked
  <1>17. CASE ResolverDies(r)
    BY <1>17 DEF ResolverDies
  <1> QED
    BY <1>1, <1>2, <1>3, <1>4, <1>5, <1>6, <1>7, <1>8, <1>9, <1>10, <1>11, <1>12, <1>13, <1>14, <1>15, <1>16, <1>17 DEF ResolverProgress

\* Opens is where leftovers are overwritten; before that the launch of the
\* worker was not overtaken, and every other launch is by this one.
LEMMA WorkerSafe ==
  ASSUME LocksHeld, GuardsRevoked, FilesMatchLock, Safe, NEW w \in Resolvers,
         \/ WorkerProgress(w) \/ \E e \in Edits : WorkerEdits(w, e)
         \/ WorkerDrains(w) \/ WorkerStartFails(w) \/ WorkerCrashes(w)
  PROVE  Safe'
  <1> USE ResolverAssumption DEF WorkerMoves, resolverVars, fileVars, LocksHeld, TypeOK, GuardsRevoked, FilesMatchLock, Safe, LaunchesAreAlone, LeftoversAreCopied,
      RepairsHaveNoBase, DiscardsAreRedundant, BaseIsUnpacked, Base, Saved, Kept, Pending,
      Launched, Exposed, OpenStates, LockedStates, LaunchStates
  <1>1. ASSUME NEW e \in Edits, WorkerEdits(w, e) PROVE Safe'
    BY <1>1 DEF WorkerEdits, EditMade, Unpacked
  <1>2. ASSUME NEW save \in BOOLEAN, WorkerCloses(w, save) PROVE Safe'
    BY <1>2 DEF WorkerCloses, Closes, NoUnpacked, Unpacked
  <1>3. CASE WorkerOpens(w)
    <2> DEFINE fresh == kind[w] = "fresh"
    <2>1. /\ worker[w] = "starting" /\ worker' = [worker EXCEPT ![w] = "opening"]
          /\ UNCHANGED <<pc, kind, discard, saveOpen, guard, backups, edits>>
          /\ id0Lock = Nobody /\ id0Lock' = w
          /\ unpacked' = [state |-> "dirty", work |-> IF fresh THEN {} ELSE WorkRestored]
          /\ packed' = IF fresh THEN Absent ELSE packed
          /\ raced' = (raced \/ LaunchPending(w))
      BY <1>3 DEF WorkerOpens, Opens
    <2>2. /\ waived \subseteq waived'
          /\ fresh => Base \subseteq waived' /\ (unpacked.state = "clean" => unpacked.work \subseteq waived')
      BY <1>3 DEF WorkerOpens, Opens
    <2> SUFFICES ASSUME ~raced' PROVE Safe'
      BY DEF Safe
    <2>3. /\ ~raced
          /\ \A r \in Resolvers \ {w} : pc[r] \notin LaunchStates /\ worker[r] # "starting"
      BY <2>1 DEF LaunchPending
    <2>4. Saved \subseteq Saved'
      BY <2>1, <2>2
    <2>5. /\ Base' \subseteq unpacked'.work
          /\ unpacked.work \subseteq unpacked'.work \cup Saved'
          /\ unpacked.work \subseteq Saved => unpacked'.work \subseteq Saved'
      <3>1. CASE fresh
        BY <2>1, <2>2, <2>3, <2>4, <3>1 DEF Unpacked
      <3>2. CASE ~fresh
        BY <2>1, <2>2, <2>3, <2>4, <3>2 DEF Unpacked, WorkRestored
      <3> QED
        BY <3>1, <3>2
    <2>6. LaunchesAreAlone' /\ LeftoversAreCopied' /\ RepairsHaveNoBase'
      BY <2>1, <2>3
    <2>7. DiscardsAreRedundant'
      BY <2>1, <2>3, <2>5
    <2>8. BaseIsUnpacked' /\ (edits \subseteq Kept)'
      BY <2>1, <2>3, <2>4, <2>5
    <2> QED
      BY <2>6, <2>7, <2>8
  <1>4. CASE WorkerOpened(w)
    BY <1>4 DEF WorkerOpened
  <1>5. CASE WorkerDisarms(w)
    BY <1>5 DEF WorkerDisarms
  <1>6. CASE WorkerPublishes(w)
    BY <1>6 DEF WorkerPublishes
  <1>7. CASE WorkerDrains(w)
    BY <1>7 DEF WorkerDrains
  <1>8. CASE WorkerStartFails(w)
    BY <1>8 DEF WorkerStartFails
  <1>9. CASE WorkerExits(w)
    BY <1>9 DEF WorkerExits
  <1>10. CASE WorkerFails(w)
    BY <1>10 DEF WorkerFails, TornExtraction, Unpacked, NoUnpacked
  <1>11. CASE WorkerCrashes(w)
    BY <1>11 DEF WorkerCrashes
  <1> QED
    BY <1>1, <1>2, <1>3, <1>4, <1>5, <1>6, <1>7, <1>8, <1>9, <1>10, <1>11 DEF WorkerProgress

\* An open by the other IDA overtakes every launch, and what it overwrites is
\* given up; once it is in, no launch is pending.
LEMMA OtherSafe ==
  ASSUME LocksHeld, GuardsRevoked, FilesMatchLock, Safe, \/ OtherOpens \/ OtherRegisters \/ \E e \in Edits : OtherEdits(e)
         \/ OtherCloses \/ OtherCrashes
  PROVE  Safe'
  <1> USE ResolverAssumption DEF OtherMoves, resolverVars, fileVars, LocksHeld, TypeOK, GuardsRevoked, FilesMatchLock, Safe, LaunchesAreAlone, LeftoversAreCopied,
      RepairsHaveNoBase, DiscardsAreRedundant, BaseIsUnpacked, Base, Saved, Kept, Pending,
      Launched, Exposed, OpenStates, LockedStates, LaunchStates
  <1>1. ASSUME NEW e \in Edits, OtherEdits(e) PROVE Safe'
    BY <1>1 DEF OtherEdits, EditMade, Unpacked
  <1>2. CASE OtherOpens
    <2>1. /\ UNCHANGED <<pc, kind, discard, saveOpen, guard, worker, backups, edits>>
          /\ packed' = packed /\ id0Lock' = Other /\ id0Lock = Nobody
          /\ raced' = (raced \/ LaunchPending(Other))
          /\ unpacked' = [state |-> "dirty", work |-> WorkRestored]
          /\ waived' = waived \union (unpacked.work \ WorkRestored)
      BY <1>2 DEF OtherOpens, Opens
    <2> SUFFICES ASSUME ~raced'
                 PROVE  /\ LaunchesAreAlone' /\ LeftoversAreCopied' /\ RepairsHaveNoBase'
                        /\ DiscardsAreRedundant' /\ BaseIsUnpacked' /\ (edits \subseteq Kept)'
      OBVIOUS
    <2>2. ~raced /\ \A r \in Resolvers : pc[r] \notin LaunchStates /\ worker[r] # "starting"
      BY <2>1 DEF LaunchPending
    <2>3. LaunchesAreAlone' /\ LeftoversAreCopied'
      BY <2>1, <2>2
    <2>4. RepairsHaveNoBase'
      BY <2>1, <2>2
    <2>5. DiscardsAreRedundant'
      BY <2>1, <2>2
    <2>6. unpacked'.work = WorkRestored /\ unpacked'.state = "dirty"
      BY <2>1
    <2>7. BaseIsUnpacked'
      <3>1. Base' = Base /\ (unpacked.state = "clean" => Base \subseteq unpacked.work)
        BY <2>1, <2>2
      <3>2. unpacked.state \in {"none", "clean", "dirty", "damaged"}
        BY DEF Unpacked
      <3>3. Base \subseteq WorkRestored
        BY ONLY <3>1, <3>2 DEF WorkRestored, Base
      <3> QED
        BY ONLY <2>6, <3>1, <3>3 DEF BaseIsUnpacked
    <2>8. (edits \subseteq Kept)'
      <3>1. Kept \subseteq Base \union backups \union waived \union unpacked.work
        BY <2>2
      <3>2. Saved' = Base \union backups \union waived \union (unpacked.work \ WorkRestored)
        BY <2>1
      <3>3. Kept' = Saved' \union WorkRestored
        BY <2>6
      <3>4. edits' = edits /\ edits \subseteq Kept
        BY <2>1, <2>2
      <3> QED
        BY <3>1, <3>2, <3>3, <3>4 DEF WorkRestored
    <2> QED
      BY <2>3, <2>4, <2>5, <2>7, <2>8
  <1>3. CASE OtherRegisters
    <2>1. UNCHANGED <<pc, kind, discard, saveOpen, guard, worker, fileVars, edits, raced>>
      BY <1>3 DEF OtherRegisters
    <2>2. ASSUME ~raced PROVE LaunchesAreAlone' /\ LeftoversAreCopied' /\ RepairsHaveNoBase'
      BY <2>1, <2>2
    <2>3. ASSUME ~raced PROVE DiscardsAreRedundant' /\ BaseIsUnpacked' /\ (edits \subseteq Kept)'
      BY <2>1, <2>3
    <2> QED
      BY <2>1, <2>2, <2>3
  <1>4. CASE OtherCloses
    BY <1>4 DEF OtherCloses, Closes, LeavesUnpacked, NoUnpacked, Unpacked
  <1>5. CASE OtherCrashes
    BY <1>5 DEF OtherCrashes
  <1> QED
    BY <1>1, <1>2, <1>3, <1>4, <1>5

-----------------------------------------------------------------------------
\* Every part holds at first.
LEMMA InitSpawnInv == Init => SpawnInv
  <1> SUFFICES ASSUME Init PROVE SpawnInv
    OBVIOUS
  <1>1. LocksHeld
    BY LocksInit
  <1>2. /\ \A r \in Resolvers : /\ pc[r] = "idle" /\ worker[r] = "none"
                                /\ ~guard[r] /\ ~discard[r] /\ ~saveOpen[r]
        /\ unpacked.state = "none" /\ unpacked.work = {} /\ id0Lock = Nobody
        /\ edits = {}
    BY DEF Init, NoUnpacked
  <1>3. GuardsRevoked /\ FilesMatchLock /\ UnreadyAreAwaited /\ AloneInLaunch
    BY <1>2 DEF GuardsRevoked, FilesMatchLock, UnreadyAreAwaited, AloneInLaunch, Unready,
       Running, Exposed, LaunchStates, LockedStates
  <1>4. Safe
    BY <1>2 DEF Safe, LaunchesAreAlone, LeftoversAreCopied, RepairsHaveNoBase,
       DiscardsAreRedundant, BaseIsUnpacked, Kept
  <1> QED
    BY <1>1, <1>3, <1>4 DEF SpawnInv

\* And is kept by every step.
LEMMA StepSpawnInv == SpawnInv /\ [Next]_vars => SpawnInv'
  <1> SUFFICES ASSUME SpawnInv, [Next]_vars PROVE SpawnInv'
    OBVIOUS
  <1>0. LocksHeld /\ GuardsRevoked /\ FilesMatchLock /\ UnreadyAreAwaited /\ AloneInLaunch /\ Safe
    BY DEF SpawnInv
  <1>1. ASSUME NEW r \in Resolvers,
               \/ \E k \in {"attach", "open", "fresh"} : ResolveStarts(r, k)
               \/ ResolverProgress(r) \/ GivesUp(r) \/ AwaitTimesOut(r) \/ ResolverDies(r)
        PROVE  SpawnInv'
    BY <1>0, <1>1, ResolverLocks, ResolverFiles, ResolverAlone, ResolverSafe DEF SpawnInv
  <1>2. ASSUME NEW w \in Resolvers,
               \/ WorkerProgress(w) \/ \E e \in Edits : WorkerEdits(w, e)
               \/ WorkerDrains(w) \/ WorkerStartFails(w) \/ WorkerCrashes(w)
        PROVE  SpawnInv'
    BY <1>0, <1>2, WorkerLocks, WorkerFiles, WorkerAlone, WorkerSafe DEF SpawnInv
  <1>3. ASSUME \/ OtherOpens \/ OtherRegisters \/ \E e \in Edits : OtherEdits(e)
               \/ OtherCloses \/ OtherCrashes
        PROVE  SpawnInv'
    BY <1>0, <1>3, OtherLocks, OtherFiles, OtherAlone, OtherSafe DEF SpawnInv
  <1>4. CASE UNCHANGED vars
    <2> USE <1>4 DEF vars, resolverVars, fileVars
    <2>1. LocksHeld' /\ GuardsRevoked' /\ FilesMatchLock'
      BY <1>0 DEF LocksHeld, TypeOK, GuardsRevoked, FilesMatchLock
    <2>2. UnreadyAreAwaited' /\ AloneInLaunch'
      BY <1>0 DEF UnreadyAreAwaited, AloneInLaunch, Unready, Running, Registered
    <2>3. Safe'
      BY <1>0 DEF Safe, LaunchesAreAlone, LeftoversAreCopied, RepairsHaveNoBase,
         DiscardsAreRedundant, BaseIsUnpacked, Base, Saved, Kept, Pending
    <2> QED
      BY <2>1, <2>2, <2>3 DEF SpawnInv
  <1> QED
    BY <1>1, <1>2, <1>3, <1>4 DEF Next

\* The inductive invariant.
THEOREM SpawnInvariant == Spec => []SpawnInv
  BY InitSpawnInv, StepSpawnInv, PTL DEF Spec

\* Types; the spawn lock belongs to the resolver between its acquisition and
\* its release, the lock of .id0 to the process that has the database open.
THEOREM TypeCorrect == Spec => []TypeOK
  <1>1. SpawnInv => TypeOK
    BY DEF SpawnInv, LocksHeld
  <1> QED
    BY <1>1, SpawnInvariant, PTL

\* "Concurrent creators must share one worker", for any number of them: no
\* worker runs beside a launch unless some resolver gave up on it too early.
THEOREM CreatorsShareAWorker == Spec => []AloneInLaunch
  <1>1. SpawnInv => AloneInLaunch
    BY DEF SpawnInv
  <1> QED
    BY <1>1, SpawnInvariant, PTL

\* No edit is lost by crashes, failed launches, repairs, restores, discards or
\* closes in any order, unless it was given up or a launch was overtaken.
THEOREM NoEditIsLost == Spec => []WorkPreserved
  <1>1. SpawnInv => WorkPreserved
    BY DEF SpawnInv, Safe, WorkPreserved
  <1> QED
    BY <1>1, SpawnInvariant, PTL

\* "The host revokes this guard before exposing an IDB", whatever became of
\* the resolver that made it: a guard stands for a worker nobody could reach.
THEOREM GuardsAreRevoked ==
    Spec => [](\A w \in Resolvers : worker[w] \in Exposed => ~guard[w])
  <1>1. SpawnInv => \A w \in Resolvers : worker[w] \in Exposed => ~guard[w]
    BY DEF SpawnInv, GuardsRevoked
  <1> QED
    BY <1>1, SpawnInvariant, PTL

\* A discard removes files only under the spawn lock, after the worker ended,
\* and nothing that is not saved elsewhere, unless the launch was overtaken.
THEOREM DiscardsAreSafe == Spec => DiscardsLoseNothing
  <1>1. ASSUME SpawnInv, NEW r \in Resolvers, pc[r] = "discarding"
        PROVE  /\ spawnLock = r
               /\ ~raced => worker[r] = "exited" /\ unpacked.work \subseteq Saved
    <2>1. spawnLock = r
      BY <1>1 DEF SpawnInv, LocksHeld, TypeOK, LockedStates
    <2>2. ASSUME ~raced PROVE worker[r] = "exited" /\ unpacked.work \subseteq Saved
      BY <1>1, <2>2 DEF SpawnInv, Safe, DiscardsAreRedundant, LaunchStates, LockedStates
    <2> QED
      BY <2>1, <2>2
  <1>2. SpawnInv /\ [Next]_vars =>
          [\A r \in Resolvers :
             pc[r] = "discarding" /\ pc'[r] = "leaving" =>
               /\ spawnLock = r
               /\ ~raced => worker[r] = "exited" /\ unpacked.work \subseteq Saved]_vars
    BY <1>1
  <1> QED
    BY <1>2, SpawnInvariant, PTL DEF Spec, DiscardsLoseNothing
=============================================================================
