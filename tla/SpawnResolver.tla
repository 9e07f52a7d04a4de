--------------------------- MODULE SpawnResolver ---------------------------
(***************************************************************************)
(* Resolution of one IDB path to a live instance, and the start of a       *)
(* worker when there is none (ida_nexus/_resolver.py, with the file states *)
(* of database_state.py and the startup guard of _launch.py).              *)
(*                                                                         *)
(* A resolver is one call of resolve_instance in some client process; it   *)
(* starts one worker at most, which bears its name.  A scan is one step:   *)
(* it reports every instance that is live and none that is not (see        *)
(* InstanceRegistry).  The files of the database are the packed IDB, the   *)
(* unpacked components and the backups; what matters of their content is   *)
(* the set of edits it holds.  How IDA opens and closes a database is      *)
(* external: it holds .id0 locked while it has the database open, restores *)
(* a packed base over crash leftovers and repairs them without one.        *)
(***************************************************************************)
EXTENDS Naturals, FiniteSets

CONSTANTS
    Resolvers,   \* calls of resolve_instance, and the workers they start
    Edits,       \* changes clients make to the database
    Absent,      \* there is no packed IDB
    Other,       \* an IDA that Nexus did not start
    Nobody       \* a lock that is free

ASSUME ResolverAssumption ==
    /\ IsFiniteSet(Resolvers)
    /\ Other \notin Resolvers
    /\ Nobody \notin Resolvers \union {Other}
    /\ \A s \in SUBSET Edits : Absent # s

VARIABLES
    \* resolve_instance
    pc,         \* where each resolver is
    kind,       \* "attach" (spawn=False), "open" or "fresh" (new_database)
    spawnLock,  \* holder of spawn/<idb-key>.lock
    discard,    \* discard_failed_extraction
    saveOpen,   \* launch_options.save_after_open
    guard,      \* whether the startup guard of each launch exists
    \* the workers and the other IDA
    worker,     \* where each worker is
    other,      \* where the other IDA is
    \* files
    packed,     \* the edits in the packed IDB, or Absent
    unpacked,   \* the unpacked components
    id0Lock,    \* who has the database open
    backups,    \* the edits in copies of crash leftovers
    \* history
    edits,      \* the edits made so far
    waived,     \* edits given up on request or by the other IDA
    raced,      \* a launch was overtaken between a check and its use
    abandoned   \* a resolver left a worker that no scan could see

resolverVars == <<pc, kind, spawnLock, discard, saveOpen>>
fileVars == <<packed, unpacked, id0Lock, backups, waived>>
vars == <<resolverVars, guard, worker, other, fileVars, edits, raced,
          abandoned>>

\* The .id0 header tells a tree that was open (dirty), one that was not
\* (clean) and what cannot be read (damaged).
Unpacked == [state : {"none", "dirty", "clean", "damaged"},
             work  : SUBSET Edits]
NoUnpacked == [state |-> "none", work |-> {}]

ResolverStates ==
    {"idle", "scanning", "locking", "locked", "probing", "copying", "copied",
     "launching", "awaiting", "polling", "failing", "checking", "discarding",
     "leaving", "done", "dead"}
\* with spawn_lock held
LockedStates ==
    {"locked", "probing", "copying", "copied", "launching", "awaiting",
     "polling", "failing", "checking", "discarding", "leaving"}
\* between the inspection of the files and the end of the launch
LaunchStates == LockedStates \ {"locked", "probing", "leaving"}

WorkerStates ==
    {"none", "starting", "opening", "opened", "disarmed", "serving",
     "draining", "unpublished", "closed", "exited"}
OpenStates == {"opening", "opened", "disarmed", "serving", "draining",
               "unpublished"}
Running(w) == worker[w] \notin {"none", "exited"}

Init ==
    /\ pc = [r \in Resolvers |-> "idle"]
    /\ kind = [r \in Resolvers |-> "open"]
    /\ spawnLock = Nobody
    /\ discard = [r \in Resolvers |-> FALSE]
    /\ saveOpen = [r \in Resolvers |-> FALSE]
    /\ guard = [r \in Resolvers |-> FALSE]
    /\ worker = [r \in Resolvers |-> "none"]
    /\ other = "absent"
    /\ packed \in {Absent, {}}
    /\ unpacked = NoUnpacked
    /\ id0Lock = Nobody
    /\ backups = {}
    /\ edits = {}
    /\ waived = {}
    /\ raced = FALSE
    /\ abandoned = FALSE

-----------------------------------------------------------------------------
(* The scans *)

\* Workers whose record is published under their lifetime lock; they are READY
\* while they serve and BLOCKED until they have released it.
Registered == {w \in Resolvers : worker[w] \in {"serving", "draining", "closed"}}

NoOwner == other # "registered" /\ Registered = {}

\* The worker of r is running and no scan can see it.
Unready(r) == Running(r) /\ r \notin Registered

MovesTo(r, from, to) == pc[r] = from /\ pc' = [pc EXCEPT ![r] = to]

ResolveStarts(r, k) ==
    /\ MovesTo(r, "idle", "scanning")
    /\ kind' = [kind EXCEPT ![r] = k]
    /\ UNCHANGED <<spawnLock, discard, saveOpen, guard, worker, other,
                   fileVars, edits, raced, abandoned>>

\* The scan without the lock: nobody owns the IDB, or the call ends with the
\* owner (READY, not new_database) or with an error (BLOCKED, ambiguous,
\* new_database).
FirstScan(r) ==
    /\ MovesTo(r, "scanning", IF NoOwner THEN "locking" ELSE "done")
    /\ UNCHANGED <<kind, spawnLock, discard, saveOpen, guard, worker, other,
                   fileVars, edits, raced, abandoned>>

SpawnLockAcquired(r) ==
    /\ spawnLock = Nobody
    /\ MovesTo(r, "locking", "locked")
    /\ spawnLock' = r
    /\ UNCHANGED <<kind, discard, saveOpen, guard, worker, other, fileVars,
                   edits, raced, abandoned>>

\* The scan under the lock; with spawn=False nothing is started.
OwnerForgotten == TRUE   \* variant: the scan is not repeated
NobodyOwns == NoOwner

SecondScan(r) ==
    /\ MovesTo(r, "locked", IF NobodyOwns /\ kind[r] # "attach"
                            THEN "probing" ELSE "leaving")
    /\ UNCHANGED <<kind, spawnLock, discard, saveOpen, guard, worker, other,
                   fileVars, edits, raced, abandoned>>

-----------------------------------------------------------------------------
(* The state of the files *)

\* probe_database_state: the .id0 lock decides before the header does.
FileState ==
    IF unpacked.state = "none"
    THEN IF packed = Absent THEN "missing" ELSE "packed"
    ELSE IF id0Lock # Nobody THEN "in_use"
    ELSE CASE unpacked.state = "dirty"   -> "crashed"
           [] unpacked.state = "clean"   -> "unpacked"
           [] unpacked.state = "damaged" -> "unknown"

\* Crash leftovers are copied when the launch is going to overwrite them.
NeverCopies(r) == FALSE   \* variant: IDA is trusted to keep them
MustCopy(r) == kind[r] = "fresh" \/ packed # Absent

Probe(r) ==
    /\ MovesTo(r, "probing",
               CASE FileState \in {"in_use", "unknown"} -> "leaving"
                 [] FileState = "crashed" /\ MustCopy(r) -> "copying"
                 [] OTHER -> "launching")
    /\ discard' = [discard EXCEPT ![r] = FileState = "packed"]
    /\ saveOpen' = [saveOpen EXCEPT ![r] = FileState = "crashed" /\ ~MustCopy(r)]
    /\ UNCHANGED <<kind, spawnLock, guard, worker, other, fileVars, edits,
                   raced, abandoned>>

\* _backup_unpacked_database copies the components the probe listed, and raises
\* when they are gone.
BackupUnpacked(r) ==
    LET gone == unpacked.state = "none"
    IN  /\ MovesTo(r, "copying", IF gone THEN "leaving" ELSE "copied")
        /\ backups' = backups \union unpacked.work
        /\ discard' = [discard EXCEPT ![r] = @ \/ ~gone]
        /\ UNCHANGED <<kind, spawnLock, saveOpen, guard, worker, other, packed,
                       unpacked, id0Lock, waived, edits, raced, abandoned>>

AfterBackup(r) ==
    /\ MovesTo(r, "copied", IF FileState \in {"in_use", "unknown"}
                            THEN "leaving" ELSE "launching")
    /\ UNCHANGED <<kind, spawnLock, discard, saveOpen, guard, worker, other,
                   fileVars, edits, raced, abandoned>>

\* The deadline, a missing source, a copy or an exec that fails, an owner that
\* does not answer: an exception, and finally the lock is released.
GivesUp(r) ==
    /\ pc[r] \in {"scanning", "locking", "locked", "probing", "copying",
                  "copied", "launching"}
    /\ pc' = [pc EXCEPT ![r] = IF @ \in LockedStates THEN "leaving" ELSE "done"]
    /\ UNCHANGED <<kind, spawnLock, discard, saveOpen, guard, worker, other,
                   fileVars, edits, raced, abandoned>>

-----------------------------------------------------------------------------
(* The launch *)

SpawnWorker(r) ==
    /\ MovesTo(r, "launching", "awaiting")
    /\ worker' = [worker EXCEPT ![r] = "starting"]
    /\ guard' = [guard EXCEPT ![r] = TRUE]
    /\ UNCHANGED <<kind, spawnLock, discard, saveOpen, other, fileVars, edits,
                   raced, abandoned>>

\* One pass of _await_ready: the record with our suffix is READY, or it is not
\* there and the process is polled.  A BLOCKED record is waited for.
AwaitScans(r) ==
    /\ r \notin Registered \/ worker[r] = "serving"
    /\ MovesTo(r, "awaiting",
               IF worker[r] = "serving" THEN "leaving" ELSE "polling")
    /\ UNCHANGED <<kind, spawnLock, discard, saveOpen, guard, worker, other,
                   fileVars, edits, raced, abandoned>>

NeverExited(r) == FALSE   \* variant: only the record is looked for
HasExited(r) == worker[r] = "exited"

AwaitPolls(r) ==
    /\ MovesTo(r, "polling", IF HasExited(r) THEN "failing" ELSE "awaiting")
    /\ UNCHANGED <<kind, spawnLock, discard, saveOpen, guard, worker, other,
                   fileVars, edits, raced, abandoned>>

AwaitTimesOut(r) ==
    /\ MovesTo(r, "awaiting", "failing")
    /\ abandoned' = (abandoned \/ Unready(r))
    /\ UNCHANGED <<kind, spawnLock, discard, saveOpen, guard, worker, other,
                   fileVars, edits, raced>>

\* except WorkerStartError: first the guard is looked at, then the process.
NoGuardNeeded(r) == discard[r]   \* variant: the guard is not looked at
GuardAllows(r) == discard[r] /\ guard[r]

LooksAtGuard(r) ==
    /\ MovesTo(r, "failing", IF GuardAllows(r) THEN "checking" ELSE "leaving")
    /\ UNCHANGED <<kind, spawnLock, discard, saveOpen, guard, worker, other,
                   fileVars, edits, raced, abandoned>>

\* variant: the process is not looked at.
TakesExitForGranted(r) ==
    /\ MovesTo(r, "checking", "discarding")
    /\ UNCHANGED <<kind, spawnLock, discard, saveOpen, guard, worker, other,
                   fileVars, edits, raced, abandoned>>

LooksAtExit(r) ==
    /\ MovesTo(r, "checking", IF worker[r] = "exited"
                              THEN "discarding" ELSE "leaving")
    /\ UNCHANGED <<kind, spawnLock, discard, saveOpen, guard, worker, other,
                   fileVars, edits, raced, abandoned>>

\* _discard_failed_launch_extraction: under the lock of .id0, which is removed
\* last and stays when another component could not be removed.
DiscardExtraction(r) ==
    /\ MovesTo(r, "discarding", "leaving")
    /\ IF FileState \in {"crashed", "unpacked"}
       THEN unpacked' \in {NoUnpacked, [unpacked EXCEPT !.work = {}]}
       ELSE UNCHANGED unpacked
    /\ UNCHANGED <<kind, spawnLock, discard, saveOpen, guard, worker, other,
                   packed, id0Lock, backups, waived, edits, raced, abandoned>>

\* finally: the guard is removed and the lock is closed; the locals are gone.
StillLocked == spawnLock   \* variant: the lock is not closed
Unlocked == Nobody

Leave(r) ==
    /\ MovesTo(r, "leaving", "done")
    /\ guard' = [guard EXCEPT ![r] = FALSE]
    /\ spawnLock' = Unlocked
    /\ discard' = [discard EXCEPT ![r] = FALSE]
    /\ UNCHANGED <<kind, saveOpen, worker, other, fileVars, edits, raced,
                   abandoned>>

\* The client process is killed; the kernel releases its lock.
ResolverDies(r) ==
    /\ pc[r] \notin {"idle", "done", "dead"}
    /\ pc' = [pc EXCEPT ![r] = "dead"]
    /\ spawnLock' = IF spawnLock = r THEN Nobody ELSE spawnLock
    /\ abandoned' = (abandoned \/ Unready(r))
    /\ discard' = [discard EXCEPT ![r] = FALSE]
    /\ UNCHANGED <<kind, saveOpen, guard, worker, other, fileVars, edits,
                   raced>>

-----------------------------------------------------------------------------
(* IDA and the files *)

\* Some launch other than that of x is under way: its resolver acts on what it
\* saw of the files, or its worker has still to open them.
LaunchPending(x) ==
    \E r \in Resolvers \ {x} :
        pc[r] \in LaunchStates \/ worker[r] = "starting"

\* What the unpacked components hold once IDA has the database open.
WorkRestored ==
    IF unpacked.state \in {"dirty", "damaged"} /\ packed # Absent
    THEN packed
    ELSE IF unpacked.state = "none"
    THEN IF packed = Absent THEN {} ELSE packed
    ELSE unpacked.work

\* x takes the lock of .id0 and restores, repairs or creates the database.
Opens(x, fresh) ==
    /\ id0Lock = Nobody
    /\ unpacked.state = "damaged" => fresh \/ packed # Absent
    /\ id0Lock' = x
    /\ unpacked' = [state |-> "dirty", work |-> IF fresh THEN {} ELSE WorkRestored]
    /\ packed' = IF fresh THEN Absent ELSE packed
    /\ waived' = waived \union
         IF fresh
         THEN (IF packed = Absent THEN {} ELSE packed) \union
              (IF unpacked.state = "clean" THEN unpacked.work ELSE {})
         ELSE IF x = Other THEN unpacked.work \ WorkRestored ELSE {}
    /\ raced' = (raced \/ LaunchPending(x))
    /\ UNCHANGED <<backups, edits>>

\* A close packs the database, or drops what was not packed before.
Closes(save) ==
    /\ id0Lock' = Nobody
    /\ unpacked' = NoUnpacked
    /\ packed' = IF save THEN unpacked.work ELSE packed
    /\ waived' = IF save THEN waived ELSE waived \union unpacked.work
    /\ UNCHANGED <<backups, edits, raced>>

\* A close that deliberately leaves the database unpacked.
LeavesUnpacked ==
    /\ id0Lock' = Nobody
    /\ unpacked' = [unpacked EXCEPT !.state = "clean"]
    /\ UNCHANGED <<packed, backups, waived, edits, raced>>

EditMade(e) ==
    /\ e \notin edits
    /\ edits' = edits \union {e}
    /\ unpacked' = [unpacked EXCEPT !.work = @ \union {e}]
    /\ UNCHANGED <<packed, id0Lock, backups, waived, raced>>

-----------------------------------------------------------------------------
(* The worker: main() of cli/worker.py *)

WorkerMoves(w, from, to) ==
    /\ worker[w] = from
    /\ worker' = [worker EXCEPT ![w] = to]
    /\ UNCHANGED <<resolverVars, other, abandoned>>

WorkerOpens(w) ==
    /\ WorkerMoves(w, "starting", "opening")
    /\ Opens(w, kind[w] = "fresh")
    /\ UNCHANGED guard

\* open_database returned; the guard is still there.
WorkerOpened(w) ==
    /\ WorkerMoves(w, "opening", "opened")
    /\ UNCHANGED <<guard, fileVars, edits, raced>>

\* _disarm_startup_cleanup, then the save after a repair.  The resolver may
\* have seen the guard already.
WorkerDisarms(w) ==
    /\ WorkerMoves(w, "opened", "disarmed")
    /\ guard' = [guard EXCEPT ![w] = FALSE]
    /\ packed' = IF saveOpen[w] THEN unpacked.work ELSE packed
    /\ raced' = (raced \/ pc[w] = "checking")
    /\ UNCHANGED <<unpacked, id0Lock, backups, waived, edits>>

WorkerPublishes(w) ==
    /\ WorkerMoves(w, "disarmed", "serving")
    /\ UNCHANGED <<guard, fileVars, edits, raced>>

WorkerEdits(w, e) ==
    /\ WorkerMoves(w, "serving", "serving")
    /\ EditMade(e)
    /\ UNCHANGED guard

WorkerDrains(w) ==
    /\ WorkerMoves(w, "serving", "draining")
    /\ UNCHANGED <<guard, fileVars, edits, raced>>

\* start() raised: the database is closed without having been published.
WorkerStartFails(w) ==
    /\ WorkerMoves(w, "disarmed", "unpublished")
    /\ UNCHANGED <<guard, fileVars, edits, raced>>

WorkerCloses(w, save) ==
    /\ \/ WorkerMoves(w, "draining", "closed")
       \/ WorkerMoves(w, "unpublished", "exited") /\ save
    /\ Closes(save)
    /\ UNCHANGED guard

WorkerExits(w) ==
    /\ WorkerMoves(w, "closed", "exited")
    /\ UNCHANGED <<guard, fileVars, edits, raced>>

\* What an open that did not succeed leaves behind: an extraction can be torn
\* or incomplete, leftovers without a packed base stay.
TornExtraction ==
    IF packed = unpacked.work
    THEN {unpacked, NoUnpacked, [state |-> "damaged", work |-> {}]}
    ELSE {unpacked}

\* The worker ends before it opened the database: an import or a licence is
\* missing, or IDA refuses the file.
WorkerFails(w) ==
    /\ \/ WorkerMoves(w, "starting", "exited") /\ UNCHANGED <<unpacked, id0Lock>>
       \/ /\ WorkerMoves(w, "opening", "exited")
          /\ unpacked' \in TornExtraction
          /\ id0Lock' = Nobody
    /\ UNCHANGED <<guard, packed, backups, waived, edits, raced>>

\* It is killed with the database open.
WorkerCrashes(w) ==
    /\ \E s \in OpenStates \ {"opening"} : WorkerMoves(w, s, "exited")
    /\ id0Lock' = Nobody
    /\ UNCHANGED <<guard, packed, unpacked, backups, waived, edits, raced>>

-----------------------------------------------------------------------------
(* An IDA that Nexus did not start; a GUI with the plugin registers. *)

OtherMoves(from, to) ==
    /\ other = from
    /\ other' = to
    /\ UNCHANGED <<resolverVars, guard, worker, abandoned>>

OtherOpens == OtherMoves("absent", "open") /\ Opens(Other, FALSE)

OtherRegisters ==
    /\ OtherMoves("open", "registered")
    /\ UNCHANGED <<fileVars, edits, raced>>

OtherEdits(e) ==
    /\ other \in {"open", "registered"}
    /\ OtherMoves(other, other)
    /\ EditMade(e)

OtherCloses ==
    /\ OtherMoves("open", "gone") \/ OtherMoves("registered", "gone")
    /\ Closes(TRUE) \/ LeavesUnpacked

OtherCrashes ==
    /\ OtherMoves("open", "gone") \/ OtherMoves("registered", "gone")
    /\ id0Lock' = Nobody
    /\ UNCHANGED <<packed, unpacked, backups, waived, edits, raced>>

-----------------------------------------------------------------------------
ResolverProgress(r) ==
    \/ FirstScan(r)
    \/ SpawnLockAcquired(r)
    \/ SecondScan(r)
    \/ Probe(r)
    \/ BackupUnpacked(r)
    \/ AfterBackup(r)
    \/ SpawnWorker(r)
    \/ AwaitScans(r)
    \/ AwaitPolls(r)
    \/ LooksAtGuard(r)
    \/ LooksAtExit(r)
    \/ DiscardExtraction(r)
    \/ Leave(r)

WorkerProgress(w) ==
    \/ WorkerOpens(w)
    \/ WorkerOpened(w)
    \/ WorkerDisarms(w)
    \/ WorkerPublishes(w)
    \/ \E save \in BOOLEAN : WorkerCloses(w, save)
    \/ WorkerExits(w)
    \/ WorkerFails(w)

Next ==
    \/ \E r \in Resolvers :
         \/ \E k \in {"attach", "open", "fresh"} : ResolveStarts(r, k)
         \/ ResolverProgress(r)
         \/ GivesUp(r)
         \/ AwaitTimesOut(r)
         \/ ResolverDies(r)
         \/ WorkerProgress(r)
         \/ \E e \in Edits : WorkerEdits(r, e)
         \/ WorkerDrains(r)
         \/ WorkerStartFails(r)
         \/ WorkerCrashes(r)
    \/ OtherOpens
    \/ OtherRegisters
    \/ \E e \in Edits : OtherEdits(e)
    \/ OtherCloses
    \/ OtherCrashes

Spec == Init /\ [][Next]_vars

\* Resolvers and workers run; no deadline has to pass for a resolver to end.
FairSpec ==
    /\ Spec
    /\ \A r \in Resolvers :
         WF_vars(ResolverProgress(r)) /\ WF_vars(WorkerProgress(r))

-----------------------------------------------------------------------------
(* Properties *)

\* Every variable has its type; the two locks have the holders their programs
\* say they have.
TypeOK ==
    /\ pc \in [Resolvers -> ResolverStates]
    /\ kind \in [Resolvers -> {"attach", "open", "fresh"}]
    /\ discard \in [Resolvers -> BOOLEAN]
    /\ saveOpen \in [Resolvers -> BOOLEAN]
    /\ guard \in [Resolvers -> BOOLEAN]
    /\ worker \in [Resolvers -> WorkerStates]
    /\ other \in {"absent", "open", "registered", "gone"}
    /\ packed = Absent \/ packed \in SUBSET Edits
    /\ unpacked \in Unpacked
    /\ backups \in SUBSET Edits
    /\ edits \in SUBSET Edits
    /\ waived \in SUBSET Edits
    /\ raced \in BOOLEAN
    /\ abandoned \in BOOLEAN
    /\ spawnLock \in Resolvers \union {Nobody}
    /\ id0Lock \in Resolvers \union {Other, Nobody}
    /\ \A r \in Resolvers : spawnLock = r <=> pc[r] \in LockedStates
    /\ \A w \in Resolvers : id0Lock = w <=> worker[w] \in OpenStates

\* What is safe whatever happens to the unpacked files.
Base == IF packed = Absent THEN {} ELSE packed
Saved == Base \union backups \union waived
Kept == Saved \union unpacked.work

\* No edit is lost: whatever workers, clients and launches crash or fail, it is
\* in the packed database, in the unpacked files or in a backup, unless a
\* client gave it up or a launch was overtaken between a check and its use.
WorkPreserved == ~raced => edits \subseteq Kept

\* "Concurrent creators must share one worker": once a resolver has seen under
\* the lock that nobody owns the IDB, and until it returns, no worker but its
\* own runs, unless another resolver left its worker before that was ready.
AloneInLaunch ==
    \A r, w \in Resolvers :
        r # w /\ pc[r] \in LaunchStates \union {"probing"} /\ ~abandoned
            => ~Running(w)

\* "The worker must have exited before native opening completed": a resolver
\* that removes unpacked files holds the spawn lock, its worker is gone, and what
\* it removes is saved elsewhere, unless its launch was overtaken.
DiscardsLoseNothing ==
    [][\A r \in Resolvers :
         pc[r] = "discarding" /\ pc'[r] = "leaving" =>
             /\ spawnLock = r
             /\ ~raced => worker[r] = "exited" /\ unpacked.work \subseteq Saved]_vars

\* Every resolver ends and gives the spawn lock back, without a deadline having
\* to pass: a worker that starts, fails, dies or drains is noticed.  Each call
\* leaves "idle" once, so being at rest again and again is to have ended.
EveryResolverEnds ==
    \A r \in Resolvers : []<>(pc[r] \in {"idle", "done", "dead"})
=============================================================================
