-------------------------- MODULE InstanceRegistry --------------------------
(***************************************************************************)
(* The registry of running Nexus instances (ida_nexus/_registry.py): each  *)
(* owner holds an flock on <record>.lock and publishes <record>.json;      *)
(* scanners classify and reap records and sweep orphan lock files; a       *)
(* starting GUI looks for a live owner.                                    *)
(*                                                                         *)
(* A record identifier contains the pid and a random suffix, so it serves  *)
(* one registration.  POSIX files: a path leads to an inode, an unlinked   *)
(* inode lives on while it is open, flock belongs to the open inode and    *)
(* ends with its descriptor or its process, and an inode that is neither   *)
(* linked nor open can be used for a new file.  Each system call is one    *)
(* action; what a scanner only closes is closed in the step before.        *)
(***************************************************************************)
EXTENDS Naturals, FiniteSets

CONSTANTS
    Records,   \* record identifiers
    Scanners,  \* threads that call scan_instances
    Finders,   \* threads that call find_gui_owner
    Inodes,    \* the inodes each lock path may lead to
    NoInode,   \* a path that is absent, a descriptor that is closed
    NoRecord,  \* a scanner between records
    Nobody     \* an inode that is not locked

Owner == "owner"   \* the process that registers a record, as a lock holder
Probers == Scanners \union Finders

ASSUME RegistryAssumption ==
    /\ NoInode \notin Inodes
    /\ NoRecord \notin Records
    /\ Nobody \notin Probers \union {Owner}
    /\ Owner \notin Probers
    /\ Scanners \intersect Finders = {}

VARIABLES
    record,   \* whether <record>.json exists
    path,     \* the inode <record>.lock leads to
    holder,   \* who holds the flock of each inode
    owner,    \* where the owner of each record is in its life
    ownerFd,  \* the inode the owner has open
    pc,       \* where each prober is
    mode,     \* the loop it is in: "scan", "sweep" or "find"
    todo,     \* the directory entries it has still to visit
    current,  \* the record it looks at
    loaded,   \* whether load_registry_entry succeeded
    fd,       \* the inode it has open
    found,    \* what it reports: <<record, state>>
    present   \* the live records when it began (history)

fileVars   == <<record, path, holder>>
ownerVars  == <<owner, ownerFd>>
proberVars == <<pc, mode, todo, current, loaded, fd, found, present>>
vars == <<fileVars, ownerVars, proberVars>>

OwnerStates == {"out", "opened", "locked", "published", "stopped",
                "withdrawn", "released", "refused", "crashed"}
ProberStates == {"idle", "choosing", "opening", "trying", "probing",
                 "reaping", "closing", "unlinking", "done"}

\* The IDB of a live record is open; HTTP may have been stopped.
Live(r) == owner[r] \in {"published", "stopped"}

\* The owner's lock is not the one others find under the record's path.
Split(r) == ownerFd[r] # NoInode /\ path[r] # ownerFd[r]

Init ==
    /\ record = [r \in Records |-> FALSE]
    /\ path = [r \in Records |-> NoInode]
    /\ holder = [r \in Records |-> [i \in Inodes |-> Nobody]]
    /\ owner = [r \in Records |-> "out"]
    /\ ownerFd = [r \in Records |-> NoInode]
    /\ pc = [p \in Probers |-> "idle"]
    /\ mode = [p \in Probers |-> "scan"]
    /\ todo = [p \in Probers |-> {}]
    /\ current = [p \in Probers |-> NoRecord]
    /\ loaded = [p \in Probers |-> FALSE]
    /\ fd = [p \in Probers |-> NoInode]
    /\ found = [p \in Probers |-> {}]
    /\ present = [p \in Probers |-> {}]

-----------------------------------------------------------------------------
(* FileLock *)

Free(r, i) ==
    /\ path[r] # i
    /\ ownerFd[r] # i
    /\ \A p \in Probers : current[p] = r => fd[p] # i

\* os.open(path, O_RDWR | O_CREAT) returns inode i.
Opens(r, i) ==
    /\ IF path[r] = NoInode THEN Free(r, i) ELSE i = path[r]
    /\ path' = [path EXCEPT ![r] = i]

Locks(r, i, who) ==
    /\ holder[r][i] = Nobody
    /\ holder' = [holder EXCEPT ![r][i] = who]

\* Closing a descriptor, or the end of its process, gives its flock up.
Closes(r, i, who) ==
    holder' = IF i # NoInode /\ holder[r][i] = who
              THEN [holder EXCEPT ![r][i] = Nobody] ELSE holder

-----------------------------------------------------------------------------
(* InstanceRegistration *)

OwnerMoves(r, from, to) ==
    /\ owner[r] \in from
    /\ owner' = [owner EXCEPT ![r] = to]
    /\ UNCHANGED proberVars

OwnerOpens(r) ==
    /\ OwnerMoves(r, {"out"}, "opened")
    /\ \E i \in Inodes :
         /\ Opens(r, i)
         /\ ownerFd' = [ownerFd EXCEPT ![r] = i]
    /\ UNCHANGED <<record, holder>>

OwnerLocks(r) ==
    /\ OwnerMoves(r, {"opened"}, "locked")
    /\ Locks(r, ownerFd[r], Owner)
    /\ UNCHANGED <<record, path, ownerFd>>

\* acquire(timeout=0) tries once.
OwnerRefused(r) ==
    /\ OwnerMoves(r, {"opened"}, "refused")
    /\ holder[r][ownerFd[r]] # Nobody
    /\ ownerFd' = [ownerFd EXCEPT ![r] = NoInode]
    /\ UNCHANGED fileVars

\* publish(): os.replace makes the whole record visible at once.
OwnerPublishes(r) ==
    /\ OwnerMoves(r, {"locked"}, "published")
    /\ record' = [record EXCEPT ![r] = TRUE]
    /\ UNCHANGED <<path, holder, ownerFd>>

\* NexusServer.stop(): no health answer from here on, but the record and the
\* lock stay while the IDB is saved and closed.
StopDropsLock(r) ==   \* variant: the lock goes with the service
    [holder EXCEPT ![r][ownerFd[r]] = Nobody]
StopKeepsLock(r) == holder

OwnerStops(r) ==
    /\ OwnerMoves(r, {"published"}, "stopped")
    /\ holder' = StopKeepsLock(r)
    /\ UNCHANGED <<record, path, ownerFd>>

\* release() withdraws the record first, unless it was never published ...
OwnerWithdraws(r) ==
    /\ OwnerMoves(r, {"locked", "stopped"}, "withdrawn")
    /\ record' = [record EXCEPT ![r] = FALSE]
    /\ UNCHANGED <<path, holder, ownerFd>>

\* ... and closes the lock, leaving the lock file behind.
OwnerReleases(r) ==
    /\ OwnerMoves(r, {"withdrawn"}, "released")
    /\ Closes(r, ownerFd[r], Owner)
    /\ ownerFd' = [ownerFd EXCEPT ![r] = NoInode]
    /\ UNCHANGED <<record, path>>

\* A crash, or the exit of an idat host: the files stay, the flock ends.
OwnerDies(r) ==
    /\ OwnerMoves(r, {"opened", "locked", "published", "stopped", "withdrawn"},
                  "crashed")
    /\ Closes(r, ownerFd[r], Owner)
    /\ ownerFd' = [ownerFd EXCEPT ![r] = NoInode]
    /\ UNCHANGED <<record, path>>

-----------------------------------------------------------------------------
(* scan_instances, sweep_orphan_locks and find_gui_owner *)

Published == {r \in Records : record[r]}

\* The glob of *.json; find_gui_owner has loaded them when its loop begins.
ProberStarts(p) ==
    /\ pc[p] \in {"idle", "done"}
    /\ pc' = [pc EXCEPT ![p] = "choosing"]
    /\ mode' = [mode EXCEPT ![p] = IF p \in Scanners THEN "scan" ELSE "find"]
    /\ todo' = [todo EXCEPT ![p] = Published]
    /\ found' = [found EXCEPT ![p] = {}]
    /\ present' = [present EXCEPT ![p] = {r \in Published : Live(r)}]
    /\ UNCHANGED <<fileVars, ownerVars, current, loaded, fd>>

\* Visit the next entry.  A record that cannot be loaded any more is reaped
\* like a dead one; a lock file with a record is not an orphan.
Visits(p, r) == mode[p] = "sweep" => ~record[r]

ProberLooks(p, r) ==
    /\ pc[p] = "choosing"
    /\ r \in todo[p]
    /\ todo' = [todo EXCEPT ![p] = @ \ {r}]
    /\ IF Visits(p, r)
       THEN /\ pc' = [pc EXCEPT ![p] = "opening"]
            /\ current' = [current EXCEPT ![p] = r]
            /\ loaded' = [loaded EXCEPT ![p] = record[r] \/ mode[p] = "find"]
       ELSE UNCHANGED <<pc, current, loaded>>
    /\ UNCHANGED <<fileVars, ownerVars, mode, fd, found, present>>

ProberOpens(p) ==
    /\ pc[p] = "opening"
    /\ \E i \in Inodes :
         /\ Opens(current[p], i)
         /\ fd' = [fd EXCEPT ![p] = i]
    /\ pc' = [pc EXCEPT ![p] = "trying"]
    /\ UNCHANGED <<record, holder, ownerVars, mode, todo, current, loaded,
                   found, present>>

\* try_acquire() succeeds: nobody owns the record.
ProberAcquires(p) ==
    /\ pc[p] = "trying"
    /\ Locks(current[p], fd[p], p)
    /\ pc' = [pc EXCEPT ![p] = IF mode[p] = "scan" THEN "reaping" ELSE "closing"]
    /\ UNCHANGED <<record, path, ownerVars, mode, todo, current, loaded, fd,
                   found, present>>

\* try_acquire() fails and the descriptor is closed.
KeepRecord(p) == UNCHANGED current   \* variant: the entry is not left
LeaveRecord(p) == current' = [current EXCEPT ![p] = NoRecord]

\* A held record is asked for its health.
AnswersOnly(p) ==   \* variant: a record that will not answer is skipped
    mode[p] # "sweep" /\ owner[current[p]] = "published"
Reportable(p) == mode[p] # "sweep" /\ loaded[p]

ProberFindsHeld(p) ==
    /\ pc[p] = "trying"
    /\ holder[current[p]][fd[p]] # Nobody
    /\ fd' = [fd EXCEPT ![p] = NoInode]
    /\ IF Reportable(p)
       THEN /\ pc' = [pc EXCEPT ![p] = "probing"]
            /\ UNCHANGED current
       ELSE /\ pc' = [pc EXCEPT ![p] = "choosing"]
            /\ LeaveRecord(p)
    /\ UNCHANGED <<fileVars, ownerVars, mode, todo, loaded, found, present>>

\* A held record is READY when its owner answers, BLOCKED otherwise;
\* find_gui_owner does not ask and returns the first one.
Health(r) == IF owner[r] = "published" THEN "READY" ELSE "BLOCKED"

ProberReports(p) ==
    /\ pc[p] = "probing"
    /\ found' = [found EXCEPT ![p] = @ \union
                   {<<current[p], IF mode[p] = "find" THEN "OWNER"
                                  ELSE Health(current[p])>>}]
    /\ pc' = [pc EXCEPT ![p] = IF mode[p] = "find" THEN "done" ELSE "choosing"]
    /\ LeaveRecord(p)
    /\ UNCHANGED <<fileVars, ownerVars, mode, todo, loaded, fd, present>>

\* _reap_locked_record: the record goes while the lock is held ...
ReapsNothing(p) == record   \* variant: only the lock file is removed
Reaped(p) == [record EXCEPT ![current[p]] = FALSE]

ProberReaps(p) ==
    /\ pc[p] = "reaping"
    /\ record' = Reaped(p)
    /\ pc' = [pc EXCEPT ![p] = "closing"]
    /\ UNCHANGED <<path, holder, ownerVars, mode, todo, current, loaded, fd,
                   found, present>>

\* ... the lock is closed ...
ProberCloses(p) ==
    /\ pc[p] = "closing"
    /\ Closes(current[p], fd[p], p)
    /\ fd' = [fd EXCEPT ![p] = NoInode]
    /\ IF mode[p] = "find"
       THEN /\ pc' = [pc EXCEPT ![p] = "choosing"]
            /\ LeaveRecord(p)
       ELSE /\ pc' = [pc EXCEPT ![p] = "unlinking"]
            /\ UNCHANGED current
    /\ UNCHANGED <<record, path, ownerVars, mode, todo, loaded, found, present>>

\* ... and its path is unlinked, whatever inode it leads to by now.
UnlinksNothing(p) == path   \* variant: reaped lock files stay
Unlinked(p) == [path EXCEPT ![current[p]] = NoInode]

ProberUnlinks(p) ==
    /\ pc[p] = "unlinking"
    /\ path' = Unlinked(p)
    /\ pc' = [pc EXCEPT ![p] = "choosing"]
    /\ LeaveRecord(p)
    /\ UNCHANGED <<record, holder, ownerVars, mode, todo, loaded, fd, found,
                   present>>

\* The loop over the records is followed by the sweep of *.lock.
SweepStarts(p) ==
    /\ pc[p] = "choosing"
    /\ todo[p] = {}
    /\ mode[p] = "scan"
    /\ mode' = [mode EXCEPT ![p] = "sweep"]
    /\ todo' = [todo EXCEPT ![p] = {r \in Records : path[r] # NoInode}]
    /\ UNCHANGED <<fileVars, ownerVars, pc, current, loaded, fd, found, present>>

ProberEnds(p) ==
    /\ pc[p] = "choosing"
    /\ todo[p] = {}
    /\ mode[p] # "scan"
    /\ pc' = [pc EXCEPT ![p] = "done"]
    /\ UNCHANGED <<fileVars, ownerVars, mode, todo, current, loaded, fd, found,
                   present>>

\* Its process ends in the middle, and its flock with it.
ProberDies(p) ==
    /\ pc[p] \notin {"idle", "done"}
    /\ IF current[p] = NoRecord THEN UNCHANGED holder
       ELSE Closes(current[p], fd[p], p)
    /\ fd' = [fd EXCEPT ![p] = NoInode]
    /\ pc' = [pc EXCEPT ![p] = "idle"]
    /\ LeaveRecord(p)
    /\ UNCHANGED <<record, path, ownerVars, mode, todo, loaded, found, present>>

-----------------------------------------------------------------------------
OwnerStep(r) ==
    \/ OwnerOpens(r)
    \/ OwnerLocks(r)
    \/ OwnerRefused(r)
    \/ OwnerPublishes(r)
    \/ OwnerStops(r)
    \/ OwnerWithdraws(r)
    \/ OwnerReleases(r)
    \/ OwnerDies(r)

ProberProgress(p) ==
    \/ \E r \in Records : ProberLooks(p, r)
    \/ ProberOpens(p)
    \/ ProberAcquires(p)
    \/ ProberFindsHeld(p)
    \/ ProberReports(p)
    \/ ProberReaps(p)
    \/ ProberCloses(p)
    \/ ProberUnlinks(p)
    \/ SweepStarts(p)
    \/ ProberEnds(p)

Next ==
    \/ \E r \in Records : OwnerStep(r)
    \/ \E p \in Probers : ProberStarts(p) \/ ProberProgress(p) \/ ProberDies(p)

Spec == Init /\ [][Next]_vars

\* A scan that has begun goes on, unless its process dies.
FairSpec == Spec /\ \A p \in Probers : WF_vars(ProberProgress(p))

-----------------------------------------------------------------------------
(* Properties *)

\* Every variable has its type, and a prober has a record and a descriptor
\* exactly while it works on one.
TypeOK ==
    /\ record \in [Records -> BOOLEAN]
    /\ path \in [Records -> Inodes \union {NoInode}]
    /\ holder \in [Records -> [Inodes -> Probers \union {Owner, Nobody}]]
    /\ owner \in [Records -> OwnerStates]
    /\ ownerFd \in [Records -> Inodes \union {NoInode}]
    /\ pc \in [Probers -> ProberStates]
    /\ mode \in [Probers -> {"scan", "sweep", "find"}]
    /\ todo \in [Probers -> SUBSET Records]
    /\ current \in [Probers -> Records \union {NoRecord}]
    /\ loaded \in [Probers -> BOOLEAN]
    /\ fd \in [Probers -> Inodes \union {NoInode}]
    /\ found \in [Probers -> SUBSET (Records \X {"READY", "BLOCKED", "OWNER"})]
    /\ present \in [Probers -> SUBSET Records]
    /\ \A p \in Probers :
         /\ current[p] = NoRecord <=> pc[p] \in {"idle", "choosing", "done"}
         /\ fd[p] # NoInode <=> pc[p] \in {"trying", "reaping", "closing"}

\* "The registry record and its lifetime lock remain together": the record of a
\* process that lives is published and withdrawn under its flock.
RecordUnderLock ==
    \A r \in Records : record[r] /\ owner[r] # "crashed" =>
        ownerFd[r] # NoInode /\ holder[r][ownerFd[r]] = Owner

\* As long as the record's path leads to the lock its owner holds, nobody but
\* the owner removes the record, however scans, sweeps and crashes of other
\* scanners interleave.
ReapedOnlyWhenDead ==
    [][\A r \in Records :
         Live(r) /\ ~Split(r) /\ record[r] /\ ~record'[r] =>
             owner'[r] = "withdrawn"]_vars

\* A scan, and the search for a GUI owner, report every instance that was live
\* all the time: nobody spawns over a worker that is still closing its IDB.
LiveInstancesReported ==
    \A p \in Probers : pc[p] = "done" =>
        \/ \A r \in present[p] :
             Live(r) /\ ~Split(r) => \E f \in found[p] : f[1] = r
        \/ p \in Finders /\ found[p] # {}

\* What the registry says is true of the processes: see the two parts.
RegistryIsTrue == RecordUnderLock /\ LiveInstancesReported

ScansGoOn == \E s \in Scanners : []<>(pc[s] = "choosing" /\ mode[s] = "scan")
ProbersSurvive == <>[][\A p \in Probers : ~ProberDies(p)]_vars
FindersRest == <>[](\A p \in Finders : pc[p] \in {"idle", "done"})

\* "Any scanner may then reap the JSON and lock files": the files of a killed
\* process disappear when scans go on, whatever a scanner that died left.
DeadRecordsReaped ==
    ScansGoOn /\ ProbersSurvive /\ FindersRest =>
        \A r \in Records : owner[r] = "crashed" ~> ~record[r]

\* "Acquirable orphan instance locks are swept": no lock file of a finished
\* registration stays when scans go on.
OrphanLocksSwept ==
    ScansGoOn /\ ProbersSurvive /\ FindersRest =>
        \A r \in Records :
            owner[r] \in {"released", "refused", "crashed"} ~> path[r] = NoInode

\* Neither the record nor the lock file of a finished registration stays.
NothingIsLeftBehind == DeadRecordsReaped /\ OrphanLocksSwept

\* "Only DEAD records may be removed": the record of an instance whose process
\* lives and has not withdrawn it is there.
OnlyDeadRemoved == \A r \in Records : Live(r) => record[r]
=============================================================================
