------------------------ MODULE InstanceRegistry_proofs ------------------------
(***************************************************************************)
(* Safety of InstanceRegistry for any number of records, scanners, finders *)
(* and inodes: a record is under its owner's lock, only dead records are   *)
(* reaped, and live instances are reported.                                *)
(*                                                                         *)
(* The argument is about the inode a prober has open.  A list of records is*)
(* made of published ones, so whoever looks at a record from such a list   *)
(* opened its lock after the owner did; as long as the path still leads to *)
(* the owner's inode it is that one (FdIsOwners), which the owner has      *)
(* locked (OwnerHolds), so the prober cannot acquire it and has to report  *)
(* the record (Reporting).  The path never comes back to the owner's inode *)
(* once it has been unlinked (OwnerFacts).                                 *)
(***************************************************************************)
EXTENDS InstanceRegistry, TLAPS

\* The owner has published, once.
Past(r) == owner[r] \in {"published", "stopped", "withdrawn", "released", "crashed"}

\* A locked owner has the lock, and a record is there from publication on.
OwnerHolds ==
  \A r \in Records :
    /\ owner[r] \in {"locked", "published", "stopped", "withdrawn"} =>
         ownerFd[r] # NoInode /\ holder[r][ownerFd[r]] = Owner
    /\ owner[r] = "opened" => ownerFd[r] # NoInode
    /\ record[r] => owner[r] \in {"published", "stopped", "crashed"}

\* A prober that does not sweep looks at published records.
ListedPast ==
  \A p \in Probers :
    /\ \A r \in present[p] : Past(r)
    /\ mode[p] # "sweep" => \A r \in todo[p] : Past(r)
    /\ mode[p] # "sweep" /\ current[p] # NoRecord => Past(current[p])

FdIsOwners ==
  \A p \in Probers :
    pc[p] \in {"trying", "reaping"} /\ mode[p] # "sweep"
      /\ Live(current[p]) /\ ~Split(current[p])
    => fd[p] = ownerFd[current[p]]

ReaperHolds ==
  \A p \in Probers :
    pc[p] = "reaping" => mode[p] = "scan" /\ holder[current[p]][fd[p]] = p

RecordThere == \A r \in Records : Live(r) /\ ~Split(r) => record[r]

\* A live instance is still on the list, looked at, or reported.
Reporting ==
  \A p \in Probers : pc[p] # "idle" =>
    \/ p \in Finders /\ found[p] # {}
    \/ \A r \in present[p] : Live(r) /\ ~Split(r) =>
         \/ mode[p] # "sweep" /\ r \in todo[p]
         \/ /\ mode[p] # "sweep" /\ current[p] = r /\ loaded[p]
            /\ pc[p] \in {"opening", "trying", "probing"}
         \/ \E f \in found[p] : f[1] = r

\* A prober is done with its list, or a finder with what it looked for.
ListEnds ==
  \A p \in Probers :
    /\ pc[p] = "done" => todo[p] = {} \/ (p \in Finders /\ found[p] # {})
    /\ mode[p] = "find" => p \in Finders

RInv == /\ TypeOK /\ OwnerHolds /\ ListedPast /\ FdIsOwners /\ ReaperHolds
        /\ RecordThere /\ Reporting /\ ListEnds

\* At first there are no files.
LEMMA InitRInv == Init => RInv
  BY RegistryAssumption DEF Init, RInv, TypeOK, OwnerHolds, ListedPast, FdIsOwners, ReaperHolds,
     RecordThere, Reporting, ListEnds, Past, Live, Split, OwnerStates, ProberStates, Probers, Owner

-----------------------------------------------------------------------------
HolderType == [Records -> [Inodes -> Probers \union {Owner, Nobody}]]

\* Taking a lock and giving one up, as far as types go.
LEMMA HolderTypes ==
  ASSUME TypeOK, NEW r \in Records, NEW i
  PROVE  /\ holder \in HolderType
         /\ \A who \in Probers \union {Owner, Nobody} : [holder EXCEPT ![r][i] = who] \in HolderType
  <1>1. holder \in HolderType
    BY DEF TypeOK, HolderType
  <1>2. \A who \in Probers \union {Owner, Nobody} :
          [holder[r] EXCEPT ![i] = who] \in [Inodes -> Probers \union {Owner, Nobody}]
    BY <1>1 DEF HolderType
  <1> QED
    BY <1>1, <1>2 DEF HolderType

\* Types, for the steps of an owner.
LEMMA OwnerTypes == ASSUME NEW r \in Records, TypeOK, OwnerStep(r) PROVE TypeOK'
  <1>1. CASE OwnerOpens(r)
    <2>1. path' \in [Records -> Inodes \union {NoInode}]
      BY <1>1 DEF OwnerOpens, Opens, TypeOK
    <2>2. owner' \in [Records -> OwnerStates] /\ ownerFd' \in [Records -> Inodes \union {NoInode}]
      BY <1>1 DEF OwnerOpens, OwnerMoves, TypeOK, OwnerStates
    <2>3. UNCHANGED <<record, holder, proberVars>>
      BY <1>1 DEF OwnerOpens, OwnerMoves
    <2> QED
      BY <2>1, <2>2, <2>3 DEF TypeOK, proberVars
  <1>2. CASE OwnerLocks(r) \/ OwnerStops(r)
    <2>1. holder' \in HolderType
      BY <1>2, HolderTypes DEF OwnerLocks, OwnerStops, StopKeepsLock, Locks
    <2>2. owner' \in [Records -> OwnerStates]
      BY <1>2 DEF OwnerLocks, OwnerStops, OwnerMoves, TypeOK, OwnerStates
    <2>3. UNCHANGED <<record, path, ownerFd, proberVars>>
      BY <1>2 DEF OwnerLocks, OwnerStops, OwnerMoves
    <2> QED
      BY <2>1, <2>2, <2>3 DEF TypeOK, proberVars, HolderType
  <1>3. CASE OwnerRefused(r) \/ OwnerPublishes(r) \/ OwnerWithdraws(r)
    <2>1. /\ owner' \in [Records -> OwnerStates]
          /\ record' \in [Records -> BOOLEAN]
          /\ ownerFd' \in [Records -> Inodes \union {NoInode}]
      BY <1>3 DEF OwnerRefused, OwnerPublishes, OwnerWithdraws, OwnerMoves, TypeOK, OwnerStates,
         fileVars
    <2>2. UNCHANGED <<path, holder, proberVars>>
      BY <1>3 DEF OwnerRefused, OwnerPublishes, OwnerWithdraws, OwnerMoves, fileVars
    <2> QED
      BY <2>1, <2>2 DEF TypeOK, proberVars
  <1>4. CASE OwnerReleases(r) \/ OwnerDies(r)
    <2>1. holder' \in HolderType
      <3>1. Closes(r, ownerFd[r], Owner)
        BY <1>4 DEF OwnerReleases, OwnerDies
      <3> QED
        BY <3>1, HolderTypes DEF Closes
    <2>2. owner' \in [Records -> OwnerStates] /\ ownerFd' \in [Records -> Inodes \union {NoInode}]
      BY <1>4 DEF OwnerReleases, OwnerDies, OwnerMoves, TypeOK, OwnerStates
    <2>3. UNCHANGED <<record, path, proberVars>>
      BY <1>4 DEF OwnerReleases, OwnerDies, OwnerMoves
    <2> QED
      BY <2>1, <2>2, <2>3 DEF TypeOK, proberVars, HolderType
  <1> QED
    BY <1>1, <1>2, <1>3, <1>4 DEF OwnerStep

\* Types, for a step that moves one prober and leaves its plan alone.
LEMMA ProberMoveTypes ==
  ASSUME TypeOK, NEW p \in Probers, NEW to \in ProberStates, NEW r \in Records \union {NoRecord},
         NEW i \in Inodes \union {NoInode},
         pc' = [pc EXCEPT ![p] = to], current' = [current EXCEPT ![p] = r],
         fd' = [fd EXCEPT ![p] = i],
         r = NoRecord <=> to \in {"idle", "choosing", "done"},
         i # NoInode <=> to \in {"trying", "reaping", "closing"},
         record' \in [Records -> BOOLEAN], path' \in [Records -> Inodes \union {NoInode}],
         holder' \in HolderType,
         UNCHANGED <<ownerVars, mode, todo, loaded, found, present>>
  PROVE  TypeOK'
  <1>1. /\ pc' \in [Probers -> ProberStates] /\ fd' \in [Probers -> Inodes \union {NoInode}]
        /\ current' \in [Probers -> Records \union {NoRecord}]
    BY DEF TypeOK
  <1>2. ASSUME NEW q \in Probers
        PROVE  /\ current'[q] = NoRecord <=> pc'[q] \in {"idle", "choosing", "done"}
               /\ fd'[q] # NoInode <=> pc'[q] \in {"trying", "reaping", "closing"}
    BY DEF TypeOK
  <1>3. /\ owner' \in [Records -> OwnerStates] /\ ownerFd' \in [Records -> Inodes \union {NoInode}]
        /\ mode' \in [Probers -> {"scan", "sweep", "find"}] /\ todo' \in [Probers -> SUBSET Records]
        /\ loaded' \in [Probers -> BOOLEAN] /\ present' \in [Probers -> SUBSET Records]
        /\ found' \in [Probers -> SUBSET (Records \X {"READY", "BLOCKED", "OWNER"})]
    BY DEF TypeOK, ownerVars
  <1> QED
    BY <1>1, <1>2, <1>3 DEF TypeOK, HolderType

\* Types, for the steps of a prober.
LEMMA ProberTypes ==
  ASSUME NEW p \in Probers, TypeOK, ProberStarts(p) \/ ProberProgress(p) \/ ProberDies(p)
  PROVE  TypeOK'
  <1>1. CASE ProberStarts(p)
    BY <1>1 DEF ProberStarts, Published, TypeOK, ProberStates, fileVars, ownerVars
  <1>2. ASSUME NEW r \in Records, ProberLooks(p, r) PROVE TypeOK'
    <2>1. CASE Visits(p, r)
      <3>0. (record[r] \/ mode[p] = "find") \in BOOLEAN
        OBVIOUS
      <3>1. \E b \in BOOLEAN : loaded' = [loaded EXCEPT ![p] = b]
        BY <1>2, <2>1, <3>0, Zenon DEF ProberLooks
      <3>2. loaded' \in [Probers -> BOOLEAN]
        BY <3>1 DEF TypeOK
      <3>3. /\ pc' = [pc EXCEPT ![p] = "opening"] /\ current' = [current EXCEPT ![p] = r]
            /\ todo' = [todo EXCEPT ![p] = @ \ {r}] /\ pc[p] = "choosing"
            /\ UNCHANGED <<fileVars, ownerVars, mode, fd, found, present>>
        BY <1>2, <2>1, Zenon DEF ProberLooks
      <3> QED
        BY <3>2, <3>3, RegistryAssumption DEF TypeOK, ProberStates, fileVars, ownerVars
    <2>2. CASE ~Visits(p, r)
      BY <1>2, <2>2 DEF ProberLooks, TypeOK, fileVars, ownerVars
    <2> QED
      BY <2>1, <2>2
  <1>3. CASE ProberOpens(p)
    <2>1. PICK i \in Inodes : Opens(current[p], i) /\ fd' = [fd EXCEPT ![p] = i]
      BY <1>3 DEF ProberOpens
    <2>2. /\ pc[p] = "opening" /\ pc' = [pc EXCEPT ![p] = "trying"]
          /\ UNCHANGED <<record, holder, ownerVars, mode, todo, current, loaded, found, present>>
      BY <1>3 DEF ProberOpens
    <2>3. current[p] \in Records /\ current' = [current EXCEPT ![p] = current[p]]
      BY <2>2 DEF TypeOK
    <2>4. path' \in [Records -> Inodes \union {NoInode}]
      BY <2>1, <2>3 DEF Opens, TypeOK
    <2>5. record' \in [Records -> BOOLEAN] /\ holder' \in HolderType
      BY <2>2 DEF TypeOK, HolderType
    <2>6. "trying" \in ProberStates /\ current[p] # NoRecord /\ i # NoInode
      BY <2>3, RegistryAssumption DEF ProberStates
    <2> QED
      BY <2>1, <2>2, <2>3, <2>4, <2>5, <2>6, ProberMoveTypes
  <1>4. CASE ProberAcquires(p)
    <2>1. PICK to \in {"reaping", "closing"} : pc' = [pc EXCEPT ![p] = to]
      BY <1>4 DEF ProberAcquires
    <2>2. /\ pc[p] = "trying" /\ Locks(current[p], fd[p], p)
          /\ UNCHANGED <<record, path, ownerVars, mode, todo, current, loaded, fd, found, present>>
      BY <1>4 DEF ProberAcquires
    <2>3. /\ current[p] \in Records /\ current' = [current EXCEPT ![p] = current[p]]
          /\ fd[p] \in Inodes /\ fd[p] # NoInode /\ fd' = [fd EXCEPT ![p] = fd[p]]
      BY <2>2 DEF TypeOK
    <2>4. holder' \in HolderType
      BY <2>2, <2>3, HolderTypes DEF Locks
    <2>5. record' \in [Records -> BOOLEAN] /\ path' \in [Records -> Inodes \union {NoInode}]
      BY <2>2 DEF TypeOK
    <2>6. /\ to \in ProberStates /\ current[p] \in Records \union {NoRecord}
          /\ current[p] = NoRecord <=> to \in {"idle", "choosing", "done"}
          /\ fd[p] # NoInode <=> to \in {"trying", "reaping", "closing"}
      BY <2>1, <2>3, RegistryAssumption DEF ProberStates
    <2>7. UNCHANGED <<ownerVars, mode, todo, loaded, found, present>>
      BY <2>2
    <2> QED
      BY <2>1, <2>3, <2>4, <2>5, <2>6, <2>7, ProberMoveTypes
  <1>5. CASE ProberFindsHeld(p)
    <2>1. /\ pc[p] = "trying" /\ fd' = [fd EXCEPT ![p] = NoInode]
          /\ UNCHANGED <<fileVars, ownerVars, mode, todo, loaded, found, present>>
          /\ \/ pc' = [pc EXCEPT ![p] = "probing"] /\ current' = current
             \/ pc' = [pc EXCEPT ![p] = "choosing"] /\ LeaveRecord(p)
      BY <1>5, Zenon DEF ProberFindsHeld
    <2>2. current[p] \in Records /\ current[p] # NoRecord /\ current = [current EXCEPT ![p] = current[p]]
      BY <2>1, RegistryAssumption DEF TypeOK
    <2>3. /\ record' \in [Records -> BOOLEAN] /\ path' \in [Records -> Inodes \union {NoInode}]
          /\ holder' \in HolderType
      BY <2>1 DEF TypeOK, HolderType, fileVars
    <2>4. "probing" \in ProberStates /\ "choosing" \in ProberStates
      BY DEF ProberStates
    <2>5. CASE pc' = [pc EXCEPT ![p] = "probing"] /\ current' = current
      BY <2>1, <2>2, <2>3, <2>4, <2>5, ProberMoveTypes
    <2>6. CASE pc' = [pc EXCEPT ![p] = "choosing"] /\ LeaveRecord(p)
      BY <2>1, <2>3, <2>4, <2>6, ProberMoveTypes DEF LeaveRecord
    <2> QED
      BY <2>1, <2>5, <2>6
  <1>6. CASE ProberReports(p)
    BY <1>6 DEF ProberReports, Health, LeaveRecord, TypeOK, ProberStates, fileVars, ownerVars
  <1>7. CASE ProberReaps(p)
    BY <1>7 DEF ProberReaps, Reaped, TypeOK, ProberStates, ownerVars
  <1>8. CASE ProberCloses(p)
    <2>1. /\ pc[p] = "closing" /\ Closes(current[p], fd[p], p) /\ fd' = [fd EXCEPT ![p] = NoInode]
          /\ UNCHANGED <<record, path, ownerVars, mode, todo, loaded, found, present>>
          /\ \/ pc' = [pc EXCEPT ![p] = "unlinking"] /\ current' = current
             \/ pc' = [pc EXCEPT ![p] = "choosing"] /\ LeaveRecord(p)
      BY <1>8, Zenon DEF ProberCloses
    <2>2. current[p] \in Records /\ current[p] # NoRecord /\ current = [current EXCEPT ![p] = current[p]]
      BY <2>1, RegistryAssumption DEF TypeOK
    <2>3. holder' \in HolderType
      BY <2>1, <2>2, HolderTypes DEF Closes
    <2>4. record' \in [Records -> BOOLEAN] /\ path' \in [Records -> Inodes \union {NoInode}]
      BY <2>1 DEF TypeOK
    <2>5. "unlinking" \in ProberStates /\ "choosing" \in ProberStates
      BY DEF ProberStates
    <2>6. CASE pc' = [pc EXCEPT ![p] = "unlinking"] /\ current' = current
      BY <2>1, <2>2, <2>3, <2>4, <2>5, <2>6, ProberMoveTypes
    <2>7. CASE pc' = [pc EXCEPT ![p] = "choosing"] /\ LeaveRecord(p)
      BY <2>1, <2>3, <2>4, <2>5, <2>7, ProberMoveTypes DEF LeaveRecord
    <2> QED
      BY <2>1, <2>6, <2>7
  <1>9. CASE ProberUnlinks(p)
    BY <1>9 DEF ProberUnlinks, Unlinked, LeaveRecord, TypeOK, ProberStates, ownerVars
  <1>10. CASE SweepStarts(p) \/ ProberEnds(p)
    <2>1. todo' \in [Probers -> SUBSET Records]
      BY <1>10 DEF SweepStarts, ProberEnds, TypeOK
    <2>2. pc' \in [Probers -> ProberStates] /\ mode' \in [Probers -> {"scan", "sweep", "find"}]
      BY <1>10 DEF SweepStarts, ProberEnds, TypeOK, ProberStates
    <2>3. \A q \in Probers : pc[q] = pc'[q] \/ (pc[q] = "choosing" /\ pc'[q] = "done")
      BY <1>10 DEF SweepStarts, ProberEnds, TypeOK
    <2> QED
      BY <1>10, <2>1, <2>2, <2>3 DEF SweepStarts, ProberEnds, TypeOK, fileVars, ownerVars
  <1>11. CASE ProberDies(p)
    <2>1. holder' \in HolderType
      <3>1. CASE current[p] = NoRecord
        BY <1>11, <3>1 DEF ProberDies, TypeOK, HolderType
      <3>2. CASE current[p] # NoRecord
        <4>1. current[p] \in Records
          BY <3>2 DEF TypeOK
        <4>2. Closes(current[p], fd[p], p)
          BY <1>11, <3>2 DEF ProberDies
        <4> QED
          BY <4>1, <4>2, HolderTypes DEF Closes
      <3> QED
        BY <3>1, <3>2
    <2> QED
      BY <1>11, <2>1 DEF ProberDies, LeaveRecord, TypeOK, ProberStates, ownerVars, HolderType
  <1> QED
    BY <1>1, <1>2, <1>3, <1>4, <1>5, <1>6, <1>7, <1>8, <1>9, <1>10, <1>11 DEF ProberProgress

\* Every step keeps the types.
LEMMA TypeStep == TypeOK /\ [Next]_vars => TypeOK'
  <1>1. CASE UNCHANGED vars
    BY <1>1 DEF TypeOK, vars, fileVars, ownerVars, proberVars
  <1> QED
    BY <1>1, OwnerTypes, ProberTypes DEF Next

-----------------------------------------------------------------------------
\* What no step undoes: publication, and the split of a lock from its path.
LEMMA OwnerFacts ==
  ASSUME TypeOK, [Next]_vars, NEW r \in Records
  PROVE  /\ Past(r) => Past(r)'
         /\ Past(r) /\ Live(r)' => Live(r)
         /\ Live(r) /\ Live(r)' => ownerFd'[r] = ownerFd[r]
         /\ Live(r) /\ Live(r)' /\ Split(r) => Split(r)'
  <1>1. ASSUME NEW q \in Records, OwnerStep(q)
        PROVE  /\ Past(r) => Past(r)'
               /\ Past(r) /\ Live(r)' => Live(r)
               /\ Live(r) => ownerFd'[r] = ownerFd[r] \/ ~Live(r)'
               /\ Live(r) => path'[r] = path[r]
    BY <1>1 DEF OwnerStep, OwnerOpens, OwnerLocks, OwnerRefused, OwnerPublishes, OwnerStops,
       OwnerWithdraws, OwnerReleases, OwnerDies, OwnerMoves, Opens, Past, Live, TypeOK, fileVars
  <1>2. ASSUME NEW p \in Probers, ProberStarts(p) \/ ProberProgress(p) \/ ProberDies(p)
        PROVE  UNCHANGED ownerVars
    BY <1>2 DEF ProberProgress, ProberStarts, ProberLooks, ProberOpens, ProberAcquires,
       ProberFindsHeld, ProberReports, ProberReaps, ProberCloses, ProberUnlinks, SweepStarts,
       ProberEnds, ProberDies
  <1>3. ASSUME NEW p \in Probers, ProberStarts(p) \/ ProberProgress(p) \/ ProberDies(p)
        PROVE  \/ path'[r] = path[r] \/ path'[r] = NoInode
               \/ path[r] = NoInode /\ Free(r, path'[r])
    BY <1>3 DEF ProberProgress, ProberStarts, ProberLooks, ProberOpens, Opens, ProberAcquires,
       ProberFindsHeld, ProberReports, ProberReaps, ProberCloses, ProberUnlinks, Unlinked,
       SweepStarts, ProberEnds, ProberDies, fileVars, TypeOK
  <1>4. CASE \E q \in Records : OwnerStep(q)
    BY <1>1, <1>4 DEF Split
  <1>5. CASE \E p \in Probers : ProberStarts(p) \/ ProberProgress(p) \/ ProberDies(p)
    BY <1>2, <1>3, <1>5 DEF Split, Past, Live, ownerVars, Free
  <1>6. CASE UNCHANGED vars
    BY <1>6 DEF vars, ownerVars, fileVars, Past, Live, Split
  <1> QED
    BY <1>4, <1>5, <1>6 DEF Next

\* The owner has its lock while it has its record.
LEMMA OwnerHoldsStep == TypeOK /\ ReaperHolds /\ OwnerHolds /\ [Next]_vars => OwnerHolds'
  <1> SUFFICES ASSUME TypeOK, OwnerHolds, [Next]_vars, NEW r \in Records
               PROVE  /\ owner'[r] \in {"locked", "published", "stopped", "withdrawn"} =>
                           ownerFd'[r] # NoInode /\ holder'[r][ownerFd'[r]] = Owner
                      /\ owner'[r] = "opened" => ownerFd'[r] # NoInode
                      /\ record'[r] => owner'[r] \in {"published", "stopped", "crashed"}
    BY DEF OwnerHolds
  <1>1. ASSUME NEW q \in Records, OwnerStep(q), q # r
        PROVE  /\ owner'[r] = owner[r] /\ ownerFd'[r] = ownerFd[r] /\ holder'[r] = holder[r]
               /\ record'[r] = record[r]
    <2>1. holder' = holder \/ Locks(q, ownerFd[q], Owner) \/ Closes(q, ownerFd[q], Owner)
      BY <1>1, Zenon DEF OwnerStep, OwnerOpens, OwnerLocks, OwnerRefused, OwnerPublishes, OwnerStops,
         StopKeepsLock, OwnerWithdraws, OwnerReleases, OwnerDies, fileVars
    <2>2. holder'[r] = holder[r]
      BY <1>1, <2>1 DEF Locks, Closes, TypeOK
    <2>3. owner'[r] = owner[r]
      BY <1>1 DEF OwnerStep, OwnerOpens, OwnerLocks, OwnerRefused, OwnerPublishes, OwnerStops,
         OwnerWithdraws, OwnerReleases, OwnerDies, OwnerMoves, TypeOK
    <2>4. ownerFd'[r] = ownerFd[r] /\ record'[r] = record[r]
      BY <1>1 DEF OwnerStep, OwnerOpens, OwnerLocks, OwnerRefused, OwnerPublishes, OwnerStops,
         OwnerWithdraws, OwnerReleases, OwnerDies, TypeOK, fileVars
    <2> QED
      BY <2>2, <2>3, <2>4
  <1>2. CASE OwnerOpens(r)
    <2>1. owner'[r] = "opened" /\ ~record'[r] /\ ownerFd'[r] \in Inodes
      BY <1>2 DEF OwnerOpens, OwnerMoves, TypeOK, OwnerHolds
    <2> QED
      BY <2>1, RegistryAssumption
  <1>3. CASE OwnerLocks(r)
    <2>1. ownerFd[r] \in Inodes /\ ownerFd[r] # NoInode
      BY <1>3 DEF OwnerLocks, OwnerMoves, OwnerHolds, TypeOK
    <2>2. holder'[r][ownerFd[r]] = Owner
      BY <1>3, <2>1 DEF OwnerLocks, Locks, TypeOK
    <2> QED
      BY <1>3, <2>1, <2>2 DEF OwnerLocks, OwnerMoves, OwnerHolds, TypeOK
  <1>4. CASE OwnerRefused(r) \/ OwnerPublishes(r) \/ OwnerStops(r) \/ OwnerWithdraws(r)
    BY <1>4 DEF OwnerRefused, OwnerPublishes, OwnerStops, StopKeepsLock, OwnerWithdraws, OwnerMoves,
       OwnerHolds, TypeOK, fileVars
  <1>5. CASE OwnerReleases(r) \/ OwnerDies(r)
    BY <1>5 DEF OwnerReleases, OwnerDies, OwnerMoves, OwnerHolds, TypeOK
  <1>6. ASSUME NEW p \in Probers, ProberStarts(p) \/ ProberProgress(p) \/ ProberDies(p)
        PROVE  /\ owner'[r] = owner[r] /\ ownerFd'[r] = ownerFd[r]
               /\ record'[r] => record[r]
               /\ \A i \in Inodes : holder[r][i] = Owner => holder'[r][i] = Owner
    <2>1. UNCHANGED ownerVars /\ (record'[r] => record[r])
      BY <1>6 DEF ProberProgress, ProberStarts, ProberLooks, ProberOpens, ProberAcquires,
         ProberFindsHeld, ProberReports, ProberReaps, Reaped, ProberCloses, ProberUnlinks,
         SweepStarts, ProberEnds, ProberDies, fileVars, TypeOK
    <2>5. \A i \in Inodes : holder[r][i] = Owner => holder'[r][i] = Owner
      <3>2. CASE ProberAcquires(p)
        BY <3>2, RegistryAssumption DEF ProberAcquires, Locks, TypeOK
      <3>3. CASE ProberCloses(p) \/ ProberDies(p)
        <4>1. holder' = holder \/ Closes(current[p], fd[p], p)
          BY <3>3 DEF ProberCloses, ProberDies
        <4>2. CASE holder' = [holder EXCEPT ![current[p]][fd[p]] = Nobody] /\ holder[current[p]][fd[p]] = p
          BY <4>2, RegistryAssumption DEF TypeOK
        <4> QED
          BY <4>1, <4>2 DEF Closes
      <3>4. CASE UNCHANGED holder
        BY <3>4
      <3> QED
        BY <1>6, <3>2, <3>3, <3>4 DEF ProberProgress, ProberStarts, ProberLooks, ProberOpens,
           ProberFindsHeld, ProberReports, ProberReaps, ProberUnlinks, SweepStarts, ProberEnds, fileVars
    <2> QED
      BY <2>1, <2>5 DEF ownerVars
  <1>7. CASE \E q \in Records : OwnerStep(q)
    BY <1>1, <1>2, <1>3, <1>4, <1>5, <1>7 DEF OwnerStep, OwnerHolds
  <1>8. CASE \E p \in Probers : ProberStarts(p) \/ ProberProgress(p) \/ ProberDies(p)
    <2>1. ownerFd[r] \in Inodes \union {NoInode}
      BY DEF TypeOK
    <2> QED
      BY <1>6, <1>8, <2>1 DEF OwnerHolds
  <1>9. CASE UNCHANGED vars
    BY <1>9 DEF vars, ownerVars, fileVars, OwnerHolds
  <1> QED
    BY <1>7, <1>8, <1>9 DEF Next


-----------------------------------------------------------------------------
Own(p) == ProberStarts(p) \/ ProberProgress(p) \/ ProberDies(p)

\* A prober's variables change by its own steps only.
LEMMA Undisturbed ==
  ASSUME TypeOK, [Next]_vars, NEW p \in Probers, ~Own(p)
  PROVE  /\ pc'[p] = pc[p] /\ mode'[p] = mode[p] /\ todo'[p] = todo[p]
         /\ current'[p] = current[p] /\ loaded'[p] = loaded[p] /\ fd'[p] = fd[p]
         /\ found'[p] = found[p] /\ present'[p] = present[p]
  <1>1. CASE \E r \in Records : OwnerStep(r)
    BY <1>1 DEF OwnerStep, OwnerOpens, OwnerLocks, OwnerRefused, OwnerPublishes, OwnerStops,
       OwnerWithdraws, OwnerReleases, OwnerDies, OwnerMoves, proberVars
  <1>2. ASSUME NEW q \in Probers, Own(q)
        PROVE  /\ pc'[p] = pc[p] /\ mode'[p] = mode[p] /\ todo'[p] = todo[p]
               /\ current'[p] = current[p] /\ loaded'[p] = loaded[p] /\ fd'[p] = fd[p]
               /\ found'[p] = found[p] /\ present'[p] = present[p]
    <2>0. p # q
      BY <1>2
    <2>1. CASE \E r \in Records : ProberLooks(q, r)
      <3>1. PICK r \in Records : ProberLooks(q, r)
        BY <2>1
      <3>2. \A b : [loaded EXCEPT ![q] = b][p] = loaded[p]
        BY <2>0 DEF TypeOK
      <3>3. loaded'[p] = loaded[p]
        BY <3>1, <3>2, Zenon DEF ProberLooks
      <3>4. /\ pc' = [pc EXCEPT ![q] = "opening"] \/ pc' = pc
            /\ current' = [current EXCEPT ![q] = r] \/ current' = current
            /\ todo' = [todo EXCEPT ![q] = @ \ {r}]
            /\ UNCHANGED <<mode, fd, found, present>>
        BY <3>1, Zenon DEF ProberLooks
      <3> QED
        BY <2>0, <3>3, <3>4 DEF TypeOK
    <2>2. CASE ProberStarts(q) \/ ProberDies(q) \/ SweepStarts(q) \/ ProberEnds(q)
      BY <2>0, <2>2 DEF ProberStarts, ProberDies, SweepStarts, ProberEnds, LeaveRecord, TypeOK
    <2>3. CASE ProberOpens(q) \/ ProberAcquires(q) \/ ProberFindsHeld(q) \/ ProberReports(q)
      BY <2>0, <2>3 DEF ProberOpens, ProberAcquires, ProberFindsHeld, ProberReports, LeaveRecord, TypeOK
    <2>4. CASE ProberReaps(q) \/ ProberCloses(q) \/ ProberUnlinks(q)
      BY <2>0, <2>4 DEF ProberReaps, ProberCloses, ProberUnlinks, LeaveRecord, TypeOK
    <2> QED
      BY <1>2, <2>1, <2>2, <2>3, <2>4 DEF Own, ProberProgress
  <1>3. CASE UNCHANGED vars
    BY <1>3 DEF vars, proberVars
  <1> QED
    BY <1>1, <1>2, <1>3 DEF Next, Own

\* Lists are made of published records.
LEMMA ListedPastStep == TypeOK /\ OwnerHolds /\ ListedPast /\ [Next]_vars => ListedPast'
  <1> SUFFICES ASSUME TypeOK, OwnerHolds, ListedPast, [Next]_vars, NEW p \in Probers
               PROVE  /\ \A r \in present'[p] : Past(r)'
                      /\ mode'[p] # "sweep" => \A r \in todo'[p] : Past(r)'
                      /\ mode'[p] # "sweep" /\ current'[p] # NoRecord => Past(current[p])'
    BY DEF ListedPast
  <1>1. \A r \in Records : Past(r) => Past(r)'
    BY OwnerFacts
  <1>2. /\ present[p] \subseteq Records /\ todo[p] \subseteq Records
        /\ current[p] \in Records \union {NoRecord}
    BY DEF TypeOK
  <1>3. CASE ~Own(p)
    BY <1>1, <1>2, <1>3, Undisturbed DEF ListedPast, Past
  <1>4. CASE ProberStarts(p)
    <2>1. \A r \in Published : Past(r)
      BY DEF Published, OwnerHolds, Past
    <2>2. /\ todo'[p] = Published /\ present'[p] \subseteq Published /\ current'[p] = current[p]
          /\ pc[p] \in {"idle", "done"}
      BY <1>4 DEF ProberStarts, TypeOK
    <2>3. current[p] = NoRecord
      BY <2>2 DEF TypeOK
    <2> QED
      BY <1>1, <2>1, <2>2, <2>3 DEF Published
  <1>5. ASSUME NEW r \in Records, ProberLooks(p, r)
        PROVE  /\ mode'[p] = mode[p] /\ present'[p] = present[p]
               /\ todo'[p] \subseteq todo[p]
               /\ current'[p] = current[p] \/ current'[p] \in todo[p]
    <2>1. /\ current' = [current EXCEPT ![p] = r] \/ current' = current
          /\ todo' = [todo EXCEPT ![p] = @ \ {r}] /\ r \in todo[p]
          /\ UNCHANGED <<mode, present>>
      BY <1>5, Zenon DEF ProberLooks
    <2> QED
      BY <2>1 DEF TypeOK
  <1>6. CASE \E r \in Records : ProberLooks(p, r)
    BY <1>1, <1>2, <1>5, <1>6 DEF ListedPast, Past
  <1>7. CASE SweepStarts(p)
    BY <1>1, <1>2, <1>7 DEF SweepStarts, TypeOK, ListedPast, Past
  <1>8. CASE \/ ProberOpens(p) \/ ProberAcquires(p) \/ ProberFindsHeld(p) \/ ProberReports(p)
             \/ ProberReaps(p) \/ ProberCloses(p) \/ ProberUnlinks(p) \/ ProberEnds(p)
             \/ ProberDies(p)
    <2>1. /\ mode' = mode /\ present' = present /\ todo' = todo
          /\ current' = current \/ current' = [current EXCEPT ![p] = NoRecord]
      BY <1>8 DEF ProberOpens, ProberAcquires, ProberFindsHeld, ProberReports, ProberReaps,
         ProberCloses, ProberUnlinks, ProberEnds, ProberDies, LeaveRecord
    <2> QED
      BY <1>1, <1>2, <2>1 DEF ListedPast, Past, TypeOK
  <1> QED
    BY <1>3, <1>4, <1>6, <1>7, <1>8 DEF Own, ProberProgress

\* An unsplit lock is the one its prober has open.
LEMMA FdIsOwnersStep ==
  TypeOK /\ OwnerHolds /\ ListedPast /\ FdIsOwners /\ [Next]_vars => FdIsOwners'
  <1> SUFFICES ASSUME TypeOK, OwnerHolds, ListedPast, FdIsOwners, [Next]_vars, NEW p \in Probers,
                      pc'[p] \in {"trying", "reaping"}, mode'[p] # "sweep",
                      Live(current[p])', ~Split(current[p])'
               PROVE  fd'[p] = ownerFd'[current'[p]]
    BY DEF FdIsOwners
  <1>0. \A r \in Records : Past(r) /\ Live(r)' /\ ~Split(r)' =>
                             Live(r) /\ ~Split(r) /\ ownerFd'[r] = ownerFd[r]
    BY OwnerFacts
  <1>1. CASE ~Own(p)
    <2>1. /\ pc'[p] = pc[p] /\ mode'[p] = mode[p] /\ current'[p] = current[p] /\ fd'[p] = fd[p]
      BY <1>1, Undisturbed
    <2>2. current[p] \in Records /\ Past(current[p])
      BY <2>1 DEF TypeOK, ListedPast
    <2>3. Live(current[p]) /\ ~Split(current[p]) /\ ownerFd'[current[p]] = ownerFd[current[p]]
      BY <1>0, <2>1, <2>2 DEF Live, Split
    <2> QED
      BY <2>1, <2>3 DEF FdIsOwners
  <1>2. CASE ProberOpens(p)
    <2>1. current[p] \in Records /\ current'[p] = current[p] /\ UNCHANGED ownerVars
      BY <1>2 DEF ProberOpens, TypeOK
    <2>2. path'[current[p]] = fd'[p]
      BY <1>2, <2>1 DEF ProberOpens, Opens, TypeOK
    <2>3. ownerFd[current[p]] # NoInode
      BY <2>1 DEF OwnerHolds, Live, ownerVars
    <2> QED
      BY <2>1, <2>2, <2>3 DEF Split, ownerVars
  <1>3. CASE ProberAcquires(p)
    BY <1>3 DEF ProberAcquires, FdIsOwners, TypeOK, Live, Split, ownerVars
  <1>4. CASE \E r \in Records : ProberLooks(p, r)
    <2>1. pc[p] = "choosing" /\ (pc' = pc \/ pc' = [pc EXCEPT ![p] = "opening"])
      BY <1>4, Zenon DEF ProberLooks
    <2> QED
      BY <2>1 DEF TypeOK
  <1>5. CASE ProberStarts(p) \/ ProberFindsHeld(p) \/ ProberReports(p)
    BY <1>5 DEF ProberStarts, ProberFindsHeld, ProberReports, TypeOK
  <1>6. CASE ProberReaps(p) \/ ProberCloses(p) \/ ProberUnlinks(p) \/ ProberDies(p)
    BY <1>6 DEF ProberReaps, ProberCloses, ProberUnlinks, ProberDies, TypeOK
  <1>7. CASE SweepStarts(p) \/ ProberEnds(p)
    BY <1>7 DEF SweepStarts, ProberEnds, TypeOK
  <1> QED
    BY <1>1, <1>2, <1>3, <1>4, <1>5, <1>6, <1>7 DEF Own, ProberProgress

\* Whoever reaps has the lock it acquired.
LEMMA ReaperHoldsStep == TypeOK /\ ReaperHolds /\ [Next]_vars => ReaperHolds'
  <1> SUFFICES ASSUME TypeOK, ReaperHolds, [Next]_vars, NEW p \in Probers, pc'[p] = "reaping"
               PROVE  mode'[p] = "scan" /\ holder'[current'[p]][fd'[p]] = p
    BY DEF ReaperHolds
  <1>1. CASE ~Own(p)
    <2>1. /\ pc[p] = "reaping" /\ mode'[p] = mode[p] /\ current'[p] = current[p] /\ fd'[p] = fd[p]
          /\ mode[p] = "scan" /\ holder[current[p]][fd[p]] = p
          /\ current[p] \in Records /\ fd[p] \in Inodes
      <3>1. pc'[p] = pc[p] /\ mode'[p] = mode[p] /\ current'[p] = current[p] /\ fd'[p] = fd[p]
        BY <1>1, Undisturbed
      <3>2. pc[p] = "reaping" /\ current[p] \in Records /\ fd[p] \in Inodes
        BY <3>1 DEF TypeOK
      <3> QED
        BY <3>1, <3>2 DEF ReaperHolds
    <2>2. ASSUME NEW r \in Records, NEW i, NEW who \in Probers \union {Owner}, who # p,
                 \/ holder' = holder \/ Closes(r, i, who) \/ Locks(r, i, who)
          PROVE  holder'[current[p]][fd[p]] = p
      BY <2>1, <2>2, RegistryAssumption DEF Closes, Locks, TypeOK
    <2>3. ASSUME NEW r \in Records, OwnerStep(r) PROVE holder'[current[p]][fd[p]] = p
      <3>1. holder' = holder \/ Closes(r, ownerFd[r], Owner) \/ Locks(r, ownerFd[r], Owner)
        BY <2>3 DEF OwnerStep, OwnerOpens, OwnerLocks, OwnerRefused, OwnerPublishes, OwnerStops,
           StopKeepsLock, OwnerWithdraws, OwnerReleases, OwnerDies, fileVars
      <3> QED
        BY <2>2, <3>1, RegistryAssumption
    <2>4. ASSUME NEW q \in Probers, Own(q) PROVE holder'[current[p]][fd[p]] = p
      <3>1. \/ holder' = holder
            \/ current[q] \in Records /\ (Closes(current[q], fd[q], q) \/ Locks(current[q], fd[q], q))
        BY <2>4 DEF Own, ProberProgress, ProberStarts, ProberLooks, ProberOpens, ProberAcquires,
           ProberFindsHeld, ProberReports, ProberReaps, ProberCloses, ProberUnlinks, SweepStarts,
           ProberEnds, ProberDies, fileVars, TypeOK
      <3> QED
        BY <1>1, <2>1, <2>2, <2>4, <3>1
    <2>5. CASE UNCHANGED vars
      BY <2>1, <2>5 DEF vars, fileVars
    <2> QED
      BY <2>1, <2>3, <2>4, <2>5 DEF Next, Own
  <1>2. CASE ProberAcquires(p)
    <2>1. current[p] \in Records /\ fd[p] \in Inodes /\ mode[p] = "scan"
      BY <1>2 DEF ProberAcquires, TypeOK
    <2> QED
      BY <1>2, <2>1 DEF ProberAcquires, Locks, TypeOK
  <1>4. CASE \E r \in Records : ProberLooks(p, r)
    <2>1. pc[p] = "choosing" /\ (pc' = pc \/ pc' = [pc EXCEPT ![p] = "opening"])
      BY <1>4, Zenon DEF ProberLooks
    <2> QED
      BY <2>1 DEF TypeOK
  <1>5. CASE ProberStarts(p) \/ ProberFindsHeld(p) \/ ProberReports(p) \/ ProberOpens(p)
    BY <1>5 DEF ProberStarts, ProberFindsHeld, ProberReports, ProberOpens, TypeOK
  <1>6. CASE ProberReaps(p) \/ ProberCloses(p) \/ ProberUnlinks(p) \/ ProberDies(p)
    BY <1>6 DEF ProberReaps, ProberCloses, ProberUnlinks, ProberDies, TypeOK
  <1>7. CASE SweepStarts(p) \/ ProberEnds(p)
    BY <1>7 DEF SweepStarts, ProberEnds, TypeOK
  <1> QED
    BY <1>1, <1>2, <1>4, <1>5, <1>6, <1>7 DEF Own, ProberProgress


\* Nobody but the owner removes the record of an unsplit lock.
LEMMA RecordThereStep == RInv /\ [Next]_vars => RecordThere'
  <1> SUFFICES ASSUME RInv, [Next]_vars, NEW r \in Records, Live(r)', ~Split(r)'
               PROVE  record'[r]
    BY DEF RecordThere
  <1>0. TypeOK
    BY DEF RInv
  <1>1. CASE ~Live(r)
    <2>1. ~Past(r)
      BY <1>0, <1>1, OwnerFacts
    <2>2. OwnerPublishes(r)
      BY <1>0, <2>1 DEF Past, Live, Next, OwnerStep, OwnerOpens, OwnerLocks, OwnerRefused, OwnerPublishes,
         OwnerStops, OwnerWithdraws, OwnerReleases, OwnerDies, OwnerMoves, ProberProgress,
         ProberStarts, ProberLooks, ProberOpens, ProberAcquires, ProberFindsHeld, ProberReports,
         ProberReaps, ProberCloses, ProberUnlinks, SweepStarts, ProberEnds, ProberDies, ownerVars,
         vars, TypeOK
    <2> QED
      BY <1>0, <2>2 DEF OwnerPublishes, TypeOK
  <1>2. CASE Live(r)
    <2>1. ~Split(r) /\ record[r]
      BY <1>0, <1>2, OwnerFacts DEF RInv, RecordThere
    <2>2. ASSUME NEW p \in Probers, ProberReaps(p) PROVE current[p] # r
      <3> SUFFICES ASSUME current[p] = r PROVE FALSE
        OBVIOUS
      <3>1. mode[p] = "scan" /\ holder[r][fd[p]] = p
        BY <2>2 DEF ProberReaps, RInv, ReaperHolds
      <3>2. fd[p] = ownerFd[r]
        BY <1>2, <2>1, <2>2, <3>1 DEF ProberReaps, RInv, FdIsOwners
      <3>3. holder[r][ownerFd[r]] = Owner
        BY <1>2 DEF Live, RInv, OwnerHolds
      <3> QED
        BY <3>1, <3>2, <3>3, RegistryAssumption
    <2>3. CASE \E p \in Probers : ProberReaps(p)
      <3>1. PICK p \in Probers : ProberReaps(p)
        BY <2>3
      <3>2. current[p] # r /\ record' = [record EXCEPT ![current[p]] = FALSE]
        BY <2>2, <3>1 DEF ProberReaps, Reaped
      <3> QED
        BY <1>0, <2>1, <3>2 DEF TypeOK
    <2>4. CASE \E q \in Records : OwnerStep(q)
      <3>1. PICK q \in Records : OwnerStep(q)
        BY <2>4
      <3>2. CASE record' = record \/ OwnerPublishes(q)
        BY <1>0, <2>1, <3>2 DEF OwnerPublishes, TypeOK
      <3>3. CASE OwnerWithdraws(q)
        BY <1>0, <2>1, <3>3 DEF OwnerWithdraws, OwnerMoves, TypeOK, Live
      <3> QED
        BY <3>1, <3>2, <3>3 DEF OwnerStep, OwnerOpens, OwnerLocks, OwnerRefused, OwnerStops,
           OwnerReleases, OwnerDies, fileVars
    <2>5. CASE record' = record
      BY <2>1, <2>5
    <2> QED
      BY <2>3, <2>4, <2>5 DEF Next, ProberProgress, ProberStarts, ProberLooks, ProberOpens,
         ProberAcquires, ProberFindsHeld, ProberReports, ProberCloses, ProberUnlinks, SweepStarts,
         ProberEnds, ProberDies, fileVars, vars
  <1> QED
    BY <1>1, <1>2

\* A prober leaves a live instance on its list, looks at it or reports it.
LEMMA ReportingStep == RInv /\ [Next]_vars => Reporting'
  <1> SUFFICES ASSUME RInv, [Next]_vars, NEW p \in Probers, pc'[p] # "idle",
                      ~(p \in Finders /\ found'[p] # {}),
                      NEW r \in present'[p], Live(r)', ~Split(r)'
               PROVE  \/ mode'[p] # "sweep" /\ r \in todo'[p]
                      \/ /\ mode'[p] # "sweep" /\ current'[p] = r /\ loaded'[p]
                         /\ pc'[p] \in {"opening", "trying", "probing"}
                      \/ \E f \in found'[p] : f[1] = r
    BY DEF Reporting
  <1>0. TypeOK /\ TypeOK'
    BY TypeStep DEF RInv
  <1>1. r \in Records
    BY <1>0 DEF TypeOK
  <1>2. CASE ProberStarts(p)
    BY <1>0, <1>2 DEF ProberStarts, TypeOK
  <1>3. CASE ~ProberStarts(p)
    <2>1. present'[p] = present[p]
      <3>1. CASE ~Own(p)
        BY <1>0, <3>1, Undisturbed
      <3>2. CASE Own(p)
        <4>1. present' = present
          BY <1>3, <3>2, Zenon DEF Own, ProberProgress, ProberLooks, ProberOpens, ProberAcquires,
             ProberFindsHeld, ProberReports, ProberReaps, ProberCloses, ProberUnlinks,
             SweepStarts, ProberEnds, ProberDies
        <4> QED
          BY <4>1
      <3> QED
        BY <3>1, <3>2
    <2>2. Past(r)
      BY <2>1 DEF RInv, ListedPast
    <2>3. Live(r) /\ ~Split(r)
      BY <1>0, <1>1, <2>2, OwnerFacts
    <2>4. record[r]
      BY <1>1, <2>3 DEF RInv, RecordThere
    <2>5. CASE ~Own(p)
      BY <1>0, <2>1, <2>3, <2>5, Undisturbed DEF RInv, Reporting
    <2>6. CASE Own(p)
      <3>1. pc[p] # "idle"
        <4>1. pc[p] # "idle" \/ \E q \in Records : ProberLooks(p, q)
          BY <1>3, <2>6 DEF Own, ProberProgress, ProberOpens, ProberAcquires, ProberFindsHeld,
             ProberReports, ProberReaps, ProberCloses, ProberUnlinks, SweepStarts, ProberEnds, ProberDies
        <4> QED
          BY <4>1, Zenon DEF ProberLooks
      <3>2. found[p] \subseteq found'[p]
        <4>1. found' = found \/ (\E x : found' = [found EXCEPT ![p] = @ \union {x}])
          BY <1>3, <2>6, Zenon DEF Own, ProberProgress, ProberLooks, ProberOpens, ProberAcquires,
             ProberFindsHeld, ProberReports, ProberReaps, ProberCloses, ProberUnlinks,
             SweepStarts, ProberEnds, ProberDies
        <4> QED
          BY <1>0, <4>1 DEF TypeOK
      <3>3. \/ mode[p] # "sweep" /\ r \in todo[p]
            \/ /\ mode[p] # "sweep" /\ current[p] = r /\ loaded[p]
               /\ pc[p] \in {"opening", "trying", "probing"}
            \/ \E f \in found[p] : f[1] = r
        BY <2>1, <2>3, <3>1, <3>2 DEF RInv, Reporting
      <3>4. CASE \E q \in Records : ProberLooks(p, q)
        <4>1. PICK q \in Records : ProberLooks(p, q)
          BY <3>4
        <4>2. pc[p] = "choosing" /\ todo' = [todo EXCEPT ![p] = @ \ {q}] /\ mode' = mode
          BY <4>1, Zenon DEF ProberLooks
        <4>3. CASE q = r /\ mode[p] # "sweep"
          <5>1. Visits(p, r)
            BY <4>3 DEF Visits
          <5>2. /\ pc' = [pc EXCEPT ![p] = "opening"] /\ current' = [current EXCEPT ![p] = r]
                /\ loaded' = [loaded EXCEPT ![p] = record[r] \/ mode[p] = "find"]
            BY <4>1, <4>3, <5>1, Zenon DEF ProberLooks
          <5>3. loaded'[p]
            <6>1. p \in DOMAIN loaded
              BY <1>0 DEF TypeOK
            <6>2. loaded'[p] = (record[r] \/ mode[p] = "find")
              BY <5>2, <6>1, Zenon
            <6> QED
              BY <2>4, <6>2, Zenon
          <5> QED
            BY <1>0, <4>2, <4>3, <5>2, <5>3 DEF TypeOK
        <4>4. CASE ~(q = r /\ mode[p] # "sweep")
          BY <1>0, <3>2, <3>3, <4>2, <4>4 DEF TypeOK
        <4> QED
          BY <4>3, <4>4
      <3>5. CASE ProberOpens(p)
        BY <1>0, <3>3, <3>5 DEF ProberOpens, TypeOK
      <3>6. CASE ProberAcquires(p)
        <4>1. ~(current[p] = r /\ mode[p] # "sweep")
          <5> SUFFICES ASSUME current[p] = r, mode[p] # "sweep" PROVE FALSE
            OBVIOUS
          <5>1. fd[p] = ownerFd[r]
            BY <2>3, <3>6 DEF ProberAcquires, RInv, FdIsOwners
          <5>2. holder[r][ownerFd[r]] = Owner
            BY <1>1, <2>3 DEF Live, RInv, OwnerHolds
          <5> QED
            BY <3>6, <5>1, <5>2, RegistryAssumption DEF ProberAcquires, Locks
        <4> QED
          BY <3>3, <3>6, <4>1 DEF ProberAcquires
      <3>7. CASE ProberFindsHeld(p)
        <4>1. UNCHANGED <<mode, todo, loaded, found>> /\ pc[p] = "trying"
          BY <3>7 DEF ProberFindsHeld
        <4>2. CASE Reportable(p)
          BY <1>0, <3>3, <3>7, <4>1, <4>2 DEF ProberFindsHeld, TypeOK
        <4>3. CASE ~Reportable(p)
          BY <3>3, <4>1, <4>3 DEF Reportable
        <4> QED
          BY <4>2, <4>3
      <3>8. CASE ProberReports(p)
        <4>1. UNCHANGED <<mode, todo>> /\ pc[p] = "probing"
          BY <3>8 DEF ProberReports
        <4>2. CASE current[p] = r
          <5>1. \E x : <<r, x>> \in found'[p]
            BY <1>0, <3>8, <4>2 DEF ProberReports, TypeOK
          <5> QED
            BY <5>1
        <4>3. CASE current[p] # r
          BY <3>2, <3>3, <4>1, <4>3
        <4> QED
          BY <4>2, <4>3
      <3>9. CASE ProberReaps(p) \/ ProberCloses(p) \/ ProberUnlinks(p)
        BY <3>3, <3>9 DEF ProberReaps, ProberCloses, ProberUnlinks
      <3>10. CASE SweepStarts(p) \/ ProberEnds(p)
        BY <3>3, <3>10 DEF SweepStarts, ProberEnds
      <3>11. CASE ProberDies(p)
        BY <1>0, <3>11 DEF ProberDies, TypeOK
      <3> QED
        BY <1>3, <2>6, <3>4, <3>5, <3>6, <3>7, <3>8, <3>9, <3>10, <3>11 DEF Own, ProberProgress
    <2> QED
      BY <2>5, <2>6
  <1> QED
    BY <1>2, <1>3

\* How probers end.
LEMMA ListEndsStep == TypeOK /\ ListEnds /\ [Next]_vars => ListEnds'
  <1> SUFFICES ASSUME TypeOK, ListEnds, [Next]_vars, NEW p \in Probers
               PROVE  /\ pc'[p] = "done" => todo'[p] = {} \/ (p \in Finders /\ found'[p] # {})
                      /\ mode'[p] = "find" => p \in Finders
    BY DEF ListEnds
  <1>1. CASE ~Own(p)
    BY <1>1, Undisturbed DEF ListEnds
  <1>2. CASE ProberStarts(p)
    BY <1>2 DEF ProberStarts, TypeOK, Probers
  <1>3. CASE \E r \in Records : ProberLooks(p, r)
    <2>1. pc[p] = "choosing" /\ (pc' = pc \/ pc' = [pc EXCEPT ![p] = "opening"]) /\ mode' = mode
      BY <1>3, Zenon DEF ProberLooks
    <2> QED
      BY <2>1 DEF TypeOK, ListEnds
  <1>4. CASE ProberReports(p)
    BY <1>4 DEF ProberReports, TypeOK, ListEnds
  <1>5. CASE SweepStarts(p) \/ ProberEnds(p)
    BY <1>5 DEF SweepStarts, ProberEnds, TypeOK, ListEnds
  <1>6. CASE ProberOpens(p) \/ ProberAcquires(p) \/ ProberFindsHeld(p) \/ ProberReaps(p)
    BY <1>6 DEF ProberOpens, ProberAcquires, ProberFindsHeld, ProberReaps, TypeOK, ListEnds
  <1>7. CASE ProberCloses(p) \/ ProberUnlinks(p) \/ ProberDies(p)
    BY <1>7 DEF ProberCloses, ProberUnlinks, ProberDies, TypeOK, ListEnds
  <1> QED
    BY <1>1, <1>2, <1>3, <1>4, <1>5, <1>6, <1>7 DEF Own, ProberProgress

\* Every step keeps the invariant.
LEMMA StepRInv == RInv /\ [Next]_vars => RInv'
  BY TypeStep, OwnerHoldsStep, ListedPastStep, FdIsOwnersStep, ReaperHoldsStep, RecordThereStep,
     ReportingStep, ListEndsStep DEF RInv

-----------------------------------------------------------------------------
\* The invariant holds of the registry.
THEOREM RegistryInvariant == Spec => []RInv
  BY InitRInv, StepRInv, PTL DEF Spec

\* The type invariant.
THEOREM TypeCorrect == Spec => []TypeOK
  <1>1. RInv => TypeOK
    BY DEF RInv
  <1> QED
    BY <1>1, RegistryInvariant, PTL

\* The record of a process that lives is there only under its lock.
THEOREM RecordsAreLocked == Spec => []RecordUnderLock
  <1>1. RInv => RecordUnderLock
    BY DEF RInv, OwnerHolds, RecordUnderLock
  <1> QED
    BY <1>1, RegistryInvariant, PTL

\* No scan, sweep or search removes the record of a live owner whose lock is
\* still the one found under its path.
THEOREM OnlyTheDeadAreReaped == Spec => ReapedOnlyWhenDead
  <1>1. ASSUME RInv, RInv', [Next]_vars, NEW r \in Records, Live(r), ~Split(r), record[r], ~record'[r]
        PROVE  owner'[r] = "withdrawn"
    <2>0. TypeOK
      BY <1>1 DEF RInv
    <2>2. ASSUME NEW p \in Probers, ProberReaps(p) PROVE current[p] # r
      <3> SUFFICES ASSUME current[p] = r PROVE FALSE
        OBVIOUS
      <3>1. mode[p] = "scan" /\ holder[r][fd[p]] = p
        BY <1>1, <2>2 DEF ProberReaps, RInv, ReaperHolds
      <3>2. fd[p] = ownerFd[r]
        BY <1>1, <2>2, <3>1 DEF ProberReaps, RInv, FdIsOwners
      <3>3. holder[r][ownerFd[r]] = Owner
        BY <1>1 DEF Live, RInv, OwnerHolds
      <3> QED
        BY <3>1, <3>2, <3>3, RegistryAssumption
    <2>3. CASE \E p \in Probers : ProberReaps(p)
      BY <1>1, <2>0, <2>2, <2>3 DEF ProberReaps, Reaped, TypeOK
    <2>4. CASE \E q \in Records : OwnerStep(q)
      BY <1>1, <2>0, <2>4 DEF OwnerStep, OwnerOpens, OwnerLocks, OwnerRefused, OwnerPublishes,
         OwnerStops, OwnerWithdraws, OwnerReleases, OwnerDies, OwnerMoves, TypeOK, fileVars
    <2>5. CASE record' = record
      BY <1>1, <2>5
    <2> QED
      BY <1>1, <2>3, <2>4, <2>5 DEF Next, ProberProgress, ProberStarts, ProberLooks, ProberOpens,
         ProberAcquires, ProberFindsHeld, ProberReports, ProberCloses, ProberUnlinks, SweepStarts,
         ProberEnds, ProberDies, fileVars, vars
  <1>2. RInv /\ RInv' /\ [Next]_vars =>
          [\A r \in Records : Live(r) /\ ~Split(r) /\ record[r] /\ ~record'[r] =>
             owner'[r] = "withdrawn"]_vars
    <2> SUFFICES ASSUME RInv, RInv', [Next]_vars, NEW r \in Records, Live(r), ~Split(r), record[r],
                        ~record'[r]
                 PROVE  owner'[r] = "withdrawn"
      OBVIOUS
    <2> QED
      BY <1>1
  <1> QED
    BY <1>2, RegistryInvariant, PTL DEF ReapedOnlyWhenDead, Spec

\* Scans and searches report every instance that was live all the time.
THEOREM NothingLiveIsMissed == Spec => []LiveInstancesReported
  <1>1. RInv => LiveInstancesReported
    <2> SUFFICES ASSUME RInv, NEW p \in Probers, pc[p] = "done", ~(p \in Finders /\ found[p] # {}),
                        NEW r \in present[p], Live(r), ~Split(r)
                 PROVE  \E f \in found[p] : f[1] = r
      BY DEF LiveInstancesReported
    <2> QED
      BY DEF RInv, Reporting, ListEnds
  <1> QED
    BY <1>1, RegistryInvariant, PTL

\* The registry is true of the processes: records are locked by their owners,
\* and what lives is reported.
THEOREM RegistryStaysTrue == Spec => []RegistryIsTrue
  <1>1. RecordUnderLock /\ LiveInstancesReported => RegistryIsTrue
    BY DEF RegistryIsTrue
  <1> QED
    BY <1>1, RecordsAreLocked, NothingLiveIsMissed, PTL
=============================================================================
