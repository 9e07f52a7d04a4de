------------------------- MODULE DatabaseManager_proofs -------------------------
(***************************************************************************)
(* Safety of DatabaseManager for any number of threads, handles, paths and *)
(* instances: sessions end once, leases have one owner, an unknown id is   *)
(* that of no session, shutdown is final, and what the manager does to     *)
(* a handle is within HandleContract.                                      *)
(*                                                                         *)
(* The invariant follows a handle through its life: unheld while it is     *)
(* being opened (FreshUnheld), a session (SessionsHeld), and then lost or  *)
(* popped by one closer (PoppedOnce), never to come back.  _open_lock lets *)
(* only one opener be busy (OneOpener), so that the test for a session of  *)
(* the same instance and the installation of another one do not race.      *)
(***************************************************************************)
EXTENDS DatabaseManager, TLAPS

Busy(t) == opener[t] \notin {"idle", "ended"}

\* _open_lock is held from the first test of an open to its end.
OneOpener == \A t \in Openers : Busy(t) <=> openLock = t

\* What an opener works on has been opened, and registered where it must be.
MineOpened ==
  \A t \in Openers :
    /\ opener[t] \in {"found", "opened", "checked", "installed", "registered", "told", "extra"} =>
         mine[t] \in Handles /\ phase[mine[t]] # "opening"
    /\ opener[t] = "registered" => registered[mine[t]]

NoEvents(h) == lostEvents[h] = 0 /\ releasedEvents[h] = 0

\* Nobody but its opener has anything to do with a handle yet.
Unheld(h) == /\ h \notin sessions /\ h \notin gone /\ NoEvents(h)
             /\ \A k \in Closers : target[k] # h

FreshUnheld ==
  /\ \A t \in Openers : opener[t] \in {"opened", "checked"} => Unheld(mine[t])
  /\ \A h \in Handles : phase[h] = "opening" => Unheld(h)

\* A session has ended in no way.
SessionsHeld ==
  \A h \in sessions : /\ phase[h] # "opening" /\ NoEvents(h)
                      /\ \A k \in Closers : target[k] = h => closer[k] = "selected"

\* A session is popped by one closer.
PoppedOnce ==
  /\ \A k \in Closers :
       /\ closer[k] \in {"selected", "popped"} => target[k] \in Handles
       /\ closer[k] = "popped" => target[k] \notin sessions /\ NoEvents(target[k])
  /\ \A j, k \in Closers :
       closer[j] = "popped" /\ closer[k] = "popped" /\ target[j] = target[k] => j = k

\* Shutdown lets no open go on, and closes what was there when it began.
ShutDown ==
  /\ shutdown => /\ sessions = {} /\ current = Nobody
                 /\ \A t \in Openers : opener[t] \in {"idle", "ended", "emitting"}
  /\ ~shutdown => releasing = {}

\* What the manager knows of a session that was found once.
Known(h) == shutdown \/ h \in sessions \cup gone \/ Popped(h)

\* The manager knows what a call has resolved, or somebody has closed it; and
\* what close_database has found, which is no session any more when it is
\* unknown.
CallKnows ==
  /\ caller # "idle" => Known(goal) /\ (caller = "unknown" => shutdown \/ Popped(goal))
  /\ \A k \in Closers :
       /\ closer[k] \in {"selected", "unknown"} => Known(target[k])
       /\ closer[k] = "unknown" => target[k] \in Handles \ sessions

MInv == /\ TypeOK /\ OneOpener /\ MineOpened /\ FreshUnheld /\ SessionsHeld /\ PoppedOnce
        /\ ShutDown /\ SelectionIsHeld /\ EndsOnce /\ LeasesAreOwned /\ CallKnows

\* At first there is no session.
LEMMA InitMInv == Init => MInv
  <1> SUFFICES ASSUME Init PROVE MInv
    OBVIOUS
  <1>1. TypeOK
    <2>1. request \in [Openers -> Requests \cup {NoRequest}] /\ opener \in [Openers -> OpenerStates]
      BY DEF Init, OpenerStates
    <2>2. /\ phase \in [Handles -> Phases] /\ told \in [Handles -> 0..2]
          /\ lostEvents \in [Handles -> 0..1] /\ releasedEvents \in [Handles -> 0..1]
      BY DEF Init, Phases
    <2>3. registered \in [Handles -> BOOLEAN] /\ shutdown \in BOOLEAN
      BY DEF Init
    <2> QED
      BY <2>1, <2>2, <2>3 DEF Init, TypeOK, CloserStates, CallerStates
  <1>2. OneOpener /\ MineOpened /\ SessionsHeld /\ PoppedOnce /\ ShutDown
    BY ManagerAssumption DEF Init, OneOpener, Busy, MineOpened, SessionsHeld, PoppedOnce, ShutDown
  <1>3. FreshUnheld /\ EndsOnce
    BY ManagerAssumption DEF Init, FreshUnheld, Unheld, NoEvents, EndsOnce
  <1>4. SelectionIsHeld /\ LeasesAreOwned /\ CallKnows
    BY DEF Init, SelectionIsHeld, LeasesAreOwned, OneLeasePerInstance, NoLeakedHandle, Connected,
       CallKnows, Known, Popped
  <1> QED
    BY <1>1, <1>2, <1>3, <1>4 DEF MInv

-----------------------------------------------------------------------------
(* Steps of the handles                                                     *)

\* A handle that is lost is connected no more.
LEMMA LosesKeeps == ASSUME NEW h \in Handles, MInv, HandleLoses(h) PROVE MInv'
  <1>1. /\ phase' \in [Handles -> Phases]
        /\ \A g \in Handles : /\ phase'[g] = "live" => phase[g] = "live"
                              /\ phase'[g] = "opening" <=> phase[g] = "opening"
    BY DEF MInv, TypeOK, HandleLoses, Phases
  <1>2. UNCHANGED <<registered, told, asked, record, sessionVars, shutdown, openVars,
                    closeVars, callVars, releasing, eventVars>>
    BY DEF HandleLoses
  <1>3. TypeOK'
    BY <1>1, <1>2 DEF MInv, TypeOK, sessionVars, openVars, closeVars, callVars, eventVars
  <1>4. OneOpener' /\ PoppedOnce' /\ ShutDown' /\ SelectionIsHeld' /\ EndsOnce' /\ CallKnows'
    BY <1>2 DEF MInv, OneOpener, Busy, PoppedOnce, NoEvents, ShutDown, SelectionIsHeld, EndsOnce,
       CallKnows, Known, Popped, sessionVars, openVars, closeVars, callVars, eventVars
  <1>5. MineOpened' /\ FreshUnheld' /\ SessionsHeld'
    BY <1>1, <1>2 DEF MInv, TypeOK, MineOpened, FreshUnheld, Unheld, NoEvents, SessionsHeld,
       sessionVars, openVars, closeVars, eventVars
  <1>6. LeasesAreOwned'
    BY <1>1, <1>2 DEF MInv, TypeOK, LeasesAreOwned, OneLeasePerInstance, NoLeakedHandle, Connected,
       sessionVars, openVars, closeVars
  <1> QED
    BY <1>3, <1>4, <1>5, <1>6 DEF MInv

\* _handle_disconnected, whoever calls it: with an opener that goes on from
\* "registered", or with none.
LEMMA DisconnectedKeeps ==
  ASSUME NEW h \in Handles, MInv, phase[h] = "lost", Disconnected(h),
         UNCHANGED <<phase, registered, asked, record, shutdown, openLock, request, mine,
                     closeVars, callVars, releasing, releasedEvents>>,
         told' \in [Handles -> 0..2], opener' \in [Openers -> OpenerStates],
         \A t \in Openers : \/ opener'[t] = opener[t]
                            \/ opener[t] = "registered" /\ opener'[t] = "told"
  PROVE  MInv'
  <1>1. CASE h \notin sessions
    <2>1. UNCHANGED <<sessionVars, lostEvents>>
      BY <1>1 DEF Disconnected
    <2>2. TypeOK'
      BY <2>1 DEF MInv, TypeOK, sessionVars, closeVars, callVars
    <2>3. OneOpener' /\ MineOpened' /\ FreshUnheld' /\ SessionsHeld' /\ PoppedOnce' /\ ShutDown'
      BY <2>1 DEF MInv, OneOpener, Busy, MineOpened, FreshUnheld, Unheld, NoEvents, SessionsHeld,
         PoppedOnce, ShutDown, sessionVars, closeVars
    <2>4. SelectionIsHeld' /\ EndsOnce' /\ LeasesAreOwned' /\ CallKnows'
      BY <2>1 DEF MInv, SelectionIsHeld, EndsOnce, LeasesAreOwned, OneLeasePerInstance,
         NoLeakedHandle, Connected, CallKnows, Known, Popped, sessionVars, closeVars, callVars
    <2> QED
      BY <2>2, <2>3, <2>4 DEF MInv
  <1>2. CASE h \in sessions
    <2>1. /\ sessions' = sessions \ {h} /\ gone' = gone \cup {h}
          /\ lostEvents' = [lostEvents EXCEPT ![h] = @ + 1]
          /\ \/ current = h /\ current' = Nobody /\ fallback' = h
             \/ current # h /\ UNCHANGED <<current, fallback>>
      BY <1>2 DEF Disconnected
    <2>2. NoEvents(h)
      BY <1>2 DEF MInv, SessionsHeld
    <2>3. /\ lostEvents' \in [Handles -> 0..1]
          /\ \A g \in Handles : lostEvents'[g] = IF g = h THEN 1 ELSE lostEvents[g]
      BY <2>1, <2>2 DEF MInv, TypeOK, NoEvents
    <2>4. TypeOK'
      BY <2>1, <2>3 DEF MInv, TypeOK, closeVars, callVars
    <2>5. OneOpener' /\ MineOpened'
      BY DEF MInv, OneOpener, Busy, MineOpened
    <2>6. FreshUnheld'
      BY <1>2, <2>1, <2>3 DEF MInv, TypeOK, MineOpened, FreshUnheld, Unheld, NoEvents, closeVars
    <2>7. SessionsHeld' /\ PoppedOnce'
      BY <1>2, <2>1, <2>3 DEF MInv, TypeOK, SessionsHeld, PoppedOnce, NoEvents, closeVars
    <2>8. ShutDown' /\ SelectionIsHeld'
      BY <1>2, <2>1, ManagerAssumption DEF MInv, TypeOK, ShutDown, SelectionIsHeld
    <2>9. EndsOnce'
      BY <2>2, <2>3 DEF MInv, TypeOK, EndsOnce, NoEvents
    <2>10. LeasesAreOwned' /\ CallKnows'
      BY <2>1 DEF MInv, LeasesAreOwned, OneLeasePerInstance, NoLeakedHandle, Connected, CallKnows, Known, Popped,
         closeVars, callVars
    <2> QED
      BY <2>4, <2>5, <2>6, <2>7, <2>8, <2>9, <2>10 DEF MInv
  <1> QED
    BY <1>1, <1>2

\* The monitor thread calls back.
LEMMA MonitorKeeps == ASSUME NEW h \in Handles, MInv, MonitorTells(h) PROVE MInv'
  <1>1. told' \in [Handles -> 0..2]
    BY DEF MonitorTells, MInv, TypeOK
  <1>2. UNCHANGED opener /\ opener \in [Openers -> OpenerStates]
    BY DEF MonitorTells, MInv, TypeOK, openVars
  <1> QED
    BY <1>1, <1>2, DisconnectedKeeps DEF MonitorTells, openVars

\* The opener that registers the callback calls back itself.
LEMMA TellsKeeps == ASSUME NEW t \in Openers, MInv, OpenTells(t) PROVE MInv'
  <1>1. /\ opener[t] = "registered" /\ opener' = [opener EXCEPT ![t] = "told"]
        /\ mine[t] \in Handles /\ phase[mine[t]] # "opening" /\ registered[mine[t]]
    BY DEF OpenTells, MInv, MineOpened
  <1>2. /\ opener' \in [Openers -> OpenerStates]
        /\ \A s \in Openers : \/ opener'[s] = opener[s]
                              \/ opener[s] = "registered" /\ opener'[s] = "told"
    BY <1>1 DEF MInv, TypeOK, OpenerStates
  <1>3. CASE phase[mine[t]] = "lost" /\ told[mine[t]] < 2
    <2>1. told' \in [Handles -> 0..2] /\ Disconnected(mine[t])
      BY <1>1, <1>3 DEF OpenTells, MInv, TypeOK
    <2> QED
      BY <1>1, <1>2, <1>3, <2>1, DisconnectedKeeps DEF OpenTells
  <1>4. CASE ~(phase[mine[t]] = "lost" /\ told[mine[t]] < 2)
    <2>1. UNCHANGED <<handleVars, asked, record, sessionVars, shutdown, openLock, request, mine,
                      closeVars, callVars, releasing, eventVars>>
      BY <1>4 DEF OpenTells, handleVars, eventVars
    <2>2. TypeOK' /\ OneOpener' /\ MineOpened' /\ FreshUnheld'
      BY <1>2, <2>1 DEF MInv, TypeOK, OneOpener, Busy, MineOpened, FreshUnheld, Unheld, NoEvents,
         handleVars, sessionVars, closeVars, callVars, eventVars
    <2>3. SessionsHeld' /\ PoppedOnce' /\ ShutDown' /\ SelectionIsHeld' /\ EndsOnce'
      BY <1>2, <2>1 DEF MInv, SessionsHeld, PoppedOnce, ShutDown, SelectionIsHeld, EndsOnce, NoEvents,
         handleVars, sessionVars, closeVars, eventVars
    <2>4. LeasesAreOwned' /\ CallKnows'
      BY <1>2, <2>1 DEF MInv, LeasesAreOwned, OneLeasePerInstance, NoLeakedHandle, Connected,
         CallKnows, Known, Popped, handleVars, sessionVars, closeVars, callVars
    <2> QED
      BY <2>2, <2>3, <2>4 DEF MInv
  <1> QED
    BY <1>3, <1>4

-----------------------------------------------------------------------------
(* Steps of the openers                                                     *)


\* Steps of an opener that touch neither sessions nor leases.
LEMMA QuietMove ==
  ASSUME MInv, NEW t \in Openers,
         UNCHANGED <<phase, told, asked, record, sessionVars, shutdown, closeVars, callVars,
                     releasing, eventVars>>,
         \A s \in Openers : s # t => opener'[s] = opener[s] /\ mine'[s] = mine[s],
         opener[t] \notin {"opened", "checked", "extra"}, opener'[t] \notin {"opened", "checked"},
         shutdown => opener'[t] \in {"idle", "ended", "emitting"}
  PROVE  /\ FreshUnheld' /\ SessionsHeld' /\ PoppedOnce' /\ ShutDown' /\ SelectionIsHeld'
         /\ EndsOnce' /\ LeasesAreOwned' /\ CallKnows'
  <1>1. FreshUnheld'
    BY DEF MInv, FreshUnheld, Unheld, NoEvents, sessionVars, closeVars, eventVars
  <1>2. SessionsHeld' /\ PoppedOnce' /\ ShutDown' /\ SelectionIsHeld' /\ EndsOnce' /\ CallKnows'
    BY DEF MInv, SessionsHeld, PoppedOnce, ShutDown, SelectionIsHeld, EndsOnce, CallKnows, Known, Popped, NoEvents,
       sessionVars, closeVars, callVars, eventVars
  <1>3. LeasesAreOwned'
    BY DEF MInv, LeasesAreOwned, OneLeasePerInstance, NoLeakedHandle, Connected, sessionVars, closeVars
  <1> QED
    BY <1>1, <1>2, <1>3

\* Leaving open_database.
LEMMA LeavesMoves ==
  ASSUME MInv, NEW t \in Openers, Busy(t), Leaves(t)
  PROVE  /\ opener' \in [Openers -> OpenerStates] /\ mine' \in [Openers -> Handles \cup {Nobody}]
         /\ request' \in [Openers -> Requests \cup {NoRequest}] /\ openLock' = Nobody
         /\ opener'[t] = "ended"
         /\ \A s \in Openers : s # t => opener'[s] = opener[s] /\ mine'[s] = mine[s] /\ ~Busy(s)
         /\ OneOpener'
  BY ManagerAssumption DEF MInv, TypeOK, OneOpener, Busy, Leaves, OpenerStates

\* An open begins.
LEMMA StartsKeeps == ASSUME NEW t \in Openers, MInv, OpenStarts(t) PROVE MInv'
  <1>1. opener[t] = "idle" /\ openLock = Nobody
    BY DEF OpenStarts
  <1>2. UNCHANGED <<handleVars, asked, record, sessionVars, shutdown, closeVars, callVars, releasing, eventVars>>
    BY DEF OpenStarts
  <1>3. CASE shutdown
    <2>1. opener' = [opener EXCEPT ![t] = "ended"] /\ UNCHANGED <<openLock, mine, request>>
      BY <1>3 DEF OpenStarts
    <2>2. TypeOK' /\ OneOpener' /\ MineOpened'
      BY <1>1, <1>2, <2>1 DEF MInv, TypeOK, OneOpener, Busy, MineOpened, OpenerStates, handleVars,
         sessionVars, closeVars, callVars, eventVars
    <2> QED
      BY <1>1, <1>2, <2>1, <2>2, QuietMove DEF MInv, TypeOK, handleVars
  <1>4. CASE ~shutdown
    <2>1. PICK r \in Requests :
            /\ openLock' = t /\ request' = [request EXCEPT ![t] = r]
            /\ \/ \E h \in sessions : /\ mine' = [mine EXCEPT ![t] = h]
                                      /\ opener' = [opener EXCEPT ![t] = "found"]
               \/ opener' = [opener EXCEPT ![t] = "opening"] /\ UNCHANGED mine
      BY <1>4 DEF OpenStarts
    <2>2. TypeOK'
      BY <1>2, <2>1 DEF MInv, TypeOK, OpenerStates, handleVars, sessionVars, closeVars, callVars, eventVars
    <2>3. OneOpener'
      BY <1>1, <2>1, ManagerAssumption DEF MInv, TypeOK, OneOpener, Busy
    <2>4. MineOpened'
      BY <1>2, <2>1 DEF MInv, TypeOK, MineOpened, SessionsHeld, handleVars
    <2>5. /\ opener'[t] \in {"found", "opening"}
          /\ \A s \in Openers : s # t => opener'[s] = opener[s] /\ mine'[s] = mine[s]
      BY <2>1 DEF MInv, TypeOK
    <2> QED
      BY <1>1, <1>2, <1>4, <2>2, <2>3, <2>4, <2>5, QuietMove DEF MInv, handleVars
  <1> QED
    BY <1>3, <1>4

\* The callback is registered.
LEMMA RegistersKeeps == ASSUME NEW t \in Openers, MInv, OpenRegisters(t) PROVE MInv'
  <1>1. /\ opener[t] = "installed" /\ opener' = [opener EXCEPT ![t] = "registered"]
        /\ registered' = [registered EXCEPT ![mine[t]] = TRUE]
        /\ UNCHANGED <<phase, told, asked, record, sessionVars, shutdown, openLock, request,
                       mine, closeVars, callVars, releasing, eventVars>>
    BY DEF OpenRegisters
  <1>2. mine[t] \in Handles /\ ~shutdown
    BY <1>1 DEF MInv, MineOpened, ShutDown
  <1>3. TypeOK' /\ OneOpener' /\ MineOpened'
    BY <1>1, <1>2 DEF MInv, TypeOK, OneOpener, Busy, MineOpened, OpenerStates, sessionVars, closeVars,
       callVars, eventVars
  <1>4. opener'[t] = "registered" /\ \A s \in Openers : s # t => opener'[s] = opener[s]
    BY <1>1 DEF MInv, TypeOK
  <1> QED
    BY <1>1, <1>2, <1>3, <1>4, QuietMove DEF MInv

\* The last test of an open, and its end.
LEMMA EndsKeeps == ASSUME NEW t \in Openers, MInv, OpenTests(t) \/ OpenEnds(t) PROVE MInv'
  <1>1. /\ opener[t] \in {"told", "emitting"}
        /\ UNCHANGED <<handleVars, asked, record, sessionVars, shutdown, closeVars, callVars,
                       releasing, eventVars>>
        /\ \/ Leaves(t)
           \/ opener' = [opener EXCEPT ![t] = "emitting"] /\ UNCHANGED <<openLock, mine, request>>
    BY DEF OpenTests, OpenEnds
  <1>2. CASE Leaves(t)
    <2>1. TypeOK' /\ OneOpener' /\ MineOpened'
      BY <1>1, <1>2, LeavesMoves DEF MInv, TypeOK, Busy, MineOpened, handleVars, sessionVars, closeVars,
         callVars, eventVars
    <2> QED
      BY <1>1, <1>2, <2>1, LeavesMoves, QuietMove DEF MInv, Busy, handleVars
  <1>3. CASE opener' = [opener EXCEPT ![t] = "emitting"] /\ UNCHANGED <<openLock, mine, request>>
    <2>1. TypeOK' /\ OneOpener' /\ MineOpened'
      BY <1>1, <1>3 DEF MInv, TypeOK, OneOpener, Busy, MineOpened, OpenerStates, handleVars, sessionVars,
         closeVars, callVars, eventVars
    <2>2. opener'[t] = "emitting" /\ \A s \in Openers : s # t => opener'[s] = opener[s]
      BY <1>3 DEF MInv, TypeOK
    <2> QED
      BY <1>1, <1>3, <2>1, <2>2, QuietMove DEF MInv, handleVars
  <1> QED
    BY <1>1, <1>2, <1>3

\* Selecting a session that is held.
LEMMA SelectsHeld ==
  ASSUME MInv, NEW t \in Openers, NEW h \in Handles, h \in sessions', Selects(t, h),
         sessions \subseteq sessions', sessions' \cap gone = {}, gone' = gone
  PROVE  /\ SelectionIsHeld' /\ current' \in Handles \cup {Nobody}
         /\ fallback' \in Handles \cup {Nobody}
  BY ManagerAssumption DEF MInv, TypeOK, SelectionIsHeld, Selects

\* A session of the same path is used again.
LEMMA ReusesKeeps == ASSUME NEW t \in Openers, MInv, OpenReuses(t) PROVE MInv'
  <1>1. /\ opener[t] = "found" /\ mine[t] \in Handles /\ ~shutdown /\ Busy(t)
        /\ UNCHANGED <<handleVars, asked, record, sessions, gone, shutdown, openLock, request,
                       closeVars, callVars, releasing, eventVars>>
    BY DEF OpenReuses, MInv, MineOpened, ShutDown, Busy
  <1>2. CASE mine[t] \in sessions
    <2>1. /\ Selects(t, mine[t]) /\ opener' = [opener EXCEPT ![t] = "emitting"] /\ UNCHANGED mine
      BY <1>2 DEF OpenReuses
    <2>2. /\ SelectionIsHeld' /\ current' \in Handles \cup {Nobody}
          /\ fallback' \in Handles \cup {Nobody}
      BY <1>1, <1>2, <2>1, SelectsHeld DEF MInv, SelectionIsHeld
    <2>3. TypeOK' /\ OneOpener' /\ MineOpened'
      BY <1>1, <2>1, <2>2 DEF MInv, TypeOK, OneOpener, Busy, MineOpened, OpenerStates, handleVars,
         closeVars, callVars, eventVars
    <2>4. FreshUnheld' /\ SessionsHeld' /\ PoppedOnce' /\ ShutDown' /\ EndsOnce' /\ CallKnows'
      BY <1>1, <2>1 DEF MInv, TypeOK, FreshUnheld, Unheld, NoEvents, SessionsHeld, PoppedOnce, ShutDown,
         EndsOnce, CallKnows, Known, Popped, handleVars, closeVars, callVars, eventVars
    <2>5. LeasesAreOwned'
      BY <1>1, <2>1 DEF MInv, TypeOK, LeasesAreOwned, OneLeasePerInstance, NoLeakedHandle, Connected,
         handleVars, closeVars
    <2> QED
      BY <2>2, <2>3, <2>4, <2>5 DEF MInv
  <1>3. CASE mine[t] \notin sessions
    <2>1. /\ opener' = [opener EXCEPT ![t] = "opening"] /\ mine' = [mine EXCEPT ![t] = Nobody]
          /\ UNCHANGED <<current, fallback>>
      BY <1>3 DEF OpenReuses
    <2>2. TypeOK' /\ OneOpener' /\ MineOpened'
      BY <1>1, <2>1 DEF MInv, TypeOK, OneOpener, Busy, MineOpened, OpenerStates, handleVars, closeVars,
         callVars, eventVars
    <2>3. /\ opener'[t] = "opening"
          /\ \A s \in Openers : s # t => opener'[s] = opener[s] /\ mine'[s] = mine[s]
      BY <2>1 DEF MInv, TypeOK
    <2> QED
      BY <1>1, <2>1, <2>2, <2>3, QuietMove DEF MInv, handleVars, sessionVars
  <1> QED
    BY <1>2, <1>3

\* A handle is opened, or the open raises.
LEMMA HandleKeeps == ASSUME NEW t \in Openers, MInv, OpenHandle(t) PROVE MInv'
  <1>1. /\ opener[t] = "opening" /\ Busy(t) /\ ~shutdown
        /\ UNCHANGED <<registered, told, sessionVars, shutdown, closeVars, callVars, releasing, eventVars>>
    BY DEF OpenHandle, Busy, MInv, ShutDown
  <1>2. CASE Leaves(t) /\ UNCHANGED <<phase, asked, record>>
    <2>1. TypeOK' /\ OneOpener' /\ MineOpened'
      BY <1>1, <1>2, LeavesMoves DEF MInv, TypeOK, Busy, MineOpened, sessionVars, closeVars, callVars, eventVars
    <2> QED
      BY <1>1, <1>2, <2>1, LeavesMoves, QuietMove DEF MInv
  <1>3. ASSUME NEW h \in Handles, NEW r \in Records,
               /\ phase[h] = "opening" /\ phase' = [phase EXCEPT ![h] = "live"]
               /\ asked' = [asked EXCEPT ![h] = request[t].path]
               /\ record' = [record EXCEPT ![h] = r]
               /\ mine' = [mine EXCEPT ![t] = h]
               /\ opener' = [opener EXCEPT ![t] = "opened"]
               /\ UNCHANGED <<openLock, request>>
        PROVE  MInv'
    <2>1. request[t].path \in Paths \cup {Nobody}
      BY DEF MInv, TypeOK, Requests, NoRequest
    <2>2. TypeOK'
      BY <1>1, <1>3, <2>1 DEF MInv, TypeOK, Phases, OpenerStates, sessionVars, closeVars, callVars, eventVars
    <2>3. OneOpener' /\ MineOpened'
      BY <1>1, <1>3 DEF MInv, TypeOK, OneOpener, Busy, MineOpened
    <2>4. Unheld(h) /\ h \notin sessions
      BY <1>3 DEF MInv, FreshUnheld, Unheld
    <2>5. FreshUnheld'
      BY <1>1, <1>3, <2>4 DEF MInv, TypeOK, FreshUnheld, Unheld, NoEvents, sessionVars, closeVars, eventVars
    <2>6. SessionsHeld' /\ PoppedOnce' /\ ShutDown' /\ SelectionIsHeld' /\ EndsOnce' /\ CallKnows'
      BY <1>1, <1>3, <2>4 DEF MInv, TypeOK, SessionsHeld, PoppedOnce, ShutDown, SelectionIsHeld, EndsOnce,
         CallKnows, Known, Popped, NoEvents, sessionVars, closeVars, callVars, eventVars
    <2>7. LeasesAreOwned'
      BY <1>1, <1>3, <2>4 DEF MInv, TypeOK, LeasesAreOwned, OneLeasePerInstance, NoLeakedHandle, Connected,
         sessionVars, closeVars
    <2> QED
      BY <2>2, <2>3, <2>5, <2>6, <2>7 DEF MInv
  <1> QED
    BY <1>2, <1>3 DEF OpenHandle

\* A handle that is lost at once is given up.
LEMMA ChecksKeeps == ASSUME NEW t \in Openers, MInv, OpenChecks(t) PROVE MInv'
  <1>1. /\ opener[t] = "opened" /\ Busy(t) /\ ~shutdown /\ mine[t] \in Handles
        /\ UNCHANGED <<registered, told, asked, record, sessionVars, shutdown, closeVars, callVars,
                       releasing, eventVars>>
    BY DEF OpenChecks, Busy, MInv, ShutDown, MineOpened
  <1>2. UNCHANGED phase
    BY <1>1 DEF OpenChecks, Closed, Connected, MInv, TypeOK
  <1>3. CASE Connected(mine[t])
    <2>1. opener' = [opener EXCEPT ![t] = "checked"] /\ UNCHANGED <<openLock, mine, request>>
      BY <1>3 DEF OpenChecks
    <2>2. TypeOK' /\ OneOpener' /\ MineOpened' /\ FreshUnheld'
      BY <1>1, <1>2, <2>1 DEF MInv, TypeOK, OneOpener, Busy, MineOpened, FreshUnheld, Unheld, NoEvents,
         OpenerStates, sessionVars, closeVars, callVars, eventVars
    <2>3. SessionsHeld' /\ PoppedOnce' /\ ShutDown' /\ SelectionIsHeld' /\ EndsOnce' /\ CallKnows'
      BY <1>1, <1>2, <2>1 DEF MInv, TypeOK, SessionsHeld, PoppedOnce, ShutDown, SelectionIsHeld, EndsOnce,
         CallKnows, Known, Popped, NoEvents, sessionVars, closeVars, callVars, eventVars
    <2>4. LeasesAreOwned'
      BY <1>1, <1>2, <2>1 DEF MInv, TypeOK, LeasesAreOwned, OneLeasePerInstance, NoLeakedHandle,
         Connected, sessionVars, closeVars
    <2> QED
      BY <2>2, <2>3, <2>4 DEF MInv
  <1>4. CASE ~Connected(mine[t])
    <2>0. Leaves(t)
      BY <1>4 DEF OpenChecks
    <2>1. TypeOK' /\ OneOpener' /\ MineOpened'
      BY <1>1, <1>2, <2>0, LeavesMoves DEF MInv, TypeOK, Busy, MineOpened, sessionVars, closeVars, callVars,
         eventVars
    <2>2. FreshUnheld' /\ SessionsHeld' /\ PoppedOnce' /\ ShutDown'
      BY <1>1, <1>2, <2>0, LeavesMoves DEF MInv, FreshUnheld, Unheld, NoEvents, SessionsHeld, PoppedOnce,
         ShutDown, sessionVars, closeVars, eventVars
    <2>3. SelectionIsHeld' /\ EndsOnce' /\ CallKnows'
      BY <1>1, <1>2 DEF MInv, SelectionIsHeld, EndsOnce, CallKnows, Known, Popped, sessionVars, closeVars, callVars, eventVars
    <2>4. LeasesAreOwned'
      BY <1>1, <1>2, <1>4, <2>0, LeavesMoves DEF MInv, LeasesAreOwned, OneLeasePerInstance,
         NoLeakedHandle, Connected, sessionVars, closeVars
    <2> QED
      BY <2>1, <2>2, <2>3, <2>4 DEF MInv
  <1> QED
    BY <1>3, <1>4

\* A session is installed, unless its instance is attached already.
LEMMA InstallsKeeps == ASSUME NEW t \in Openers, MInv, OpenInstalls(t) PROVE MInv'
  <1>1. /\ opener[t] = "checked" /\ Busy(t) /\ ~shutdown /\ mine[t] \in Handles
        /\ phase[mine[t]] # "opening" /\ Unheld(mine[t])
        /\ UNCHANGED <<handleVars, asked, record, gone, shutdown, openLock, request, mine,
                       closeVars, callVars, releasing, eventVars>>
    BY DEF OpenInstalls, Busy, MInv, ShutDown, MineOpened, FreshUnheld
  <1>2. \A s \in Openers : s # t => ~Busy(s)
    BY <1>1, ManagerAssumption DEF MInv, OneOpener
  <1>3. ASSUME NEW h \in sessions,
               /\ Selects(t, h) /\ opener' = [opener EXCEPT ![t] = "extra"] /\ UNCHANGED sessions
        PROVE  MInv'
    <2>1. /\ SelectionIsHeld' /\ current' \in Handles \cup {Nobody}
          /\ fallback' \in Handles \cup {Nobody}
      BY <1>1, <1>3, SelectsHeld DEF MInv, SelectionIsHeld, TypeOK
    <2>2. TypeOK' /\ OneOpener' /\ MineOpened'
      BY <1>1, <1>3, <2>1 DEF MInv, TypeOK, OneOpener, Busy, MineOpened, OpenerStates, handleVars,
         closeVars, callVars, eventVars
    <2>3. FreshUnheld' /\ SessionsHeld' /\ PoppedOnce' /\ ShutDown' /\ EndsOnce' /\ CallKnows'
      BY <1>1, <1>3 DEF MInv, TypeOK, FreshUnheld, Unheld, NoEvents, SessionsHeld, PoppedOnce, ShutDown,
         EndsOnce, CallKnows, Known, Popped, handleVars, closeVars, callVars, eventVars
    <2>4. LeasesAreOwned'
      BY <1>1, <1>3 DEF MInv, TypeOK, LeasesAreOwned, OneLeasePerInstance, NoLeakedHandle, Connected,
         handleVars, closeVars
    <2> QED
      BY <2>1, <2>2, <2>3, <2>4 DEF MInv
  <1>4. ASSUME /\ \A h \in sessions : ~(Connected(h) /\ record[h] = record[mine[t]])
               /\ sessions' = sessions \cup {mine[t]} /\ Selects(t, mine[t])
               /\ opener' = [opener EXCEPT ![t] = "installed"]
        PROVE  MInv'
    <2>1. /\ SelectionIsHeld' /\ current' \in Handles \cup {Nobody}
          /\ fallback' \in Handles \cup {Nobody}
      BY <1>1, <1>4, SelectsHeld DEF MInv, SelectionIsHeld, Unheld
    <2>2. TypeOK' /\ OneOpener' /\ MineOpened'
      BY <1>1, <1>4, <2>1 DEF MInv, TypeOK, OneOpener, Busy, MineOpened, OpenerStates, handleVars,
         closeVars, callVars, eventVars
    <2>3. FreshUnheld'
      BY <1>1, <1>2, <1>4 DEF MInv, TypeOK, FreshUnheld, Unheld, NoEvents, Busy, handleVars, closeVars,
         eventVars
    <2>4. SessionsHeld' /\ PoppedOnce'
      BY <1>1, <1>4 DEF MInv, TypeOK, SessionsHeld, PoppedOnce, Unheld, NoEvents, handleVars, closeVars,
         eventVars
    <2>5. ShutDown' /\ EndsOnce'
      BY <1>1, <1>4 DEF MInv, ShutDown, EndsOnce, handleVars, closeVars, callVars, eventVars
    <2>7. CallKnows'
      BY <1>1, <1>2, <1>4 DEF MInv, TypeOK, CallKnows, Known, Popped, Unheld, handleVars, closeVars,
         callVars, eventVars
    <2>6. LeasesAreOwned'
      BY <1>1, <1>4 DEF MInv, TypeOK, LeasesAreOwned, OneLeasePerInstance, NoLeakedHandle, Connected,
         handleVars, closeVars
    <2> QED
      BY <2>1, <2>2, <2>3, <2>4, <2>5, <2>6, <2>7 DEF MInv
  <1> QED
    BY <1>3, <1>4 DEF OpenInstalls

\* What handle.close() may change.
LEMMA ClosedPhases ==
  ASSUME MInv, NEW h \in Handles, Closed(h)
  PROVE  /\ phase' \in [Handles -> Phases] /\ phase'[h] # "live"
         /\ \A g \in Handles : /\ phase'[g] = "live" => phase[g] = "live" /\ g # h
                               /\ phase'[g] = "opening" <=> phase[g] = "opening"
  BY DEF MInv, TypeOK, Closed, Phases

\* The handle that is one too many is closed.
LEMMA ExtraKeeps == ASSUME NEW t \in Openers, MInv, OpenClosesExtra(t) PROVE MInv'
  <1>1. /\ opener[t] = "extra" /\ Busy(t) /\ ~shutdown /\ mine[t] \in Handles
        /\ Closed(mine[t]) /\ opener' = [opener EXCEPT ![t] = "emitting"]
        /\ mine' = [mine EXCEPT ![t] = Nobody]
        /\ UNCHANGED <<registered, told, asked, record, sessionVars, shutdown, openLock, request,
                       closeVars, callVars, releasing, eventVars>>
    BY DEF OpenClosesExtra, Busy, MInv, ShutDown, MineOpened
  <1>2. /\ phase' \in [Handles -> Phases] /\ phase'[mine[t]] # "live"
        /\ \A g \in Handles : /\ phase'[g] = "live" => phase[g] = "live" /\ g # mine[t]
                              /\ phase'[g] = "opening" <=> phase[g] = "opening"
    BY <1>1, ClosedPhases
  <1>3. TypeOK' /\ OneOpener' /\ MineOpened'
    BY <1>1, <1>2 DEF MInv, TypeOK, OneOpener, Busy, MineOpened, OpenerStates, sessionVars, closeVars,
       callVars, eventVars
  <1>4. FreshUnheld' /\ SessionsHeld' /\ PoppedOnce'
    BY <1>1, <1>2 DEF MInv, TypeOK, MineOpened, FreshUnheld, Unheld, NoEvents, SessionsHeld, PoppedOnce,
       sessionVars, closeVars, eventVars
  <1>5. ShutDown' /\ SelectionIsHeld' /\ EndsOnce' /\ CallKnows'
    BY <1>1 DEF MInv, ShutDown, SelectionIsHeld, EndsOnce, CallKnows, Known, Popped, sessionVars, closeVars, callVars,
       eventVars
  <1>6. LeasesAreOwned'
    BY <1>1, <1>2 DEF MInv, TypeOK, LeasesAreOwned, OneLeasePerInstance, NoLeakedHandle, Connected,
       sessionVars, closeVars
  <1> QED
    BY <1>3, <1>4, <1>5, <1>6 DEF MInv

-----------------------------------------------------------------------------
(* Steps of the closers, of shutdown and of a call                          *)

\* A closer looks for its session.
LEMMA SelectsKeeps == ASSUME NEW k \in Closers, MInv, CloseSelects(k) PROVE MInv'
  <1>1. PICK h \in sessions \cup {Nobody} :
          /\ closer[k] = "idle" /\ target' = [target EXCEPT ![k] = h]
          /\ closer' = [closer EXCEPT ![k] = IF h = Nobody THEN "refused" ELSE "selected"]
          /\ UNCHANGED <<handleVars, asked, record, sessionVars, shutdown, openVars, callVars,
                         releasing, eventVars>>
    BY DEF CloseSelects, MInv, TypeOK
  <1>2. TypeOK' /\ OneOpener' /\ MineOpened' /\ ShutDown' /\ SelectionIsHeld' /\ EndsOnce'
    BY <1>1 DEF MInv, TypeOK, OneOpener, Busy, MineOpened, ShutDown, SelectionIsHeld, EndsOnce,
       CloserStates, handleVars, sessionVars, openVars, callVars, eventVars
  <1>3. FreshUnheld'
    BY <1>1, ManagerAssumption DEF MInv, TypeOK, MineOpened, FreshUnheld, Unheld, NoEvents, handleVars,
       sessionVars, openVars, eventVars
  <1>4. SessionsHeld' /\ PoppedOnce'
    BY <1>1, ManagerAssumption DEF MInv, TypeOK, SessionsHeld, PoppedOnce, NoEvents, handleVars,
       sessionVars, eventVars
  <1>5. LeasesAreOwned' /\ CallKnows'
    BY <1>1 DEF MInv, TypeOK, LeasesAreOwned, OneLeasePerInstance, NoLeakedHandle, Connected, CallKnows, Known, Popped,
       handleVars, sessionVars, openVars, callVars
  <1> QED
    BY <1>2, <1>3, <1>4, <1>5 DEF MInv

\* It pops the session, or finds that it is gone.
LEMMA PopsKeeps == ASSUME NEW k \in Closers, MInv, ClosePops(k) PROVE MInv'
  <1>1. /\ closer[k] = "selected" /\ target[k] \in Handles
        /\ UNCHANGED <<handleVars, asked, record, gone, fallback, shutdown, openVars,
                       target, callVars, releasing, eventVars>>
    BY DEF ClosePops, MInv, PoppedOnce
  <1>2. CASE target[k] \notin sessions
    <2>1. closer' = [closer EXCEPT ![k] = "unknown"] /\ UNCHANGED <<target, sessions, current>>
      BY <1>2 DEF ClosePops
    <2>2. TypeOK' /\ OneOpener' /\ MineOpened' /\ ShutDown' /\ SelectionIsHeld' /\ EndsOnce'
      BY <1>1, <2>1 DEF MInv, TypeOK, OneOpener, Busy, MineOpened, ShutDown, SelectionIsHeld, EndsOnce,
         CloserStates, handleVars, openVars, callVars, eventVars
    <2>3. \A j \in Closers : closer'[j] = IF j = k THEN "unknown" ELSE closer[j]
      BY <2>1 DEF MInv, TypeOK
    <2>4. FreshUnheld'
      BY <1>1, <2>1, ManagerAssumption DEF MInv, TypeOK, MineOpened, FreshUnheld, Unheld, NoEvents,
         handleVars, openVars, eventVars
    <2>5. SessionsHeld' /\ PoppedOnce'
      BY <1>1, <1>2, <2>1, <2>3 DEF MInv, SessionsHeld, PoppedOnce, NoEvents, handleVars, eventVars
    <2>6. LeasesAreOwned'
      BY <1>1, <2>1, <2>3 DEF MInv, LeasesAreOwned, OneLeasePerInstance, NoLeakedHandle, Connected,
         handleVars, openVars
    <2>7. \A h : Popped(h) => Popped(h)'
      BY <1>1, <2>1, <2>3 DEF Popped
    <2>8. CallKnows'
      BY <1>1, <1>2, <2>1, <2>3, <2>7 DEF MInv, CallKnows, Known, callVars
    <2> QED
      BY <2>2, <2>4, <2>5, <2>6, <2>8 DEF MInv
  <1>3. CASE target[k] \in sessions
    <2>1. /\ sessions' = sessions \ {target[k]} /\ closer' = [closer EXCEPT ![k] = "popped"]
          /\ current' \in IF current # target[k] THEN {current}
                          ELSE IF sessions = {target[k]} THEN {Nobody} ELSE sessions \ {target[k]}
      BY <1>3 DEF ClosePops
    <2>2. SelectionIsHeld' /\ current' \in Handles \cup {Nobody}
      BY <1>1, <1>3, <2>1, ManagerAssumption DEF MInv, TypeOK, SelectionIsHeld
    <2>3. TypeOK' /\ OneOpener' /\ MineOpened' /\ EndsOnce'
      BY <1>1, <2>1, <2>2 DEF MInv, TypeOK, OneOpener, Busy, MineOpened, EndsOnce,
         CloserStates, handleVars, openVars, callVars, eventVars
    <2>4. ShutDown'
      BY <1>1, <1>3, <2>1 DEF MInv, ShutDown, openVars
    <2>5. FreshUnheld' /\ SessionsHeld'
      BY <1>1, <1>3, <2>1 DEF MInv, TypeOK, MineOpened, FreshUnheld, Unheld, NoEvents,
         SessionsHeld, handleVars, openVars, eventVars
    <2>6. PoppedOnce'
      BY <1>1, <1>3, <2>1 DEF MInv, TypeOK, SessionsHeld, PoppedOnce, NoEvents, eventVars
    <2>7. LeasesAreOwned' /\ CallKnows'
      BY <1>1, <1>3, <2>1 DEF MInv, TypeOK, LeasesAreOwned, OneLeasePerInstance, NoLeakedHandle,
         Connected, CallKnows, Known, Popped, handleVars, openVars, callVars
    <2> QED
      BY <2>2, <2>3, <2>4, <2>5, <2>6, <2>7 DEF MInv
  <1> QED
    BY <1>2, <1>3

\* It closes the handle of the session it popped.
LEMMA CloseKeeps == ASSUME NEW k \in Closers, MInv, CloseHandle(k) PROVE MInv'
  <1>1. /\ closer[k] = "popped" /\ target[k] \in Handles /\ NoEvents(target[k])
        /\ target[k] \notin sessions /\ Closed(target[k])
        /\ closer' = [closer EXCEPT ![k] = "done"]
        /\ UNCHANGED <<registered, told, asked, record, sessionVars, shutdown, openVars,
                       target, callVars, releasing, lostEvents>>
    BY DEF CloseHandle, MInv, PoppedOnce
  <1>2. /\ phase' \in [Handles -> Phases] /\ phase'[target[k]] # "live"
        /\ \A g \in Handles : /\ phase'[g] = "live" => phase[g] = "live" /\ g # target[k]
                              /\ phase'[g] = "opening" <=> phase[g] = "opening"
    BY <1>1, ClosedPhases
  <1>3. /\ releasedEvents' \in [Handles -> 0..1]
        /\ \A h \in Handles : h # target[k] => releasedEvents'[h] = releasedEvents[h]
    BY <1>1 DEF CloseHandle, NoEvents, MInv, TypeOK
  <1>4. TypeOK' /\ OneOpener' /\ MineOpened' /\ ShutDown' /\ SelectionIsHeld'
    BY <1>1, <1>2, <1>3 DEF MInv, TypeOK, OneOpener, Busy, MineOpened, ShutDown, SelectionIsHeld,
       CloserStates, sessionVars, openVars, callVars
  <1>5. EndsOnce'
    BY <1>1, <1>3 DEF MInv, TypeOK, EndsOnce, NoEvents
  <1>6. FreshUnheld'
    BY <1>1, <1>2, <1>3 DEF MInv, TypeOK, MineOpened, FreshUnheld, Unheld, NoEvents, sessionVars, openVars
  <1>7. SessionsHeld' /\ PoppedOnce'
    BY <1>1, <1>2, <1>3 DEF MInv, TypeOK, SessionsHeld, PoppedOnce, NoEvents, sessionVars
  <1>8. LeasesAreOwned' /\ CallKnows'
    BY <1>1, <1>2 DEF MInv, TypeOK, LeasesAreOwned, OneLeasePerInstance, NoLeakedHandle, Connected,
       CallKnows, Known, Popped, sessionVars, openVars, callVars
  <1> QED
    BY <1>4, <1>5, <1>6, <1>7, <1>8 DEF MInv

\* Shutdown takes every session.
LEMMA ShutdownKeeps == ASSUME MInv, ShutdownStarts PROVE MInv'
  <1>1. /\ ~shutdown /\ shutdown' = TRUE /\ releasing' = sessions /\ releasing = {}
        /\ sessions' = {} /\ gone' = {} /\ fallback' = Nobody /\ current' = Nobody
        /\ UNCHANGED <<handleVars, asked, record, openVars, closeVars, callVars, eventVars>>
    BY DEF ShutdownStarts, MInv, ShutDown
  <1>2. \A t \in Openers : opener[t] \in {"idle", "ended", "emitting"}
    BY DEF ShutdownStarts, MInv, OneOpener, Busy
  <1>3. TypeOK' /\ OneOpener' /\ MineOpened'
    BY <1>1 DEF MInv, TypeOK, OneOpener, Busy, MineOpened, handleVars, openVars, closeVars, callVars, eventVars
  <1>4. FreshUnheld' /\ SessionsHeld' /\ PoppedOnce' /\ ShutDown' /\ SelectionIsHeld' /\ EndsOnce'
    BY <1>1, <1>2 DEF MInv, FreshUnheld, Unheld, NoEvents, SessionsHeld, PoppedOnce, ShutDown,
       SelectionIsHeld, EndsOnce, handleVars, openVars, closeVars, eventVars
  <1>5. LeasesAreOwned' /\ CallKnows'
    BY <1>1, <1>2 DEF MInv, LeasesAreOwned, OneLeasePerInstance, NoLeakedHandle, Connected, CallKnows, Known, Popped,
       handleVars, openVars, closeVars
  <1> QED
    BY <1>3, <1>4, <1>5 DEF MInv

\* It closes them one by one.
LEMMA ShutdownClosesKeeps == ASSUME NEW h \in Handles, MInv, ShutdownCloses(h) PROVE MInv'
  <1>1. /\ h \in releasing /\ Closed(h) /\ releasing' = releasing \ {h}
        /\ UNCHANGED <<registered, told, asked, record, sessionVars, shutdown, openVars,
                       closeVars, callVars, eventVars>>
    BY DEF ShutdownCloses
  <1>2. /\ phase' \in [Handles -> Phases] /\ phase'[h] # "live"
        /\ \A g \in Handles : /\ phase'[g] = "live" => phase[g] = "live" /\ g # h
                              /\ phase'[g] = "opening" <=> phase[g] = "opening"
    BY <1>1, ClosedPhases
  <1>3. TypeOK' /\ OneOpener' /\ MineOpened'
    BY <1>1, <1>2 DEF MInv, TypeOK, OneOpener, Busy, MineOpened, sessionVars, openVars, closeVars,
       callVars, eventVars
  <1>4. FreshUnheld' /\ SessionsHeld'
    BY <1>1, <1>2 DEF MInv, TypeOK, MineOpened, FreshUnheld, Unheld, NoEvents, SessionsHeld, sessionVars,
       openVars, closeVars, eventVars
  <1>5. PoppedOnce' /\ ShutDown' /\ SelectionIsHeld' /\ EndsOnce' /\ CallKnows'
    BY <1>1 DEF MInv, PoppedOnce, NoEvents, ShutDown, SelectionIsHeld, EndsOnce, CallKnows, Known, Popped, sessionVars,
       openVars, closeVars, callVars, eventVars
  <1>6. LeasesAreOwned'
    BY <1>1, <1>2 DEF MInv, TypeOK, LeasesAreOwned, OneLeasePerInstance, NoLeakedHandle, Connected,
       sessionVars, openVars, closeVars
  <1> QED
    BY <1>3, <1>4, <1>5, <1>6 DEF MInv

\* A call changes nothing of the manager.
LEMMA CallKeeps == ASSUME MInv, CallSteps PROVE MInv'
  <1>1. UNCHANGED <<handleVars, asked, record, sessionVars, shutdown, openVars, closeVars,
                    releasing, eventVars>>
    BY DEF CallSteps, CallResolves, CallLooksUp
  <1>2. CASE CallResolves
    <2>1. /\ caller' = "selected" /\ goal' = Resolved /\ Resolved # Nobody
          /\ Resolved \in {current, fallback}
      BY <1>2 DEF CallResolves, Resolved
    <2>2. goal' \in sessions \cup gone /\ goal' \in Handles
      BY <2>1, ManagerAssumption DEF MInv, TypeOK, SelectionIsHeld
    <2>3. TypeOK' /\ CallKnows'
      BY <1>1, <2>1, <2>2 DEF MInv, TypeOK, CallKnows, Known, Popped, CallerStates, handleVars, sessionVars, openVars,
         closeVars, eventVars
    <2> QED
      BY <1>1, <2>3 DEF MInv, OneOpener, Busy, MineOpened, FreshUnheld, Unheld, NoEvents, SessionsHeld,
         PoppedOnce, ShutDown, SelectionIsHeld, EndsOnce, LeasesAreOwned, OneLeasePerInstance,
         NoLeakedHandle, Connected, handleVars, sessionVars, openVars, closeVars, eventVars
  <1>3. CASE CallLooksUp
    <2>1. /\ caller = "selected"
          /\ \/ caller' = "idle" /\ goal' = Nobody
             \/ goal \notin sessions \cup gone /\ caller' = "unknown" /\ goal' = goal
      BY <1>3 DEF CallLooksUp
    <2>2. TypeOK' /\ CallKnows'
      BY <1>1, <2>1 DEF MInv, TypeOK, CallKnows, Known, Popped, CallerStates, handleVars, sessionVars, openVars,
         closeVars, eventVars
    <2> QED
      BY <1>1, <2>2 DEF MInv, OneOpener, Busy, MineOpened, FreshUnheld, Unheld, NoEvents, SessionsHeld,
         PoppedOnce, ShutDown, SelectionIsHeld, EndsOnce, LeasesAreOwned, OneLeasePerInstance,
         NoLeakedHandle, Connected, handleVars, sessionVars, openVars, closeVars, eventVars
  <1> QED
    BY <1>2, <1>3 DEF CallSteps

\* Every step keeps the invariant.
LEMMA StepMInv == MInv /\ [Next]_vars => MInv'
  <1> SUFFICES ASSUME MInv, [Next]_vars PROVE MInv'
    OBVIOUS
  <1>1. CASE UNCHANGED vars
    BY <1>1 DEF vars, MInv, TypeOK, OneOpener, Busy, MineOpened, FreshUnheld, Unheld, NoEvents,
       SessionsHeld, PoppedOnce, ShutDown, SelectionIsHeld, EndsOnce, LeasesAreOwned,
       OneLeasePerInstance, NoLeakedHandle, Connected, CallKnows, Known, Popped, handleVars, sessionVars, openVars,
       closeVars, callVars, eventVars
  <1>2. ASSUME NEW h \in Handles, HandleSteps(h) PROVE MInv'
    BY <1>2, LosesKeeps, MonitorKeeps DEF HandleSteps
  <1>3. ASSUME NEW t \in Openers, OpenSteps(t) PROVE MInv'
    BY <1>3, StartsKeeps, ReusesKeeps, HandleKeeps, ChecksKeeps, InstallsKeeps, ExtraKeeps,
       RegistersKeeps, TellsKeeps, EndsKeeps DEF OpenSteps
  <1>4. ASSUME NEW k \in Closers, CloseSteps(k) PROVE MInv'
    BY <1>4, SelectsKeeps, PopsKeeps, CloseKeeps DEF CloseSteps
  <1>5. CASE ShutdownSteps
    BY <1>5, ShutdownKeeps, ShutdownClosesKeeps DEF ShutdownSteps
  <1>6. CASE CallSteps
    BY <1>6, CallKeeps
  <1> QED
    BY <1>1, <1>2, <1>3, <1>4, <1>5, <1>6 DEF Next, Over

-----------------------------------------------------------------------------
\* The invariant holds of the manager.
THEOREM ManagerInvariant == Spec => []MInv
  BY InitMInv, StepMInv, PTL DEF Spec

\* The type invariant.
THEOREM TypeCorrect == Spec => []TypeOK
  <1>1. MInv => TypeOK
    BY DEF MInv
  <1> QED
    BY <1>1, ManagerInvariant, PTL

\* A session ends with one event, although its handle calls back twice and
\* while it is being closed.
THEOREM SessionsEndOnce == Spec => []EndsOnce
  <1>1. MInv => EndsOnce
    BY DEF MInv
  <1> QED
    BY <1>1, ManagerInvariant, PTL

\* No two connected sessions share an instance, and every open lease has an
\* owner that will close it.
THEOREM LeasesHaveOwners == Spec => []LeasesAreOwned
  <1>1. MInv => LeasesAreOwned
    BY DEF MInv
  <1> QED
    BY <1>1, ManagerInvariant, PTL

\* For any number of threads, "unknown database instance" is said only of a
\* session that is over: by a call only of one somebody closed, by
\* close_database also of one that was lost after it had been found.
THEOREM UnknownIdsAreOver == Spec => []UnknownIsOver
  <1>1. MInv => UnknownIsOver
    BY DEF MInv, CallKnows, Known, UnknownIsOver
  <1> QED
    BY <1>1, ManagerInvariant, PTL

\* The selection is a session that is held, and the remembered loss is not.
THEOREM SelectionStaysHeld == Spec => []SelectionIsHeld
  <1>1. MInv => SelectionIsHeld
    BY DEF MInv
  <1> QED
    BY <1>1, ManagerInvariant, PTL

\* No session appears after shutdown.
THEOREM ShutdownStaysFinal == Spec => []ShutdownIsFinal
  <1>1. MInv => ShutdownIsFinal
    BY DEF MInv, ShutDown, ShutdownIsFinal
  <1> QED
    BY <1>1, ManagerInvariant, PTL


-----------------------------------------------------------------------------
(* The handles, as HandleContract has them *)

\* What a step may do to the state of one handle.
Allowed(h) ==
  \/ phase'[h] = phase[h] /\ registered'[h] = registered[h] /\ told'[h] = told[h]
  \/ /\ UNCHANGED <<registered, told>>
     /\ \/ phase[h] = "opening" /\ phase'[h] = "live"
        \/ phase[h] = "live" /\ phase'[h] = "closed"
        \/ phase[h] \in {"live", "closed"} /\ phase'[h] = "lost"
  \/ /\ phase' = phase /\ told' = told
     /\ phase[h] \in {"live", "closed", "lost"} /\ registered'[h] = TRUE
  \/ /\ phase' = phase /\ registered' = registered
     /\ phase[h] = "lost" /\ registered[h] /\ told[h] < 2 /\ told'[h] = told[h] + 1

LEMMA AllowedIsContract ==
  ASSUME NEW h \in Handles, Allowed(h)
  PROVE  Handle(h)!Next \/ UNCHANGED Handle(h)!vars
  BY DEF Allowed, Handle!Next, Handle!Opens, Handle!Closes, Handle!Loses, Handle!Registers,
     Handle!Tells, Handle!vars

\* Closing touches the handle that is closed, if it is live.
LEMMA ClosingAllowed ==
  ASSUME TypeOK, NEW g \in Handles, Closed(g), UNCHANGED <<registered, told>>, NEW h \in Handles
  PROVE  Allowed(h)
  BY DEF TypeOK, Closed, Allowed

LEMMA StepAllowed ==
  ASSUME MInv, [Next]_vars, NEW h \in Handles
  PROVE  Allowed(h)
  <1> USE DEF handleVars
  <1>0. TypeOK /\ MineOpened /\ PoppedOnce
    BY DEF MInv
  <1>1. CASE UNCHANGED handleVars
    BY <1>1 DEF Allowed
  <1>2. ASSUME NEW g \in Handles, HandleLoses(g) PROVE Allowed(h)
    BY <1>0, <1>2 DEF HandleLoses, Allowed, TypeOK
  <1>3. ASSUME NEW g \in Handles, MonitorTells(g) PROVE Allowed(h)
    BY <1>0, <1>3 DEF MonitorTells, Allowed, TypeOK
  <1>4. ASSUME NEW t \in Openers, OpenHandle(t) PROVE Allowed(h)
    <2>1. CASE Leaves(t) /\ UNCHANGED <<phase, asked, record>>
      BY <1>4, <2>1 DEF OpenHandle, Allowed
    <2>2. ASSUME NEW g \in Handles, phase[g] = "opening", phase' = [phase EXCEPT ![g] = "live"]
          PROVE  Allowed(h)
      BY <1>0, <1>4, <2>2 DEF OpenHandle, Allowed, TypeOK
    <2> QED
      BY <1>4, <2>1, <2>2 DEF OpenHandle
  <1>5. ASSUME NEW t \in Openers, OpenChecks(t) PROVE Allowed(h)
    <2>1. mine[t] \in Handles
      BY <1>0, <1>5 DEF OpenChecks, MineOpened
    <2>2. UNCHANGED <<registered, told>> /\ (UNCHANGED phase \/ Closed(mine[t]))
      BY <1>5 DEF OpenChecks
    <2> QED
      BY <1>0, <1>1, <2>1, <2>2, ClosingAllowed
  <1>6. ASSUME NEW t \in Openers, OpenClosesExtra(t) PROVE Allowed(h)
    <2>1. mine[t] \in Handles
      BY <1>0, <1>6 DEF OpenClosesExtra, MineOpened
    <2> QED
      BY <1>0, <1>6, <2>1, ClosingAllowed DEF OpenClosesExtra
  <1>7. ASSUME NEW t \in Openers, OpenRegisters(t) PROVE Allowed(h)
    <2>1. mine[t] \in Handles /\ phase[mine[t]] \in {"live", "closed", "lost"}
      BY <1>0, <1>7 DEF OpenRegisters, MineOpened, TypeOK, Phases
    <2> QED
      BY <1>0, <1>7, <2>1 DEF OpenRegisters, Allowed, TypeOK
  <1>8. ASSUME NEW t \in Openers, OpenTells(t) PROVE Allowed(h)
    <2>1. mine[t] \in Handles /\ registered[mine[t]]
      BY <1>0, <1>8 DEF OpenTells, MineOpened
    <2>2. UNCHANGED <<phase, registered>>
      BY <1>8 DEF OpenTells
    <2>3. \/ told' = told
          \/ /\ phase[mine[t]] = "lost" /\ told[mine[t]] < 2
             /\ told' = [told EXCEPT ![mine[t]] = @ + 1]
      BY <1>8 DEF OpenTells
    <2> QED
      BY <1>0, <2>1, <2>2, <2>3 DEF Allowed, TypeOK
  <1>9. ASSUME NEW k \in Closers, CloseHandle(k) PROVE Allowed(h)
    <2>1. target[k] \in Handles
      BY <1>0, <1>9 DEF CloseHandle, PoppedOnce
    <2> QED
      BY <1>0, <1>9, <2>1, ClosingAllowed DEF CloseHandle
  <1>10. ASSUME NEW g \in Handles, ShutdownCloses(g) PROVE Allowed(h)
    BY <1>0, <1>10, ClosingAllowed DEF ShutdownCloses
  <1>11. ASSUME NEW t \in Openers,
                \/ OpenStarts(t) \/ OpenReuses(t) \/ OpenInstalls(t) \/ OpenTests(t) \/ OpenEnds(t)
         PROVE  Allowed(h)
    BY <1>1, <1>11 DEF OpenStarts, OpenReuses, OpenInstalls, OpenTests, OpenEnds
  <1>12. ASSUME NEW k \in Closers, CloseSelects(k) \/ ClosePops(k) PROVE Allowed(h)
    BY <1>1, <1>12 DEF CloseSelects, ClosePops
  <1>13. CASE ShutdownStarts \/ CallSteps \/ Over \/ UNCHANGED vars
    BY <1>1, <1>13 DEF ShutdownStarts, CallSteps, CallResolves, CallLooksUp, Over, vars
  <1> QED
    BY <1>2, <1>3, <1>4, <1>5, <1>6, <1>7, <1>8, <1>9, <1>10, <1>11, <1>12, <1>13
    DEF Next, HandleSteps, OpenSteps, CloseSteps, ShutdownSteps

\* Whatever threads do to the manager, each of its handles sees only steps
\* that HandleContract has: what the manager relies on is what DatabaseHandle
\* implements.
THEOREM HandlesStayInContract == Spec => HandlesKeepContract
  <1>1. MInv /\ [Next]_vars =>
          [\A h \in Handles : Handle(h)!Next \/ UNCHANGED Handle(h)!vars]_vars
    BY StepAllowed, AllowedIsContract
  <1> QED
    BY <1>1, ManagerInvariant, PTL DEF Spec, HandlesKeepContract
=============================================================================
