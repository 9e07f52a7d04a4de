---------------------------- MODULE DatabaseManager ----------------------------
(***************************************************************************)
(* The session manager (ida_nexus/manager.py): it opens handles, keeps one *)
(* session for each, selects a current one, and forgets a session whose    *)
(* handle reports that its instance is lost.  A handle does here what      *)
(* HandleContract allows, which DatabaseHandle implements.                 *)
(*                                                                         *)
(* Threads open, close and shut down; the monitor threads of the handles   *)
(* call back.  A step is one region of _lock or one call to a handle; opens*)
(* also hold _open_lock from their first test to their last event.         *)
(***************************************************************************)
EXTENDS Naturals, FiniteSets

CONSTANTS Openers,      \* threads in open_database
          Closers,      \* threads in close_database
          Handles,      \* the handles DatabaseHandle.open may return
          Paths, Records,
          Nobody        \* no thread, no handle

ASSUME ManagerAssumption == Nobody \notin Openers \cup Handles

VARIABLES
  phase, registered, told,   \* the state of each handle, as in HandleContract
  asked, record,             \* each handle's requested path and instance
  sessions,                  \* _instances: a session is named for its handle
  gone, fallback,            \* _disconnected_instances, _disconnected_default
  current,                   \* _current_instance_id
  openLock, shutdown,        \* _open_lock, _shutdown_started
  opener, request, mine,     \* each opener's step, its arguments, and the
                             \* session or handle it works on
  closer, target,            \* each closer's step and session
  caller, goal,              \* a thread that calls through the manager
  releasing,                 \* what shutdown has yet to close
  lostEvents, releasedEvents \* events emitted for each session

handleVars  == <<phase, registered, told>>
sessionVars == <<sessions, gone, fallback, current>>
openVars    == <<openLock, opener, request, mine>>
closeVars   == <<closer, target>>
callVars    == <<caller, goal>>
eventVars   == <<lostEvents, releasedEvents>>

vars == <<handleVars, asked, record, sessionVars, shutdown, openVars, closeVars,
          callVars, releasing, eventVars>>

OpenerStates == {"idle", "found", "opening", "opened", "checked", "installed",
                 "registered", "told", "extra", "emitting", "ended"}
CloserStates == {"idle", "selected", "popped", "done", "refused", "unknown"}
CallerStates == {"idle", "selected", "unknown"}
Requests == [path : Paths, setCurrent : BOOLEAN]
NoRequest == [path |-> Nobody, setCurrent |-> FALSE]
Phases == {"opening", "live", "closed", "lost"}

Connected(h) == phase[h] = "live"

Init == /\ phase = [h \in Handles |-> "opening"]
        /\ registered = [h \in Handles |-> FALSE]
        /\ told = [h \in Handles |-> 0]
        /\ asked = [h \in Handles |-> Nobody]
        /\ record = [h \in Handles |-> Nobody]
        /\ sessions = {} /\ gone = {} /\ fallback = Nobody /\ current = Nobody
        /\ openLock = Nobody /\ shutdown = FALSE
        /\ opener = [t \in Openers |-> "idle"]
        /\ request = [t \in Openers |-> NoRequest]
        /\ mine = [t \in Openers |-> Nobody]
        /\ closer = [k \in Closers |-> "idle"]
        /\ target = [k \in Closers |-> Nobody]
        /\ caller = "idle" /\ goal = Nobody
        /\ releasing = {}
        /\ lostEvents = [h \in Handles |-> 0]
        /\ releasedEvents = [h \in Handles |-> 0]

-----------------------------------------------------------------------------
(* Handles.                                                                 *)

\* variant: a handle that is closed is no longer lost.
ClosedForGood(h) == phase' = [phase EXCEPT ![h] = "closed"]

\* handle.close(): the handle of a lost instance stays lost.
Closed(h) == phase' = [phase EXCEPT ![h] = IF @ = "live" THEN "closed" ELSE @]

HandleLoses(h) ==
  /\ phase[h] \in {"live", "closed"}
  /\ phase' = [phase EXCEPT ![h] = "lost"]
  /\ UNCHANGED <<registered, told, asked, record, sessionVars, shutdown, openVars,
                 closeVars, callVars, releasing, eventVars>>

\* variant: a session already forgotten is reported again.
ReportsEveryTime(h) ==
  /\ sessions' = sessions \ {h}
  /\ gone' = gone \cup {h}
  /\ IF current = h THEN current' = Nobody /\ fallback' = h
                    ELSE UNCHANGED <<current, fallback>>
  /\ lostEvents' = [lostEvents EXCEPT ![h] = @ + 1]

\* _handle_disconnected, under _lock, and its event.
Disconnected(h) ==
  IF h \in sessions
  THEN /\ sessions' = sessions \ {h}
       /\ gone' = gone \cup {h}
       /\ IF current = h THEN current' = Nobody /\ fallback' = h
                         ELSE UNCHANGED <<current, fallback>>
       /\ lostEvents' = [lostEvents EXCEPT ![h] = @ + 1]
  ELSE UNCHANGED <<sessionVars, lostEvents>>

\* The monitor thread of a lost handle calls back.
MonitorTells(h) ==
  /\ phase[h] = "lost" /\ registered[h] /\ told[h] < 2
  /\ told' = [told EXCEPT ![h] = @ + 1]
  /\ Disconnected(h)
  /\ UNCHANGED <<phase, registered, asked, record, shutdown, openVars, closeVars,
                 callVars, releasing, releasedEvents>>

-----------------------------------------------------------------------------
(* open_database.                                                           *)

\* The thread leaves open_database, and _open_lock with it.
Leaves(t) == /\ opener' = [opener EXCEPT ![t] = "ended"]
             /\ openLock' = Nobody
             /\ mine' = [mine EXCEPT ![t] = Nobody]
             /\ request' = [request EXCEPT ![t] = NoRequest]

\* A session of the same path whose handle is connected is a candidate.
OpenStarts(t) ==
  /\ opener[t] = "idle" /\ openLock = Nobody
  /\ IF shutdown
     THEN opener' = [opener EXCEPT ![t] = "ended"] /\ UNCHANGED <<openLock, mine, request>>
     ELSE \E r \in Requests :
          /\ openLock' = t
          /\ request' = [request EXCEPT ![t] = r]
          /\ \/ \E h \in sessions :
                  /\ asked[h] = r.path /\ Connected(h)
                  /\ mine' = [mine EXCEPT ![t] = h]
                  /\ opener' = [opener EXCEPT ![t] = "found"]
             \/ /\ \A h \in sessions : ~(asked[h] = r.path /\ Connected(h))
                /\ opener' = [opener EXCEPT ![t] = "opening"]
                /\ UNCHANGED mine
  /\ UNCHANGED <<handleVars, asked, record, sessionVars, shutdown, closeVars,
                 callVars, releasing, eventVars>>

\* variant: the loss is remembered beside the new selection.
SelectsBesideLoss(t, h) ==
  IF request[t].setCurrent \/ current = Nobody
  THEN current' = h /\ UNCHANGED fallback
  ELSE UNCHANGED <<current, fallback>>

\* A database is selected when the open asks for it, or when none is.
Selects(t, h) ==
  IF request[t].setCurrent \/ current = Nobody
  THEN current' = h /\ fallback' = Nobody
  ELSE UNCHANGED <<current, fallback>>

\* The candidate may have been forgotten or closed since.
OpenReuses(t) ==
  /\ opener[t] = "found"
  /\ IF mine[t] \in sessions
     THEN /\ Selects(t, mine[t])
          /\ opener' = [opener EXCEPT ![t] = "emitting"]
          /\ UNCHANGED mine
     ELSE /\ opener' = [opener EXCEPT ![t] = "opening"]
          /\ mine' = [mine EXCEPT ![t] = Nobody]
          /\ UNCHANGED <<current, fallback>>
  /\ UNCHANGED <<handleVars, asked, record, sessions, gone, shutdown, openLock, request,
                 closeVars, callVars, releasing, eventVars>>

\* DatabaseHandle.open returns a new handle or raises.  Another path may lead
\* to the same instance, and the same path to another one later.
OpenHandle(t) ==
  /\ opener[t] = "opening"
  /\ \/ \E h \in Handles, r \in Records :
          /\ phase[h] = "opening"
          /\ phase' = [phase EXCEPT ![h] = "live"]
          /\ asked' = [asked EXCEPT ![h] = request[t].path]
          /\ record' = [record EXCEPT ![h] = r]
          /\ mine' = [mine EXCEPT ![t] = h]
          /\ opener' = [opener EXCEPT ![t] = "opened"]
          /\ UNCHANGED <<openLock, request>>
     \/ Leaves(t) /\ UNCHANGED <<phase, asked, record>>
  /\ UNCHANGED <<registered, told, sessionVars, shutdown, closeVars, callVars,
                 releasing, eventVars>>

\* A handle lost already is closed, and the open raises.
OpenChecks(t) ==
  /\ opener[t] = "opened"
  /\ IF Connected(mine[t])
     THEN /\ opener' = [opener EXCEPT ![t] = "checked"]
          /\ UNCHANGED <<phase, openLock, mine, request>>
     ELSE Closed(mine[t]) /\ Leaves(t)
  /\ UNCHANGED <<registered, told, asked, record, sessionVars, shutdown, closeVars, callVars, releasing, eventVars>>

\* variant: the session of an instance that is attached already is added.
InstallsAnyway(t) ==
  /\ opener[t] = "checked"
  /\ sessions' = sessions \cup {mine[t]}
  /\ Selects(t, mine[t])
  /\ opener' = [opener EXCEPT ![t] = "installed"]
  /\ UNCHANGED <<handleVars, asked, record, gone, shutdown, openLock, request, mine,
                 closeVars, callVars, releasing, eventVars>>

\* Under _lock: a connected session of the same instance keeps its place, and
\* the new handle, which may be lost by now, is one too many.
OpenInstalls(t) ==
  /\ opener[t] = "checked"
  /\ \/ \E h \in sessions :
          /\ Connected(h) /\ record[h] = record[mine[t]]
          /\ Selects(t, h)
          /\ opener' = [opener EXCEPT ![t] = "extra"]
          /\ UNCHANGED sessions
     \/ /\ \A h \in sessions : ~(Connected(h) /\ record[h] = record[mine[t]])
        /\ sessions' = sessions \cup {mine[t]}
        /\ Selects(t, mine[t])
        /\ opener' = [opener EXCEPT ![t] = "installed"]
  /\ UNCHANGED <<handleVars, asked, record, gone, shutdown, openLock, request, mine,
                 closeVars, callVars, releasing, eventVars>>

\* variant: the handle that is one too many stays open.
ExtraKept(t) ==
  /\ opener[t] = "extra"
  /\ opener' = [opener EXCEPT ![t] = "emitting"]
  /\ mine' = [mine EXCEPT ![t] = Nobody]
  /\ UNCHANGED <<handleVars, asked, record, sessionVars, shutdown, openLock, request,
                 closeVars, callVars, releasing, eventVars>>

OpenClosesExtra(t) ==
  /\ opener[t] = "extra"
  /\ Closed(mine[t])
  /\ opener' = [opener EXCEPT ![t] = "emitting"]
  /\ mine' = [mine EXCEPT ![t] = Nobody]
  /\ UNCHANGED <<registered, told, asked, record, sessionVars, shutdown, openLock,
                 request, closeVars, callVars, releasing, eventVars>>

\* variant: no callback is set.
OpenDoesNotRegister(t) ==
  /\ opener[t] = "installed"
  /\ opener' = [opener EXCEPT ![t] = "told"]
  /\ UNCHANGED <<handleVars, asked, record, sessionVars, shutdown, openLock, request,
                 mine, closeVars, callVars, releasing, eventVars>>

\* set_disconnect_callback registers, after the session was installed ...
OpenRegisters(t) ==
  /\ opener[t] = "installed"
  /\ registered' = [registered EXCEPT ![mine[t]] = TRUE]
  /\ opener' = [opener EXCEPT ![t] = "registered"]
  /\ UNCHANGED <<phase, told, asked, record, sessionVars, shutdown, openLock, request,
                 mine, closeVars, callVars, releasing, eventVars>>

\* ... and calls back itself when the handle is lost by then.
OpenTells(t) ==
  /\ opener[t] = "registered"
  /\ LET h == mine[t] IN
       IF phase[h] = "lost" /\ told[h] < 2
       THEN told' = [told EXCEPT ![h] = @ + 1] /\ Disconnected(h)
       ELSE UNCHANGED <<told, sessionVars, lostEvents>>
  /\ opener' = [opener EXCEPT ![t] = "told"]
  /\ UNCHANGED <<phase, registered, asked, record, shutdown, openLock, request, mine,
                 closeVars, callVars, releasing, releasedEvents>>

\* A handle that was lost, or closed by another thread, makes the open raise.
OpenTests(t) ==
  /\ opener[t] = "told"
  /\ IF Connected(mine[t])
     THEN opener' = [opener EXCEPT ![t] = "emitting"] /\ UNCHANGED <<openLock, mine, request>>
     ELSE Leaves(t)
  /\ UNCHANGED <<handleVars, asked, record, sessionVars, shutdown, closeVars,
                 callVars, releasing, eventVars>>

\* The event is emitted and open_database returns.
OpenEnds(t) ==
  /\ opener[t] = "emitting"
  /\ Leaves(t)
  /\ UNCHANGED <<handleVars, asked, record, sessionVars, shutdown, closeVars,
                 callVars, releasing, eventVars>>

-----------------------------------------------------------------------------
(* close_database, and shutdown.                                            *)

CloseSelects(k) ==
  /\ closer[k] = "idle"
  /\ \/ \E h \in sessions : target' = [target EXCEPT ![k] = h]
     \/ target' = [target EXCEPT ![k] = Nobody]
  /\ closer' = [closer EXCEPT ![k] = IF target'[k] = Nobody THEN "refused" ELSE "selected"]
  /\ UNCHANGED <<handleVars, asked, record, sessionVars, shutdown, openVars, callVars,
                 releasing, eventVars>>

\* variant: the session found earlier is closed whoever removed it since.
PopsWhateverIsThere(k) ==
  /\ closer[k] = "selected"
  /\ sessions' = sessions \ {target[k]}
  /\ current' = IF current = target[k] THEN Nobody ELSE current
  /\ closer' = [closer EXCEPT ![k] = "popped"]
  /\ UNCHANGED <<handleVars, asked, record, gone, fallback, shutdown, openVars, target,
                 callVars, releasing, eventVars>>

\* Under _lock it is popped, unless it is no longer there: close_database does
\* not look why, and raises "unknown database instance" also when the session
\* was lost since it was found.  Another session becomes current.
ClosePops(k) ==
  /\ closer[k] = "selected"
  /\ LET h == target[k] IN
       IF h \in sessions
       THEN /\ sessions' = sessions \ {h}
            /\ current' \in IF current # h THEN {current}
                            ELSE IF sessions = {h} THEN {Nobody} ELSE sessions \ {h}
            /\ closer' = [closer EXCEPT ![k] = "popped"]
       ELSE /\ closer' = [closer EXCEPT ![k] = "unknown"]
            /\ UNCHANGED <<sessions, current>>
  /\ UNCHANGED <<handleVars, asked, record, gone, fallback, shutdown, openVars,
                 target, callVars, releasing, eventVars>>

\* The handle is closed outside _lock, and the event emitted, unless the wait
\* for the database timed out and close() raised.
CloseHandle(k) ==
  /\ closer[k] = "popped"
  /\ Closed(target[k])
  /\ \E emitted \in {0, 1} :
       releasedEvents' = [releasedEvents EXCEPT ![target[k]] = @ + emitted]
  /\ closer' = [closer EXCEPT ![k] = "done"]
  /\ UNCHANGED <<registered, told, asked, record, sessionVars, shutdown, openVars,
                 target, callVars, releasing, lostEvents>>

\* variant: shutdown does not wait for an open under way.
ShutsDownAtOnce ==
  /\ ~shutdown
  /\ shutdown' = TRUE
  /\ releasing' = sessions
  /\ sessions' = {} /\ gone' = {} /\ fallback' = Nobody /\ current' = Nobody
  /\ UNCHANGED <<handleVars, asked, record, openVars, closeVars, callVars, eventVars>>

\* shutdown holds both locks.  _open_lock is reentrant: the event of an open
\* may itself shut the manager down.
ShutdownStarts ==
  /\ ~shutdown
  /\ \A t \in Openers : openLock = t => opener[t] = "emitting"
  /\ shutdown' = TRUE
  /\ releasing' = sessions
  /\ sessions' = {} /\ gone' = {} /\ fallback' = Nobody /\ current' = Nobody
  /\ UNCHANGED <<handleVars, asked, record, openVars, closeVars, callVars, eventVars>>

\* Each handle is closed by a thread of its own.
ShutdownCloses(h) ==
  /\ h \in releasing
  /\ Closed(h)
  /\ releasing' = releasing \ {h}
  /\ UNCHANGED <<registered, told, asked, record, sessionVars, shutdown, openVars,
                 closeVars, callVars, eventVars>>

-----------------------------------------------------------------------------
(* Calls without an instance id, through _get_session.                      *)

Resolved == IF current # Nobody THEN current ELSE fallback

\* The current session, or the one lost while it was current.  A call that
\* finds none waits for the startup thread, for a bounded time and with no
\* lock held, and looks once more: it is a call that looks later.
CallResolves ==
  /\ caller = "idle" /\ Resolved # Nobody
  /\ goal' = Resolved
  /\ caller' = "selected"
  /\ UNCHANGED <<handleVars, asked, record, sessionVars, shutdown, openVars, closeVars,
                 releasing, eventVars>>

\* variant: a session that is not there is unknown, whatever became of it.
CallForgets ==
  /\ caller = "selected"
  /\ IF goal \in sessions
     THEN caller' = "idle" /\ goal' = Nobody
     ELSE caller' = "unknown" /\ UNCHANGED goal
  /\ UNCHANGED <<handleVars, asked, record, sessionVars, shutdown, openVars, closeVars,
                 releasing, eventVars>>

\* Under _lock, in another region, the session is looked up by its id: it is
\* called, or its loss reported, or its id is unknown.  No call changes the
\* manager, and the thread may call again.
CallLooksUp ==
  /\ caller = "selected"
  /\ IF goal \in sessions \cup gone
     THEN caller' = "idle" /\ goal' = Nobody
     ELSE caller' = "unknown" /\ UNCHANGED goal
  /\ UNCHANGED <<handleVars, asked, record, sessionVars, shutdown, openVars, closeVars,
                 releasing, eventVars>>

-----------------------------------------------------------------------------
Over ==
  /\ \A t \in Openers : opener[t] \in {"idle", "ended"}
  /\ \A k \in Closers : closer[k] \in {"idle", "done", "refused", "unknown"}
  /\ releasing = {}
  /\ UNCHANGED vars

HandleSteps(h) == HandleLoses(h) \/ MonitorTells(h)
OpenSteps(t)   == \/ OpenStarts(t) \/ OpenReuses(t) \/ OpenHandle(t) \/ OpenChecks(t)
                  \/ OpenInstalls(t) \/ OpenClosesExtra(t) \/ OpenRegisters(t)
                  \/ OpenTells(t) \/ OpenTests(t) \/ OpenEnds(t)
CloseSteps(k)  == CloseSelects(k) \/ ClosePops(k) \/ CloseHandle(k)
ShutdownSteps  == ShutdownStarts \/ \E h \in Handles : ShutdownCloses(h)
CallSteps      == CallResolves \/ CallLooksUp

Next == \/ \E h \in Handles : HandleSteps(h)
        \/ \E t \in Openers : OpenSteps(t)
        \/ \E k \in Closers : CloseSteps(k)
        \/ ShutdownSteps
        \/ CallSteps
        \/ Over

Spec == Init /\ [][Next]_vars

\* Threads that hold a lock or a handle go on, and a handle keeps its promise
\* to call back once.  Nobody has to open, close, call or shut down.
Fairness ==
  /\ \A h \in Handles : /\ WF_vars(told[h] = 0 /\ MonitorTells(h))
                        /\ WF_vars(ShutdownCloses(h))
  /\ \A t \in Openers : WF_vars(opener[t] # "idle" /\ OpenSteps(t))
  /\ \A k \in Closers : WF_vars(closer[k] # "idle" /\ CloseSteps(k))

FairSpec == Spec /\ Fairness

-----------------------------------------------------------------------------
TypeOK ==
  /\ phase \in [Handles -> Phases] /\ registered \in [Handles -> BOOLEAN]
  /\ told \in [Handles -> 0..2]
  /\ asked \in [Handles -> Paths \cup {Nobody}]
  /\ record \in [Handles -> Records \cup {Nobody}]
  /\ sessions \subseteq Handles /\ gone \subseteq Handles
  /\ fallback \in Handles \cup {Nobody} /\ current \in Handles \cup {Nobody}
  /\ openLock \in Openers \cup {Nobody} /\ shutdown \in BOOLEAN
  /\ opener \in [Openers -> OpenerStates]
  /\ request \in [Openers -> Requests \cup {NoRequest}]
  /\ mine \in [Openers -> Handles \cup {Nobody}]
  /\ closer \in [Closers -> CloserStates] /\ target \in [Closers -> Handles \cup {Nobody}]
  /\ caller \in CallerStates /\ goal \in Handles \cup {Nobody}
  /\ releasing \subseteq Handles
  /\ lostEvents \in [Handles -> 0..1] /\ releasedEvents \in [Handles -> 0..1]

\* What is selected is a session the manager holds, and a remembered loss is
\* of a session it no longer holds and never shadows a selection.
SelectionIsHeld ==
  /\ current \in sessions \cup {Nobody}
  /\ fallback \in gone \cup {Nobody}
  /\ current # Nobody => fallback = Nobody
  /\ sessions \cap gone = {}

\* The manager holds at most one connected session for an instance, although
\* several threads open it, under different paths too.
OneLeasePerInstance ==
  \A g, h \in sessions :
    Connected(g) /\ Connected(h) /\ record[g] = record[h] => g = h

\* A session ends with one event: "disconnected" or "released", although the
\* handle may call back twice and while it is being closed.
EndsOnce == \A h \in Handles : lostEvents[h] + releasedEvents[h] <= 1

\* Every open lease has an owner: a session, or a thread that will install or
\* close it.
NoLeakedHandle ==
  \A h \in Handles :
    Connected(h) => \/ h \in sessions \cup releasing
                    \/ \E t \in Openers : mine[t] = h /\ opener[t] \in {"opened", "checked", "extra"}
                    \/ \E k \in Closers : target[k] = h /\ closer[k] = "popped"

\* Leases and sessions match: see the two parts.
LeasesAreOwned == OneLeasePerInstance /\ NoLeakedHandle

\* After shutdown no session appears, whatever was opening at the time.
ShutdownIsFinal == shutdown => sessions = {} /\ current = Nobody

\* The owner has closed the session.
Popped(h) == \E k \in Closers : target[k] = h /\ closer[k] \in {"popped", "done"}

\* "unknown database instance" is never said of a session the manager holds.
\* A call says it only of one its owner closed: a loss is reported to it as a
\* loss.  close_database says it of a lost session too, when the loss falls
\* between its two looks, and of nothing else that its owner did not close.
UnknownIsOver ==
  /\ caller = "unknown" => shutdown \/ Popped(goal)
  /\ \A k \in Closers : closer[k] = "unknown" =>
       /\ target[k] \notin sessions
       /\ shutdown \/ Popped(target[k]) \/ target[k] \in gone

\* A session whose instance is lost is forgotten and no longer selected, also
\* when the loss falls between installing it and registering the callback.
LostIsForgotten ==
  \A h \in Handles : phase[h] = "lost" ~> h \notin sessions /\ current # h

\* Shutdown releases every lease, those being opened or closed included.
ShutdownReleases == shutdown ~> \A h \in Handles : ~Connected(h)

Handle(h) == INSTANCE HandleContract
               WITH phase <- phase[h], registered <- registered[h], told <- told[h]

\* What the manager does to a handle, and asks of it, is within the contract
\* that DatabaseHandle implements.
HandlesKeepContract ==
  [][\A h \in Handles : Handle(h)!Next \/ UNCHANGED Handle(h)!vars]_vars
=============================================================================
