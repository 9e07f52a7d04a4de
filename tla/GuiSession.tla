------------------------------ MODULE GuiSession ------------------------------
(***************************************************************************)
(* The GUI plugin (ida_nexus/plugin.py) in one IDA process: providers, each*)
(* its own copy of the module state, register the database the user has    *)
(* open, and give the registration up after they are unloaded.             *)
(*                                                                         *)
(* Everything here runs on IDA's main thread, so one start ends before any-*)
(* thing else begins; its steps are apart because other processes look at  *)
(* locks and records at any time.  A registration (InstanceRegistration) is*)
(* the lock and record one NexusHTTPServer.start() makes.  The kernel loads*)
(* and unloads plugins as databases open and close, and runs queued UI     *)
(* requests only while it dispatches ("idle").                             *)
(***************************************************************************)
EXTENDS Naturals, FiniteSets

CONSTANTS Providers, Databases, Registrations,
          None

ASSUME GuiAssumption == None \notin Providers \cup Databases \cup Registrations

VARIABLES
  kernel,      \* what the kernel is doing
  db,          \* the database it has open
  ready,       \* providers whose _component is set
  external,    \* those with _external_registration
  server,      \* each provider's session.server, by its registration
  attached,    \* providers whose session holds an ida-domain Database
  pending,     \* _pending_release
  queue,       \* sessions with a release_when_idle request queued
  state,       \* each registration's lock and record
  names,       \* the provider and database of each registration
  starter, step, made  \* the provider in start_server, how far it is, and the
                       \* registration its server knows

kernelVars == <<kernel, db>>
pluginVars == <<ready, external, server, attached, pending, queue>>
regVars    == <<state, names>>
startVars  == <<starter, step, made>>

vars == <<kernelVars, pluginVars, regVars, startVars>>

KernelStates == {"idle", "opening", "closing", "exiting", "gone"}
\* "locked": lock without record; "leaked": locked, and known to no server.
RegStates  == {"free", "locked", "published", "leaked", "released"}
StepStates == {"none", "looked", "attached", "bound", "failing", "detached"}
NoName == [by |-> None, of |-> None]

Held(r) == state[r] \in {"locked", "published", "leaked"}
Live(r) == state[r] = "published"

Init == /\ kernel = "idle" /\ db = None
        /\ ready = {} /\ external = {}
        /\ server = [p \in Providers |-> None]
        /\ attached = {}
        /\ pending = [p \in Providers |-> None]
        /\ queue = {}
        /\ state = [r \in Registrations |-> "free"]
        /\ names = [r \in Registrations |-> NoName]
        /\ starter = None /\ step = "none" /\ made = None

-----------------------------------------------------------------------------
(* The kernel.                                                              *)

MainThreadFree == starter = None

OpensDatabase(d) ==
  /\ MainThreadFree /\ kernel = "idle" /\ db = None
  /\ db' = d /\ kernel' = "opening"
  /\ UNCHANGED <<pluginVars, regVars, startVars>>

\* Plugins are loaded and dispatch begins.
Dispatches ==
  /\ kernel = "opening"
  /\ kernel' = "idle"
  /\ UNCHANGED <<db, pluginVars, regVars, startVars>>

\* The user closes the database or the program: plugins are unloaded first.
BeginsClosing(how) ==
  /\ MainThreadFree /\ kernel = "idle" /\ db # None
  /\ kernel' = how
  /\ UNCHANGED <<db, pluginVars, regVars, startVars>>

\* Then the database is closed.  Another one may be opened at once.
ClosesDatabase ==
  /\ kernel = "closing" /\ ready = {}
  /\ \/ kernel' = "idle" /\ db' = None
     \/ kernel' = "opening" /\ db' \in Databases
  /\ UNCHANGED <<pluginVars, regVars, startVars>>

\* At exit the system releases the locks that are still held.
Exits ==
  /\ kernel = "exiting" /\ ready = {}
  /\ kernel' = "gone" /\ db' = None
  /\ state' = [r \in Registrations |-> IF Held(r) THEN "released" ELSE state[r]]
  /\ UNCHANGED <<pluginVars, names, startVars>>

-----------------------------------------------------------------------------
(* Loading and unloading.                                                   *)

\* session.release(): the record is withdrawn and the lock closed.
Released(r) == IF r = None THEN state ELSE [state EXCEPT ![r] = "released"]

\* variant: a reload leaves the release to the queued request.
InitialisesOnly(p) ==
  /\ MainThreadFree /\ kernel \in {"idle", "opening"} /\ p \notin ready
  /\ ready' = ready \cup {p}
  /\ UNCHANGED <<kernelVars, external, server, attached, pending, queue, regVars, startVars>>

\* init() of an unloaded provider, at a database or by a reload: it releases
\* what the previous component left.  component.init() may fail.
Initialises(p) ==
  /\ MainThreadFree /\ kernel \in {"idle", "opening"} /\ p \notin ready
  /\ state' = Released(pending[p])
  /\ pending' = [pending EXCEPT ![p] = None]
  /\ ready' \in {ready, ready \cup {p}}
  /\ UNCHANGED <<kernelVars, external, server, attached, queue, names, startVars>>

\* variant: the release is left to a reload.
KeptForReload(p) == pending' = [pending EXCEPT ![p] = server[p]] /\ UNCHANGED queue

\* The release of the session is queued and remembered.
Deferred(p) == /\ pending' = [pending EXCEPT ![p] = server[p]]
               /\ queue' = queue \cup ({server[p]} \ {None})

\* variant: the session is released at once.
TerminatesAndReleases(p) ==
  /\ MainThreadFree /\ kernel \in {"idle", "closing", "exiting"} /\ p \in ready
  /\ ready' = ready \ {p} /\ external' = external \ {p}
  /\ attached' = attached \ {p}
  /\ state' = Released(server[p])
  /\ server' = [server EXCEPT ![p] = None]
  /\ UNCHANGED <<kernelVars, pending, queue, names, startVars>>

\* variant: a provider that backed off once does so after a reload as well.
TerminatesKeepsFlag(p) ==
  /\ MainThreadFree /\ kernel \in {"idle", "closing", "exiting"} /\ p \in ready
  /\ ready' = ready \ {p}
  /\ attached' = attached \ {p}
  /\ Deferred(p)
  /\ server' = [server EXCEPT ![p] = None]
  /\ UNCHANGED <<kernelVars, external, regVars, startVars>>

\* term(): the server stops and the Database detaches; lock and record stay.
Terminates(p) ==
  /\ MainThreadFree /\ kernel \in {"idle", "closing", "exiting"} /\ p \in ready
  /\ ready' = ready \ {p} /\ external' = external \ {p}
  /\ attached' = attached \ {p}
  /\ Deferred(p)
  /\ server' = [server EXCEPT ![p] = None]
  /\ UNCHANGED <<kernelVars, regVars, startVars>>

\* release_when_idle; a session released by init() meanwhile is passed over.
ReleasesWhenIdle(r) ==
  /\ MainThreadFree /\ kernel = "idle" /\ r \in queue
  /\ queue' = queue \ {r}
  /\ state' = Released(r)
  /\ pending' = [p \in Providers |-> IF pending[p] = r THEN None ELSE pending[p]]
  /\ UNCHANGED <<kernelVars, ready, external, server, attached, names, startVars>>

-----------------------------------------------------------------------------
(* start_server(), from the ready_to_run hook or a call of start().         *)

\* variant: nobody looks for another provider.
StartsAnyway(p) ==
  /\ MainThreadFree /\ kernel = "idle" /\ db # None
  /\ p \in ready \ external /\ server[p] = None
  /\ starter' = p /\ step' = "looked"
  /\ UNCHANGED <<kernelVars, pluginVars, regVars, made>>

\* find_gui_owner: the record of this database whose lock is held makes the
\* provider back off, until it is loaded again.
StartLooks(p) ==
  /\ MainThreadFree /\ kernel = "idle" /\ db # None
  /\ p \in ready \ external /\ server[p] = None
  /\ \/ /\ \E r \in Registrations : Live(r) /\ names[r].of = db
        /\ external' = external \cup {p}
        /\ UNCHANGED startVars
     \/ /\ \A r \in Registrations : ~(Live(r) /\ names[r].of = db)
        /\ starter' = p /\ step' = "looked"
        /\ UNCHANGED <<external, made>>
  /\ UNCHANGED <<kernelVars, ready, server, attached, pending, queue, regVars>>

\* Database.open() attaches, or start() raises.
StartAttaches ==
  /\ step = "looked"
  /\ \/ step' = "attached" /\ attached' = attached \cup {starter} /\ UNCHANGED starter
     \/ step' = "none" /\ starter' = None /\ UNCHANGED attached
  /\ UNCHANGED <<kernelVars, ready, external, server, pending, queue, regVars, made>>

\* InstanceRegistration takes the lock, and the server remembers it once the
\* listener exists.  If the listener cannot be made, the lock stays behind.
StartBinds ==
  /\ step = "attached"
  /\ \/ \E r \in Registrations :
          /\ state[r] = "free"
          /\ names' = [names EXCEPT ![r] = [by |-> starter, of |-> db]]
          /\ \/ /\ state' = [state EXCEPT ![r] = "locked"]
                /\ step' = "bound" /\ made' = r
             \/ /\ state' = [state EXCEPT ![r] = "leaked"]
                /\ step' = "failing" /\ UNCHANGED made
     \/ step' = "failing" /\ UNCHANGED <<made, regVars>>
  /\ UNCHANGED <<kernelVars, pluginVars, starter>>

\* The record is published and the session keeps the server, or the thread
\* does not start or the record cannot be written.
StartPublishes ==
  /\ step = "bound"
  /\ \/ /\ state' = [state EXCEPT ![made] = "published"]
        /\ server' = [server EXCEPT ![starter] = made]
        /\ starter' = None /\ step' = "none" /\ made' = None
     \/ step' = "failing" /\ UNCHANGED <<state, server, starter, made>>
  /\ UNCHANGED <<kernelVars, ready, external, attached, pending, queue, names>>

\* variant: a failed start gives the lock up first.
ReleasesFirst ==
  /\ step = "failing"
  /\ state' = Released(made)
  /\ step' = "detached" /\ made' = None
  /\ UNCHANGED <<kernelVars, pluginVars, names, starter>>

\* A failed start detaches the Database ...
StartDetaches ==
  /\ step = "failing"
  /\ attached' = attached \ {starter}
  /\ step' = "detached"
  /\ UNCHANGED <<kernelVars, ready, external, server, pending, queue, regVars, starter, made>>

\* ... and then releases the registration the server knows of.
StartReleases ==
  /\ step = "detached"
  /\ state' = Released(made)
  /\ starter' = None /\ step' = "none" /\ made' = None
  /\ UNCHANGED <<kernelVars, pluginVars, names>>

-----------------------------------------------------------------------------
KernelSteps ==
  \/ \E d \in Databases : OpensDatabase(d)
  \/ Dispatches
  \/ \E how \in {"closing", "exiting"} : BeginsClosing(how)
  \/ ClosesDatabase
  \/ Exits
StartContinues ==
  StartAttaches \/ StartBinds \/ StartPublishes \/ StartDetaches \/ StartReleases

Next ==
  \/ KernelSteps
  \/ \E p \in Providers : Initialises(p) \/ Terminates(p) \/ StartLooks(p)
  \/ \E r \in Registrations : ReleasesWhenIdle(r)
  \/ StartContinues

Spec == Init /\ [][Next]_vars

\* The main thread ends what it has begun: a start, the loading of plugins,
\* and a close with the unloading it begins with.  A queued UI request runs
\* if dispatch resumes again and again, however short each time.
Fairness ==
  /\ WF_vars(StartContinues) /\ WF_vars(Dispatches)
  /\ WF_vars(kernel \in {"closing", "exiting"} /\ \E p \in Providers : Terminates(p))
  /\ WF_vars(ClosesDatabase) /\ WF_vars(Exits)
  /\ \A r \in Registrations : SF_vars(ReleasesWhenIdle(r))

FairSpec == Spec /\ Fairness

-----------------------------------------------------------------------------
TypeOK ==
  /\ kernel \in KernelStates /\ db \in Databases \cup {None}
  /\ ready \subseteq Providers /\ external \subseteq ready
  /\ server \in [Providers -> Registrations \cup {None}]
  /\ attached \subseteq Providers
  /\ pending \in [Providers -> Registrations \cup {None}]
  /\ queue \subseteq Registrations
  /\ state \in [Registrations -> RegStates]
  /\ names \in [Registrations -> [by : Providers, of : Databases] \cup {NoName}]
  /\ starter \in Providers \cup {None} /\ step \in StepStates
  /\ made \in Registrations \cup {None}

\* A database has at most one live record, although several providers are
\* loaded in one IDA and one is reloaded before its last release has run.
OneRegistration ==
  \A q, r \in Registrations : Live(q) /\ Live(r) /\ names[q].of = names[r].of => q = r

\* A lock is given up only when the Database of its session has detached, and
\* not while IDA is closing its database or exiting: an unload that belongs to
\* a close leaves the lock held until the close is over.  A provider that is
\* unloaded at idle does give its lock up with the database still open.
LocksOutliveDatabases ==
  [][\A r \in Registrations : Held(r) /\ ~Held(r)' =>
       /\ names[r].by \notin attached'
       /\ kernel \in {"closing", "exiting"} => kernel' = "gone"]_vars

\* A provider backs off from another one, never from its own registration
\* that a reload has overtaken.
ReloadNeverBacksOff ==
  [][\A p \in Providers, r \in Registrations :
       p \in external' \ external /\ Live(r) /\ names[r].of = db => names[r].by # p]_vars

RegistrationIsKept == LocksOutliveDatabases /\ ReloadNeverBacksOff

\* A lock without a record, which only a failed start leaves, is nobody's; any
\* other one is given up in the end unless a loaded provider serves under it.
UnloadReleases ==
  \A r \in Registrations :
    state[r] \in {"locked", "published"} ~>
      state[r] = "released" \/ \E p \in ready : server[p] = r
=============================================================================
