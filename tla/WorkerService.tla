--------------------------- MODULE WorkerService ---------------------------
(***************************************************************************)
(* What a Nexus server promises its clients, whatever its threads do.      *)
(* Clients attach while it serves.  It commits to stop only when nobody is *)
(* attached, when the one attached client asks for it, or when its process *)
(* is told to (a signal).  From then on nobody attaches, and the IDB is    *)
(* closed in the end, once.                                                *)
(***************************************************************************)
CONSTANTS Clients, MayStopItself

VARIABLES phase,    \* "serving", "committed" or "closed"
          clients,  \* who is attached
          told      \* whether the process was told to stop

vars == <<phase, clients, told>>

Init == phase = "serving" /\ clients = {} /\ told = FALSE

Attach(c) ==
    /\ phase = "serving"
    /\ c \notin clients
    /\ clients' = clients \union {c}
    /\ UNCHANGED <<phase, told>>

Detach(c) ==
    /\ c \in clients
    /\ clients' = clients \ {c}
    /\ UNCHANGED <<phase, told>>

\* The last client leaves and takes the worker with it.
DetachAndCommit(c) ==
    /\ MayStopItself
    /\ phase = "serving"
    /\ clients = {c}
    /\ clients' = {}
    /\ phase' = "committed"
    /\ UNCHANGED told

MayCommit ==
    \/ MayStopItself /\ (clients = {} \/ \E c \in Clients : clients = {c})
    \/ told

Commit ==
    /\ phase = "serving"
    /\ MayCommit
    /\ phase' = "committed"
    /\ UNCHANGED <<clients, told>>

Close ==
    /\ phase = "committed"
    /\ phase' = "closed"
    /\ UNCHANGED <<clients, told>>

\* The service could not be published.
Abort ==
    /\ phase = "serving"
    /\ clients = {}
    /\ phase' = "closed"
    /\ UNCHANGED <<clients, told>>

Tell ==
    /\ told' = TRUE
    /\ UNCHANGED <<phase, clients>>

Next ==
    \/ \E c \in Clients : Attach(c) \/ Detach(c) \/ DetachAndCommit(c)
    \/ Commit
    \/ Close
    \/ Abort
    \/ Tell

Spec == Init /\ [][Next]_vars

\* What was committed is carried out, and a process that is told to stop does.
ClosesInTheEnd == WF_vars(Close)
ObeysSignals   == WF_vars(told /\ Commit)
Fairness == ClosesInTheEnd /\ ObeysSignals
FairSpec == Spec /\ Fairness
=============================================================================
