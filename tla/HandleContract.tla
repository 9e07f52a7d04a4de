---------------------------- MODULE HandleContract ----------------------------
(***************************************************************************)
(* What ida_nexus/handle.py promises the owner of one DatabaseHandle:      *)
(* opening yields a handle or an exception, a handle is connected until it *)
(* is closed or its instance is lost, and an owner that registered a       *)
(* disconnect callback hears of the loss: once or twice, never not at all. *)
(***************************************************************************)
EXTENDS Naturals

VARIABLES phase, registered, told

vars == <<phase, registered, told>>

Init == phase = "opening" /\ registered = FALSE /\ told = 0

\* open() returns or raises.
Opens == /\ phase = "opening"
         /\ phase' \in {"live", "failed"}
         /\ UNCHANGED <<registered, told>>

Closes == phase = "live" /\ phase' = "closed" /\ UNCHANGED <<registered, told>>

\* The monitor may have passed its test of _closed before the owner closed.
Loses == /\ phase \in {"live", "closed"}
         /\ phase' = "lost"
         /\ UNCHANGED <<registered, told>>

Registers == /\ phase \in {"live", "closed", "lost"}
             /\ registered' = TRUE
             /\ UNCHANGED <<phase, told>>

\* From the monitor thread, and from set_disconnect_callback itself when the
\* handle is lost by then: both may run, so the owner may hear twice.
Tells == /\ phase = "lost" /\ registered
         /\ told < 2
         /\ told' = told + 1
         /\ UNCHANGED <<phase, registered>>

Next == Opens \/ Closes \/ Loses \/ Registers \/ Tells

Spec == Init /\ [][Next]_vars

\* The owner of a lost handle hears of it.
Fairness == WF_vars(told = 0 /\ Tells)
FairSpec == Spec /\ Fairness
=============================================================================
