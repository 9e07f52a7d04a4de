--------------------------- MODULE MCNexusLeases ---------------------------
(* Small instances of NexusLeases for TLC. *)
EXTENDS NexusLeasesService

\* Idle threads are interchangeable, and so are lease identifiers never used:
\* each is taken in the order of its number.
InOrder ==
    /\ \A h \in Handlers :
         pc[h] = "idle" /\ pc'[h] # "idle" =>
             \A g \in Handlers : g < h => pc[g] # "idle"
    /\ \A l \in retired' \ retired, m \in Leases : m < l => m \in retired

AllBusy == \A h \in Handlers : pc[h] # "idle"

\* No lease has both a keepalive and an idle timeout, and none has either
\* while three threads are busy or the analysis runs.
Plain(obj) == obj.keepalive = 0 /\ obj.idleTimeout = NoTimer
FewOptions ==
    \A h \in Handlers :
        \/ Plain(lease'[h])
        \/ /\ lease'[h].keepalive = 0 \/ lease'[h].idleTimeout = NoTimer
           /\ ~AllBusy' /\ analysis' = "none"

\* The third thread gets busy while the main thread serves and no analysis runs.
FewThreads == ~AllBusy /\ AllBusy' => host = "serving" /\ analysis = "none"

\* The bounds on the steps of clients, which owe nothing.
Bounded == InOrder /\ FewOptions /\ FewThreads
=============================================================================
