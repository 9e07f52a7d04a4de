------------------------- MODULE NexusLeasesService -------------------------
(* NexusLeases implements WorkerService. *)
EXTENDS NexusLeases

\* Admission ends with the first of _draining and _shutdown_requested, and the
\* service is closed once the host has closed the IDB.
ServicePhase ==
    IF host \in {"closed", "released"} THEN "closed"
    ELSE IF Admits THEN "serving" ELSE "committed"

Service == INSTANCE WorkerService WITH
    Clients <- Leases, MayStopItself <- Managed,
    phase <- ServicePhase, clients <- Installed, told <- stopSignal

\* Clients are cut off only by a signal or by their own exclusive shutdown: each
\* step of the server is a step of the abstract service or leaves it alone.
ImplementsService == Service!Spec

\* And what the abstract service promises, to close the IDB once it is committed
\* to and to commit when the process is told to stop, is kept by the threads of
\* the server, except that after a signal a close may wait for a slice of the
\* analysis that only the waiting main thread could execute: but for a process a
\* signal has stranded, the server implements Service!FairSpec.
KeepsCommitments ==
    Service!ObeysSignals /\ (Service!ClosesInTheEnd \/ <>[]StrandedBySignal)

\* A server ends when nobody needs it and when it said or was told that it would,
\* and nothing but a signal can keep it from that.
StopsInTheEnd == AbandonmentEnds /\ KeepsCommitments
=============================================================================
