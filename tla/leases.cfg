\* The lease server of a managed worker: safety, progress and refinement.
SPECIFICATION FairSpec
CONSTANTS
    Handlers = {1, 2, 3}
    Leases = {1, 2}
    NoLease = NoLease
    NoHandler = NoHandler
    NoTimer = NoTimer
    Keepalives = {0, 1}
    IdleTimeouts = {1, NoTimer}
    LeaseGrace = 1
    Managed = TRUE
    ReuseLeaseIds = FALSE
    StopServingLatched = TRUE
CHECK_DEADLOCK FALSE
INVARIANTS
    TypeOK
    AccountsAreExact
    RequestsSuspendExpiry
    DrainsCutNobodyOff
PROPERTIES
    ImplementsService
    StopsInTheEnd
ACTION_CONSTRAINT
    Bounded
