SPECIFICATION Spec
CONSTANTS
    Requests = {r1, r2}
    Cancellers = {}
    Leases = {l1, l2}
    NoLease = NoLease
    OperationIds = {o1}
    NoOperation = NoOperation
    Nobody = Nobody
    Slices = {}
    Gui = FALSE
CHECK_DEADLOCK FALSE
INVARIANTS
    ReleaseSparesPeers
