SPECIFICATION Spec
CONSTANTS
    Requests = {r1, r2}
    Cancellers = {c1}
    Leases = {l1}
    NoLease = NoLease
    OperationIds = {o1}
    NoOperation = NoOperation
    Nobody = Nobody
    Slices = {}
    Gui = TRUE
CHECK_DEADLOCK FALSE
SYMMETRY Symmetry
INVARIANTS
    TypeOK
    TablesAreExact
    CancelledWhileQueuedNeverRuns
    InterruptsItsOwn
