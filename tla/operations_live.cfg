SPECIFICATION FairSpec
CONSTANTS
    Requests = {1, 2}
    Cancellers = {c1}
    Leases = {l1}
    NoLease = NoLease
    OperationIds = {o1}
    NoOperation = NoOperation
    Nobody = Nobody
    Slices = {s1}
    Gui = FALSE
CHECK_DEADLOCK FALSE
PROPERTIES
    AnalysisYields
    EverythingEnds
ACTION_CONSTRAINT
    InOrder
