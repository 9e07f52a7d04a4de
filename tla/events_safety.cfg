SPECIFICATION Spec
CONSTANTS
    Streams = {s1, s2}
    Main = Main
    Analysis = Analysis
    Nobody = Nobody
    QueueLimit = 2
    MaxRevision = 4
CHECK_DEADLOCK FALSE
SYMMETRY Symmetry
INVARIANTS
    TypeOK
    HookFollowsSubscribers
    HistoryIsComplete
