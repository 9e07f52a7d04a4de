SPECIFICATION FairSpec
CONSTANTS
    Resolvers = {r1, r2}
    Edits = {e1}
    Absent = Absent
    Other = Other
    Nobody = Nobody
CHECK_DEADLOCK FALSE
INVARIANTS
    TypeOK
    WorkPreserved
    AloneInLaunch
PROPERTIES
    DiscardsLoseNothing
    EveryResolverEnds
