\* An owner, two scanners and the sweep, as processes that may die.
SPECIFICATION FairSpec
CONSTANTS
    Records = {r1}
    Scanners = {s1, s2}
    Finders = {}
    Inodes = {i1, i2, i3}
    NoInode = NoInode
    NoRecord = NoRecord
    Nobody = Nobody
CHECK_DEADLOCK FALSE
INVARIANTS
    TypeOK
    RegistryIsTrue
PROPERTIES
    ReapedOnlyWhenDead
    NothingIsLeftBehind
