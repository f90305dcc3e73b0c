SPECIFICATION FairSpec
CONSTANTS
    Workers = {w1, w2}
    Cancellers = {w1}
    Cleaner = cleaner
    MainThread = main
    Sids = {s1, s2}
    Gids = {g1}
    NoGid = nogid
    None = null
INVARIANTS
    TypeOK
    LockedSessionExists
    DeletedOnce
    SessionKeepsGroup
    ListedGroupHasOwner
PROPERTIES
    RemovedSessionGoes
