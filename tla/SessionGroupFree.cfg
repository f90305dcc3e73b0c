SPECIFICATION Spec
CONSTANTS
    Workers = {w1, w2}
    Cancellers = {}
    Cleaner = cleaner
    MainThread = main
    Sids = {s1, s2}
    Gids = {g1}
    NoGid = nogid
    None = null
INVARIANTS
    NoDeletedGroupUsed
