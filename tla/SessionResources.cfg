SPECIFICATION ResourcesSpec
CONSTANTS
    Sessions = {s1, s2}
    Objects = {o1}
    NoSession = none
    GroupIds = {g1}
    GroupOf <- MCGroupOf
    Conns = {c1, c2}
    Keys = {1, 2}
    StoreOf <- MCStoreOf
    Interests <- MCInterests
SYMMETRY Symm
INVARIANTS
    LockHasHandle
    GrantedIsOwner
    RoutesBalanced
    NothingMissed
