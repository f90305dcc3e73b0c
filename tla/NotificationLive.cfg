SPECIFICATION FairSpec
CONSTANTS
    Sessions = {s1, s2}
    Groups = {g1}
    GroupOf <- MCGroupOf
    Conns = {k1}
    NoConn = none
    NoSession = nosession
    Timeout = 1
    MayStop = FALSE
PROPERTIES
    KeepsPromise
