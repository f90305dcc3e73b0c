SPECIFICATION FairSpec
CONSTANTS
    Sessions = {s1}
    Groups = {g1}
    GroupOf <- MCGroupOf
    Conns = {k1}
    NoConn = none
    NoSession = nosession
    Timeout = 1
    MayStop = TRUE
PROPERTIES
    ManagerIsDeleted
