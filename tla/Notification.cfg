SPECIFICATION Spec
CONSTANTS
    Sessions = {s1, s2}
    Groups = {g1}
    GroupOf <- MCGroupOf
    Conns = {k1, k2}
    NoConn = none
    NoSession = nosession
    Timeout = 2
    MayStop = TRUE
SYMMETRY Symm
INVARIANTS
    TypeOK
    RequestHeldOnce
    NotificationWakesRequest
    LogoffWakesRequest
    AnsweredInTime
PROPERTIES
    StepsKeepPromise
