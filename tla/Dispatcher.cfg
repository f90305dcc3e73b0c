SPECIFICATION Spec
CONSTANTS
    PrioWorker = prio
    NoConn = none
    Conns = {c1, p1}
    PipeConns = {p1}
    PrioConns = {p1}
    Workers = {w1}
    Notifiers = {n1}
    InitialThreads = 1
    ThreadSettings = {}
    Builds = {TRUE, FALSE}
INVARIANTS
    TypeOK
    OneOwner
    NoConnectionLost
    SocketsHeard
PROPERTIES
    ShutdownIsComplete
