SPECIFICATION FairSpec
CONSTANTS
    PrioWorker = prio
    NoConn = none
    Conns = {c1}
    PipeConns = {}
    PrioConns = {}
    Workers = {w1, w2}
    Notifiers = {}
    InitialThreads = 1
    ThreadSettings = {}
    Builds = {TRUE}
INVARIANTS
    PoolShrinksBack
PROPERTIES
    RequestHandled
    ShutdownCompletes
