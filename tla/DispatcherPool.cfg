SPECIFICATION Spec
CONSTANTS
    PrioWorker = prio
    NoConn = none
    Conns = {c1, c2}
    PipeConns = {}
    PrioConns = {}
    Workers = {w1, w2}
    Notifiers = {}
    InitialThreads = 1
    ThreadSettings = {1, 2}
    Builds = {TRUE}
SYMMETRY Symm
INVARIANTS
    RequestsAreTaken
