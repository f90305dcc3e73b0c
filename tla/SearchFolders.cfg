SPECIFICATION Spec
CONSTANTS
    Clients = {c1}
    Writers = {w1}
    Msgs = {m1}
    Contents <- MCContents
    Folders = {1, 2}
    Criteria = {q1, q2}
    Narrow = q1
    Scope <- MCScope
    Objs = {o1}
    None = none
    BatchSize = 2
    RowBatch = 1
    Attempts = 1
    MaxQueue = 2
    MaxChanges = 2
INVARIANTS
    TypeOK
    
    
    
    SearchIsOwned
