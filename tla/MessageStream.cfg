SPECIFICATION FairSpec
CONSTANTS
    Cap = 3
    Items = 3
    ItemSize = 2
    MaxSend = 8
    MaxChunk = 2
    MaxStreams = 2
INVARIANTS
    TypeOK
    TaskIsAlone
    CommittedIsComplete
    StreamsNotMixed
PROPERTIES
    RequestEnds
