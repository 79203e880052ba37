SPECIFICATION FairSpec
CONSTANTS
    MaxChunks = 2
    MaxResponses = 2
    Window = 1
    SingleUtterance = TRUE
    HasDeadline = TRUE
INVARIANTS
    TypeOK
    ChunksInOrder
    NoChunkLost
    CloseTakesEffect
PROPERTIES
    ImplementsSession
    Termination
    StopReturns
    Freed
