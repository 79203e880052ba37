SPECIFICATION FairSpec
CONSTANTS
    NumFrames = 3
    MaxResponses = 2
    Window = 1
    SingleUtterance = TRUE
    HasDeadline = TRUE
INVARIANTS
    TypeOK
    RequestsInOrder
    LateWritesBounded
    ResponsesKept
    HalfClosedAtEnd
    WholeAudio
    AbortOnlyAtEnd
PROPERTIES
    ImplementsSession
    Termination
    StopHalfCloses
