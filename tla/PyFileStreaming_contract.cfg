SPECIFICATION FairSpec
CONSTANTS
    AudioLen = 5
    FrameSize = 2
    MaxResponses = 2
    Window = 1
    SingleUtterance = TRUE
    HasDeadline = TRUE
INVARIANTS
    TypeOK
    ConfigFirst
    AudioInOrder
    NoGap
    WholeFile
    CloseTakesEffect
    ResultsComplete
PROPERTIES
    ImplementsSession
    Termination
    StopEndsSending
