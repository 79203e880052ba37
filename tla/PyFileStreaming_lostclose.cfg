SPECIFICATION Spec
CONSTANTS
    AudioLen = 5
    FrameSize = 2
    MaxResponses = 2
    Window = 1
    SingleUtterance = TRUE
    HasDeadline = FALSE
INVARIANTS
    ClosedStaysClosed
