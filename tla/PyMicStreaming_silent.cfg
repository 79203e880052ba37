SPECIFICATION SilentSpec
CONSTANTS
    MaxChunks = 2
    MaxResponses = 2
    Window = 1
    SingleUtterance = TRUE
    HasDeadline = FALSE
PROPERTIES
    StopHalfCloses
