SPECIFICATION Spec
CONSTANTS
    NumFrames = 3
    MaxResponses = 2
    Window = 1
    SingleUtterance = TRUE
    HasDeadline = FALSE
INVARIANTS
    SurvivesHalfClose
