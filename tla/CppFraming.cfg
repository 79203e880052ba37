SPECIFICATION FairSpec
CONSTANTS
    Word <- MCWord
    Inputs <- MCInputs
    MaxEmpty = 3
INVARIANTS
    Contiguous
    Complete
    WholeSamples
PROPERTIES
    Ends
