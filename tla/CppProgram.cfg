SPECIFICATION Spec
CONSTANTS
    Token = {"a"}
    Word = 16384
    Options <- MCOptions
    Header <- MCHeader
INVARIANTS
    StatusTellsWhatWasDone
    RequestAsAsked
