SPECIFICATION FairSpec
CONSTANTS
    Token = {"a", "b", "eps"}
    Eps = "eps"
    Args <- MCArgs
    Utterance <- MCUtterance
    MaxResponses = 2
INVARIANTS
    TypeOK
    OnlyLegalAudio
    PrintedAsGiven
    TimesBesideTheirWords
PROPERTIES
    Exits
