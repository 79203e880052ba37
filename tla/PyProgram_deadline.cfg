SPECIFICATION FairSpec
CONSTANTS
    Token = {"a", "b", "eps"}
    Eps = "eps"
    Args <- MCTimed
    Utterance <- MCSpelled
    MaxResponses = 2
PROPERTIES
    DeadlineEnds
