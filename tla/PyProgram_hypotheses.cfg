SPECIFICATION Spec
CONSTANTS
    Token = {"a", "b", "eps"}
    Eps = "eps"
    Args <- MCArgs
    Utterance <- MCSpelled
    MaxResponses = 2
INVARIANTS
    AllHypothesesPrinted
