SPECIFICATION Spec
CONSTANTS
    Docs = {1, 2, 3}
    MaxText = 2
    Score <- MCScore
    TopK = 2
    MinSimilarity = 1
    MaxPairs = 3
    MaxFailures = 2
    Poison = {}
    Judges = {TRUE}
    Faults = {"cancel"}
    MaxFaults = 1
    MaxEdits = 2
INVARIANTS CancelledLosesNothing
CHECK_DEADLOCK FALSE
