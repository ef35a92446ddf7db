SPECIFICATION Spec
CONSTANTS
    Docs = {1, 2, 3}
    MaxText = 2
    Score <- MCScore
    TopK = 2
    MinSimilarity = 1
    MaxPairs = 3
    MaxFailures = 2
    Poison <- MCMorePoison
    Judges = {TRUE}
    Faults = {}
    MaxFaults = 0
    MaxEdits = 1
PROPERTIES CarryOverIsReached
CHECK_DEADLOCK FALSE
