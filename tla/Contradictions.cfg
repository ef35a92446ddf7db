SPECIFICATION Spec
CONSTANTS
    Docs = {1, 2, 3}
    MaxText = 2
    Score <- MCScore
    TopK = 1
    MinSimilarity = 1
    MaxPairs = 2
    MaxFailures = 2
    Poison <- MCPoison
    Judges = {TRUE, FALSE}
    Faults = {"lookup", "judge", "read", "cancel", "abort", "remove", "delete"}
    MaxFaults = 1
    MaxEdits = 3
INVARIANTS TypeOK AnalysedIsCovered NoStrandedRow
PROPERTIES JudgedOnce EverythingIsCovered
CHECK_DEADLOCK FALSE
