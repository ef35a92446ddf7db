SPECIFICATION Spec
CONSTANTS
    Corpora <- BlankLines
    Configs <- PlainConfigs
    MinMerge = 3
    Sep = 2
    MaxPath = 5
    HeadingText = 2
    Width = 1
    CrumbBytes <- OneByte
    MaxBlank = 1
    BatchSize = 2
    Concurrency = 2
    ServerFaults = {"error", "short"}
INVARIANT
    WholeSectionsFit
