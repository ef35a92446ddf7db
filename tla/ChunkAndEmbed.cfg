SPECIFICATION Spec
CONSTANTS
    Corpora <- MCCorpora
    Configs <- MCConfigs
    MinMerge = 3
    Sep = 2
    MaxPath = 5
    HeadingText = 2
    Width = 2
    CrumbBytes <- MCCrumbBytes
    MaxBlank = 1
    BatchSize = 2
    Concurrency = 2
    ServerFaults = {"error", "short"}
INVARIANTS
    NothingIsLost ChunksAreAttributed SizesAreBounded EveryChunkItsVector
