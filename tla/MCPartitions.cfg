SPECIFICATION EitherSpec
CONSTANTS
    NBlocks = 3
    PagesPerBlock = 1
    PageSize = 3
    NodeSize = 1
    IsNAND = FALSE
    OobAtomic = FALSE
    MaxRetries = 2
    Data = {"a", "b"}
    Images <- NorImages
    Options <- NorOptions
    InitialBad <- NoneBad
    WornBlocks <- NoneBad
    MaxRuns = 2
    MaxFaults = 2
    MaxCrashes = 1
    MaxReplace = 0
INVARIANT NorFlashed
PROPERTY WornIsRetired
