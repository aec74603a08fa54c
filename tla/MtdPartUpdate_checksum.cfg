SPECIFICATION Spec
CONSTANTS
    NBlocks = 2
    PagesPerBlock = 1
    PageSize = 2
    NodeSize = 0
    IsNAND = TRUE
    OobAtomic = FALSE
    MaxRetries = 2
    Data = {"a", "b"}
    Images <- SmallImages
    Options <- ChecksumOptions
    InitialBad <- NoneBad
    WornBlocks <- NoneBad
    MaxRuns = 1
    MaxFaults = 0
    MaxCrashes = 0
    MaxReplace = 1
INVARIANT ChecksumHonoured
