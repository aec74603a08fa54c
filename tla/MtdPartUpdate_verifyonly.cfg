SPECIFICATION Spec
CONSTANTS
    NBlocks = 2
    PagesPerBlock = 1
    PageSize = 2
    NodeSize = 0
    IsNAND = TRUE
    OobAtomic = FALSE
    MaxRetries = 2
    Data = {"a", "b"}
    Images <- SmallImages
    Options <- VerifyOnlyOptions
    InitialBad <- NoneBad
    WornBlocks <- NoneBad
    MaxRuns = 1
    MaxFaults = 2
    MaxCrashes = 0
    MaxReplace = 0
PROPERTY VerifyOnlyChangesNothing
