SPECIFICATION Spec
CONSTANTS
    NBlocks = 3
    PagesPerBlock = 2
    PageSize = 2
    NodeSize = 0
    IsNAND = TRUE
    OobAtomic = FALSE
    MaxRetries = 2
    Data = {"a", "b"}
    Images <- NandImages
    Options <- UpdateOptions
    InitialBad <- AtMostOneBad
    WornBlocks <- NoneBad
    MaxRuns = 2
    MaxFaults = 2
    MaxCrashes = 1
    MaxReplace = 1
INVARIANTS
    TypeOK
    VerifiedMeansFlashed
    SuccessMeansFlashed
PROPERTIES
    ErasedBeforeProgrammed
    OnlyNeededBlocksChange
