SPECIFICATION Spec
CONSTANTS
    Partitions <- Pair
    Files <- PairFiles
    BaseName <- Names
    FileType <- FileTypes
    PartType <- PartTypes
    Capacity = 2
    Units <- AllUnits
    Contents <- ThreeContents
    CommandLines <- PairLines
    InitialMounts <- NoMounts
    RootPart = "rootfs"
    RootArgLast = FALSE
    WritersKilled = FALSE
    MaxRuns = 2
    MaxFaults = 1
    MaxCrashes = 1
    MaxReplace = 0
PROPERTY AbstractSpec
