SPECIFICATION Spec
CONSTANTS
    Partitions <- AllParts
    Files <- AllFiles
    BaseName <- Names
    FileType <- FileTypes
    PartType <- PartTypes
    Capacity = 2
    Units <- AllUnits
    Contents <- SameSize
    CommandLines <- CollisionLines
    InitialMounts <- NoMounts
    RootPart = "rootfs"
    RootArgLast = FALSE
    WritersKilled = FALSE
    MaxRuns = 1
    MaxFaults = 0
    MaxCrashes = 0
    MaxReplace = 0
INVARIANT ChecksumHonoured
