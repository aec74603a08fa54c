SPECIFICATION Spec
CONSTANTS
    Partitions <- AllParts
    Files <- AllFiles
    BaseName <- Names
    FileType <- FileTypes
    PartType <- PartTypes
    Capacity = 2
    Units <- AllUnits
    Contents <- ThreeContents
    CommandLines <- AllLines
    InitialMounts <- SomeMounts
    RootPart = "rootfs"
    RootArgLast = FALSE
    WritersKilled = TRUE
    MaxRuns = 1
    MaxFaults = 1
    MaxCrashes = 0
    MaxReplace = 1
INVARIANTS
    TypeOK
    SuccessMeansAllFlashed
PROPERTIES
    NotMountedWhileWritten
    WrongChecksumTouchesNothing
