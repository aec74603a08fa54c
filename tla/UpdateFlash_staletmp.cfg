SPECIFICATION Spec
CONSTANTS
    Partitions <- AllParts
    Files <- AllFiles
    BaseName <- Names
    FileType <- FileTypes
    PartType <- PartTypes
    Capacity = 2
    Units <- AllUnits
    Contents <- TwoContents
    CommandLines <- TmpLines
    InitialMounts <- NoMounts
    RootPart = "rootfs"
    RootArgLast = FALSE
    WritersKilled = FALSE
    MaxRuns = 2
    MaxFaults = 0
    MaxCrashes = 1
    MaxReplace = 0
INVARIANT TmpCopyIsChecked
