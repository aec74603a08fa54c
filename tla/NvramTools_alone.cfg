SPECIFICATION Spec
CONSTANTS
    p1 = p1
    p2 = p2
    Procs <- One
    Commands <- AllCommands
    Special <- SomeSpecial
    Names <- SomeNames
    Values <- SomeValues
    Capacity = 2
    InitialFlash <- Flashes
    Exclusive = TRUE
    MaxRuns = 3
    MaxFaults = 1
    MaxCrashes = 1
INVARIANTS
    TypeOK
    InitFromFile
PROPERTIES
    OneTimeWritable
    RefusedStoresNothing
    SectionsStay
