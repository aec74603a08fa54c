SPECIFICATION Spec
CONSTANTS
    p1 = p1
    p2 = p2
    Procs <- Two
    Commands <- ProdCommands
    Special <- SomeSpecial
    Names <- SomeNames
    Values <- SomeValues
    Capacity = 2
    InitialFlash <- EmptyProd
    Exclusive = FALSE
    MaxRuns = 2
    MaxFaults = 0
    MaxCrashes = 0
PROPERTY OneTimeWritable
