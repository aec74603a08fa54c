SPECIFICATION FairSpec
CONSTANTS
    t1 = t1
    t2 = t2
    t3 = t3
    Pin = 1
    Threads <- Three
    Calls <- Pins
    IrqTypes <- AllTypes
    PollFor <- Reading
    Disciplined = TRUE
    MaxFaults = 2
INVARIANTS
    TypeOK
    KernelIntact
    IrqAssigned
    NoInterruptLost
PROPERTIES
    InterruptReachesReader
