SPECIFICATION FairSpec
CONSTANTS
    t1 = t1
    t2 = t2
    t3 = t3
    Pin = 1
    Threads <- Two
    Calls <- Reconfiguring
    IrqTypes <- Edges
    PollFor <- Reading
    Disciplined = FALSE
    MaxFaults = 0
PROPERTIES
    InterruptReachesReader
