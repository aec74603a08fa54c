SPECIFICATION Spec
CONSTANTS
    t1 = t1
    t2 = t2
    t3 = t3
    Pin = 1
    Threads <- One
    Calls <- AllCalls
    IrqTypes <- Edges
    PollFor <- Reading
    Disciplined = FALSE
    MaxFaults = 0
INVARIANTS
    QueueIsInitialised
