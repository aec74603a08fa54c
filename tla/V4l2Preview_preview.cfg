SPECIFICATION FairSpec
CONSTANTS
    Rotations <- Half
    MaxSignals = 2
    MaxFaults = 2
INVARIANTS
    TypeOK
    PreviewComesBack
    NoStaleDescriptor
PROPERTIES
    StopEnds
