SPECIFICATION FairSpec
CONSTANTS
    Blocks = {b1, b2}
    bbMaxRetries = 3
    MaxErrors = 5
INVARIANT TypeOK
PROPERTIES
    MarkedAfterRetries
    WrittenIsThere
    EveryCallReturns
