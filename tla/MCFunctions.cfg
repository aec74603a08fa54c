SPECIFICATION AnySpec
CONSTANTS
    EnvLen = 13
    VarStrings <- SomeStrings
    MaxWords = 3
INVARIANTS
    TypeOK
    LibdigiAsPromised
PROPERTIES
    StaysInBuffer
    StoreSpec
