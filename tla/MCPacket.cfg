CONSTANTS
    Base = 3
    Width <- MCWidth
    Numbers <- MCNumbers
    Strings <- MCStrings
    MAX_LEN = 2
    MaxWrites = 3
    MaxPackets = 2
SPECIFICATION Spec
INVARIANTS
    TypeOK
    WrittenSizeIsBodyLength
    OnlyLongStringsFail
PROPERTIES
    ImplementsValueStack
CHECK_DEADLOCK FALSE
