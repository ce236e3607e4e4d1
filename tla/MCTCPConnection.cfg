CONSTANTS
    Sizes = {0, 2}
    MaxServerSend = 2
    MaxClientSend = 1
SPECIFICATION Spec
INVARIANTS
    TypeOK
    OneWriteAtATime
    NoStrandedPacket
PROPERTIES
    ImplementsFifoLink
CHECK_DEADLOCK FALSE
