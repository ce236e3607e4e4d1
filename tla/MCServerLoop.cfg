CONSTANTS
    StopEvent = StopEvent
    MaxClients = 3
    MaxPosts = 3
SPECIFICATION FairSpec
INVARIANTS
    TypeOK
    OneOfEach
    NeverStops
PROPERTIES
    EveryoneIsServed
CHECK_DEADLOCK FALSE
