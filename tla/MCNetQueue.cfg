CONSTANTS
    Producers = {asio, other}
    Consumer = main
    NoThread = none
    MaxItems = 4
SPECIFICATION FairSpec
INVARIANTS
    TypeOK
    PopsNonEmpty
    NoLockCycle
PROPERTIES
    PushCompletes
    NextPushRescues
    ImplementsMailbox
CHECK_DEADLOCK FALSE
