CONSTANTS
    StopEvent = StopEvent
    MaxSessions = 2
    MaxSends = 1
    MaxServerSends = 2
    Attempts = 2
SPECIFICATION FairSpec
INVARIANTS
    TypeOK
    HandlersFindTheirConnection
    OpenIsServed
    TakenInOrder
PROPERTIES
    SentIsTaken
    JoinReturns
CHECK_DEADLOCK FALSE
