CONSTANTS
    StopEvent = StopEvent
    MaxSessions = 2
    MaxSends = 1
    MaxServerSends = 1
    Attempts = 2
SPECIFICATION Spec
INVARIANT
    RestartedBeforeRun
CHECK_DEADLOCK FALSE
