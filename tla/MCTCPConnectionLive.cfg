CONSTANTS
    Sizes = {0, 1}
    MaxServerSend = 0
    MaxClientSend = 2
SPECIFICATION FairSpec
PROPERTIES
    SentIsDelivered
CHECK_DEADLOCK FALSE
