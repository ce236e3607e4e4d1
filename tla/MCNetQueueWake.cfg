CONSTANTS
    Producers = {asio}
    Consumer = main
    NoThread = none
    MaxItems = 2
SPECIFICATION FairSpec
PROPERTY SleepsOnlyWhenEmpty
CHECK_DEADLOCK FALSE
