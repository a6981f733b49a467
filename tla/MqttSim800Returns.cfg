CONSTANTS
    NConf = 1
    NIp = 2
    MaxRetry = 2
    PollMode = 2
    MaxDepth = 5
    MaxLine = 0
SPECIFICATION FairSpec
PROPERTIES
    ConnectReturns
CHECK_DEADLOCK FALSE
