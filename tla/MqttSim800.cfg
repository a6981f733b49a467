CONSTANTS
    NConf = 1
    NIp = 2
    MaxRetry = 2
    PollMode = 2
    MaxDepth = 5
    MaxLine = 1
SPECIFICATION FairSpec
INVARIANTS
    TypeOK
PROPERTIES
    ConnectTells
    UnwindsOnceConnected
CHECK_DEADLOCK FALSE
