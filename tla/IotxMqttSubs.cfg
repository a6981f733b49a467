CONSTANTS
    t1 = t1
    any = any
    f = f
    g = g
    nil = nil
    Topic <- MCTopic
    Wildcard = any
    Handle <- MCHandle
    NULL = nil
    MaxRequests = 3
    MaxCalls = 2
SPECIFICATION Spec
INVARIANTS
    TypeOK
    WaitsMatchCalls
PROPERTIES
    SyncTellsTruth
    CallsAllThatStayed
CHECK_DEADLOCK FALSE
