CONSTANTS
    h1 = h1
    h2 = h2
    h3 = h3
    nil = nil
    t1 = t1
    t2 = t2
    any = any
    Handle <- MCHandle
    NULL = nil
    Topic <- MCTopic
    Wildcard = any
    PacketIdMax = 1
    Word = 6
SPECIFICATION FairSpec
INVARIANTS
    TypeOK
    NoDanglingPointer
PROPERTIES
    CallsEachOnce
    WalkEnds
CHECK_DEADLOCK FALSE
