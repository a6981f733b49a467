CONSTANTS
    PacketIdMax = 2
    RepubNumMax = 2
    ProbeMax = 1
    IntervalMin = 1
    IntervalMax = 3
    MaxAcks = 1
    MaxNest = 2
SPECIFICATION FairSpec
INVARIANTS
    TypeOK
    ProbesCountSilence
PROPERTIES
    GoneMeansDelivered
    WaitsGrow
    DeadLinkReported
    RepeatedUntilAcked
