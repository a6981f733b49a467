CONSTANTS
    DefaultBufferNum = 1
    MaxBufferNum = 4
    MaxInputs = 6
    Filtered = {2, 5}
SPECIFICATION FairSpec
INVARIANTS
    TypeOK
    OccupiedInterval
    FaultsOnlyOutsideService
    HandlerOwnsItsSlot
    EachMessageOnce
    OvertakesByGrowthOnly
    UnterminatedByGrowthOnly
PROPERTIES
    NoLossInService
    EventuallyDelivered
    ImplementsStore
