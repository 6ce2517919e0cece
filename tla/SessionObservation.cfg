SPECIFICATION FairSpec
CONSTANTS
    MaxLog = 2
    LargeEvents = {2}
    MaxBatch = 1
    MaxOffers = 3
    MaxTotal = 4
    MaxRing = 1
    MaxControl = 1
    MaxControlRing = 1
    MaxWork = 1
    Interactions = {i1}
    MaxFailures = 1
CHECK_DEADLOCK FALSE
INVARIANTS PageInv StaleWorkIsNoticed
PROPERTIES PageCatchesUp
