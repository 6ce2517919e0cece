SPECIFICATION FairSpec
CONSTANTS
    Commands = {c1}
    Writers = {}
    Root = root
    None = none
    MaxHead = 2
    MaxPrompts = 2
    MaxRevs = 1
    MaxReplans = 1
    MaxFailures = 1
    MaxOutcomes = 1
    MaxFaults = 1
    MaxStops = 1
    MaxCrashes = 0
    MaxTroubles = 2
    Takeovers = FALSE
    LockHeld = FALSE
    SlowQuery = TRUE
CHECK_DEADLOCK FALSE
INVARIANTS
    OwnershipInv
PROPERTIES
    CompactionProgress
