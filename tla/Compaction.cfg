SPECIFICATION Spec
CONSTANTS
    Commands = {c1}
    Writers = {w1}
    Root = root
    None = none
    MaxHead = 2
    MaxPrompts = 2
    MaxRevs = 1
    MaxReplans = 0
    MaxFailures = 1
    MaxOutcomes = 1
    MaxFaults = 1
    MaxStops = 1
    MaxCrashes = 1
    MaxTroubles = 1
    Takeovers = TRUE
    LockHeld = TRUE
    SlowQuery = FALSE
CHECK_DEADLOCK FALSE
INVARIANTS
    SourceInv
    AdoptionInv
