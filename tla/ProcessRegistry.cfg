SPECIFICATION FairSpec
CONSTANTS
    Calls = {p1}
    MaxLive = 1
    Watched = {p1}
    Faults = {"SPAWN", "THREADS", "JOIN", "RELEASE"}
CHECK_DEADLOCK FALSE
INVARIANTS TableInv ReportInv
PROPERTIES RegistryProgress
