SPECIFICATION Spec
CONSTANTS
    Hosts = {h1, h2}
    None = None
    Commands = {c1}
    Items = {i1}
    Continuations = {k1}
    Capacity = 2
    MaxGeneration = 2
    MaxWorkflows = 1
    MaxRevision = 2
    Origins = {"SCHEDULED_TASK"}
    Batches = {"PLAN"}
SYMMETRY Symmetry
CHECK_DEADLOCK FALSE
INVARIANTS
    RunningTurnIsCurrentGeneration
    RunningPermissionMatchesPlan
    OpenInteractionIsAnswerable
    HandoffDeliveredOnce
    LiveCutIsExclusive
    QueueItemOwnsItsTurn
