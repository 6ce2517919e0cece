SPECIFICATION FairSpec
CONSTANTS
    Hosts = {h1}
    None = None
    Commands = {c1}
    Items = {i1, i2}
    Continuations = {}
    Capacity = 2
    MaxGeneration = 1
    MaxWorkflows = 0
    MaxRevision = 2
    Origins = {"HUMAN", "CELL_OUTPUT"}
    Batches = {"TOOLS"}
CHECK_DEADLOCK FALSE
INVARIANTS
    TypeOK
    SteerInv
    ArchivedSessionIsIdle
PROPERTIES
    TerminalRowsAreFinal
    DeliveryIsFifo
    ImplementsExecutionSlot
    DeliverablePromptIsSettled
