SPECIFICATION Spec
CONSTANTS
    Kernels = {k1, k2}
    Tasks = {t1, t2}
    Commands = {c1}
    Tick = Tick
    None = None
    Horizon = 4
    MaxTime = 3
    MaxRevision = 2
CONSTANT Rules <- TwoRules
CONSTRAINT Bounded
SYMMETRY Identities
CHECK_DEADLOCK FALSE
INVARIANTS PlanInv
PROPERTIES NoLiveOccurrenceSkipped
