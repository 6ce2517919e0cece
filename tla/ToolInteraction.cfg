SPECIFICATION FairSpec
CONSTANTS
    Requests = {m, f}
    Forms = {f}
    Hooked = {m}
    Celled = {m}
    Controllers = {a1, a2}
    None = None
    MaxQueued = 2
CHECK_DEADLOCK FALSE
INVARIANTS
    AnswerAgreesWithStore
    PermitFollowsDecision
    HeadIsShown
PROPERTIES
    RequestIsAnswered
    CloseEnds
