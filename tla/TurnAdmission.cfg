SPECIFICATION FairAdmissionSpec
CONSTANTS
    Intents = {i1, r}
    Rivals = {r}
CHECK_DEADLOCK FALSE
INVARIANTS
    AbandonedTurnIsEnded
    ReturnedTurnIsPublished
PROPERTIES
    CloseJoinsAdmission
