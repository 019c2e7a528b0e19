SPECIFICATION FairSpec
CONSTANTS
    Threads = {t1, t2}
    Flusher = Flusher
    FlushAt = 2
    MaxCalls = 4
    None = None
INVARIANTS
    EachEventOnce
    NobodyWaitsForTheParent
PROPERTIES
    ForkedWorkGoesOn
CHECK_DEADLOCK FALSE
