SPECIFICATION FairSpec
CONSTANTS
    Threads = {t1, t2}
    Flusher = Flusher
    FlushAt = 2
    MaxCalls = 4
    None = None
PROPERTIES
    EmitReturnsInChild
CHECK_DEADLOCK FALSE
