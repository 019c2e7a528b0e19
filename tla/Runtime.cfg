SPECIFICATION FairSpec
CONSTANTS
    Threads = {t1, t2, t3}
    Sinks = {s1}
    MaxCalls = 3
    None = None
INVARIANTS
    TypeOK
    PipelinesAccounted
    InstalledIsOpen
    RetiredOnce
PROPERTIES
    EmitReturns
CHECK_DEADLOCK FALSE
