SPECIFICATION FairSpec
CONSTANTS
    Callers = {c1, c2}
    Patient = {c1}
    Flushers = {f1}
    Starts = {TRUE}
    MaxSize = 1
    FlushAt = 1
    MaxEvents = 1
    None = None
PROPERTIES
    FlushAlwaysReturns
CHECK_DEADLOCK FALSE
