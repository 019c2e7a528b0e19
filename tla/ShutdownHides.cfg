SPECIFICATION Spec
CONSTANTS
    Callers = {c1}
    Patient = {c1}
    Flushers = {f1}
    Starts = {TRUE}
    MaxSize = 1
    FlushAt = 1
    MaxEvents = 1
    None = None
PROPERTIES
    ShutdownReportsAbandonment
CHECK_DEADLOCK FALSE
