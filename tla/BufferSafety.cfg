SPECIFICATION Spec
CONSTANTS
    Callers = {c1, c2}
    Patient = {}
    Flushers = {f1}
    Starts = {TRUE, FALSE}
    MaxSize = 2
    FlushAt = 2
    MaxEvents = 3
    None = None
INVARIANTS
    TypeOK
    EveryEventInOnePlace
    InFlightCountsBatches
    NoLostIdle
    NoStranding
    NoMissedFlushAt
    LossIsCounted
PROPERTIES
    FlushMeansSettled
    ImplementsChannel
CHECK_DEADLOCK FALSE
SYMMETRY Symmetry
