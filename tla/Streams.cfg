SPECIFICATION Spec
CONSTANTS
    Tasks = {t1, t2}
    CallIds = {c1, c2}
    Clients = {k1, k2}
    MaxAttempts = 2
    None = None
    Answers <- MCAnswers
INVARIANTS
    AttemptsFollowTheirCall
    SpansCloseOnce
    StreamedLikeWhole
PROPERTIES
    SettledIsFinal
CONSTRAINT OthersAlone
SYMMETRY Symmetry
CHECK_DEADLOCK FALSE
