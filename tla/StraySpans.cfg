SPECIFICATION Spec
CONSTANTS
    Tasks = {t1, t2}
    Gens = {g1}
    MaxSpans = 3
    MaxDepth = 2
    None = None
INVARIANTS
    NestsInOneTrace
CHECK_DEADLOCK FALSE
