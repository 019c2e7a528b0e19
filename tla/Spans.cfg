SPECIFICATION Spec
CONSTANTS
    Tasks = {t1, t2}
    Gens = {g1}
    MaxSpans = 3
    MaxDepth = 2
    None = None
INVARIANTS
    AmbientFollowsCalls
    NestsUnlessWandering
    KeptTracesAreWhole
    AnnotationsHitTheCaller
PROPERTIES
    ImplementsLifecycle
SYMMETRY Symmetry
CHECK_DEADLOCK FALSE
