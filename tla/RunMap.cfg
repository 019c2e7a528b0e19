SPECIFICATION Spec
CONSTANTS
    Threads = {t1, t2, t3}
    Runs = {"root", "child", "grandchild"}
    MaxRuns = 2
    None = None
    Outer = Outer
    ParentRun <- Tree
INVARIANTS
    EveryRunAccounted
    NestsInOneTrace
    ReferencesResolve
PROPERTIES
    ImplementsLifecycle
SYMMETRY Symmetry
CHECK_DEADLOCK FALSE
