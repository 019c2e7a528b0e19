SPECIFICATION FairSpec
CONSTANTS
    Senders = {s1}
    MaxSends = 2
    MaxAttempts = 3
    Timeout = 3
    BackoffBase = 1
    BackoffMax = 3
    RetryAfter = {0, 4}
    Budgets = {0, 2}
    Pools = {p1, p2, p3}
    None = None
INVARIANTS
    EveryBatchAccounted
    AtMostOnePool
    InheritedPoolsStayOpen
    SendIsBounded
PROPERTIES
    NothingOutlivesTheDeadline
    SendReturns
CHECK_DEADLOCK FALSE
