SPECIFICATION ClientFairSpec
CONSTANTS
    Tasks = {t1, t2}
    Second = 3
    Interval = 3
    Concurrency = 1
    MaxRetries = 1
    MaxPages = 2
    Threshold = 2
    Reset = 3
    Closed = Closed
INVARIANTS
    LateOnce
PROPERTIES
    TokensPaced
    Recovers
    QueriesEnd
