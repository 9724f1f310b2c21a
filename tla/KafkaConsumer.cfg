SPECIFICATION FairSpec
CONSTANTS
    N = 2
    Handlers <- MCHandlers
    MaxRetries = 2
    Workers = {w1, w2}
    Loop = loop
    MaxStarts = 2
    MaxCrashes = 1
INVARIANTS
    TypeOK
    CommitsOnlySettled
    SkipsOnlyGivenUp
    PanicsOnlyAfterTimeout
    CloseWaits
PROPERTIES
    EventuallySettled
CHECK_DEADLOCK FALSE
