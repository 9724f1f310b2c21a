SPECIFICATION Spec
CONSTANTS
    N = 2
    Handlers <- MCHandlers
    MaxRetries = 1
    Workers = {w1}
    Loop = loop
    MaxStarts = 1
    MaxCrashes = 0
INVARIANTS
    RedeliveredAfterDLQFailure
CHECK_DEADLOCK FALSE
