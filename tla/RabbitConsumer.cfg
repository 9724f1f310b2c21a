SPECIFICATION FairConsumerSpec
CONSTANTS
    MaxGen = 3
    AutoReconnect = TRUE
    Kinds = {"single", "pooled"}
    Prefetch = 2
INVARIANTS
    OneReconnect
    ReturnsIdle
PROPERTIES
    WatchedDropIsRepaired
    CloseEndsReconnect
    SingleRecovers
    ClosedStaysQuiet
    ImplementsLink
CHECK_DEADLOCK FALSE
