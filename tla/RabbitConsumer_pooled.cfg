SPECIFICATION FairConsumerSpec
CONSTANTS
    MaxGen = 2
    AutoReconnect = TRUE
    Kinds = {"pooled"}
    Prefetch = 1
PROPERTIES
    PooledRecovers
CHECK_DEADLOCK FALSE
