SPECIFICATION FairSpec
CONSTANTS
    MaxGen = 3
    AutoReconnect = TRUE
PROPERTIES
    LinkStaysWatched
CHECK_DEADLOCK FALSE
