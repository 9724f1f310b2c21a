SPECIFICATION FairDeliverySpec
CONSTANTS
    MaxGen = 2
    Msgs <- MCMsgs
    Workers = {w1}
    App = app
    MaxRetries = 1
    MaxTimeouts = 1
    Modes = {"confirms", "noConfirms", "autoAck"}
    Setups = {"ttl"}
INVARIANTS
    OkMeansAccepted
    NothingLost
PROPERTIES
    MessagesSettle
CHECK_DEADLOCK FALSE
