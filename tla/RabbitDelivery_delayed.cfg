SPECIFICATION DeliverySpec
CONSTANTS
    MaxGen = 2
    Msgs <- MCMsgs
    Workers = {w1}
    App = app
    MaxRetries = 1
    MaxTimeouts = 1
    Modes = {"confirms", "noConfirms", "autoAck"}
    Setups = {"delayed"}
INVARIANTS
    RejectedIsRouted
CHECK_DEADLOCK FALSE
