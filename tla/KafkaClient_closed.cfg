SPECIFICATION KafkaSpec
CONSTANTS
    Connectors = {k1, k2}
    DialRetries = 1
    MaxDials = 3
INVARIANT
    CloseReleasesAll
CHECK_DEADLOCK FALSE
