SPECIFICATION ServicesSpec
CONSTANTS
    Subjects = {"http", "health", "client", "kafka", "producer", "trace", "dispatcher",
                "start", "migrator", "telemetry", "values", "settings", "provider",
                "channels"}
    Requests = {r1}
    Starter = starter
    Stopper = stopper
    Main = main
    ProviderSteps = 1
    ServerKinds <- MCServerKinds
    Checks = {check1, check2, check3}
    MaxConcurrent = 2
    Calls <- MCCalls
    MaxRetryAttempts = 3
    Connectors = {k1, k2}
    DialRetries = 1
    MaxDials = 4
    Productions <- MCProductions
    ProducerRetries = 2
    Journeys <- MCJourneys
    KafkaHandlers = 2
    KafkaTries = 2
    TraceRetries = 1
    EventHandlers = {h1, h2}
    Dispatches = {d1}
    MaxChanges = 4
    Setups <- MCSetups
    MigratorCalls <- MCMigratorCalls
    Migrations = 2
    MaxRows = 1
    MaxScrapes = 1
    Amounts <- MCAmounts
    Limit = 8
    MaxInt64 = 40
    Unit = 5
    Tries <- MCTries
    Lists <- MCLists
    Libraries = {"kafka", "rabbitmq", "http"}
    Numbers <- MCNumbers
    MaxOptions = 2
    QueueOf <- MCQueueOf
    MaxChannels = 3
    OtelConfigs <- MCOtelConfigs
INVARIANTS
    ServicesTypeOK
    OneResponse
    ReportsAreTrue
    StartsAreWhole
    ShutdownIsFinal
    AttemptsAreCounted
    ValuesAreRight
    DispatchInOrder
PROPERTY
    ServicesReturn
CHECK_DEADLOCK FALSE
