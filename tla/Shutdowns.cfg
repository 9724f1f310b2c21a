SPECIFICATION ShutdownsSpec
CONSTANTS
    Txs = {t1, t2}
    Pingers = {p1}
    Callers = {s1, s2}
    SkipJobs = {j1}
    AllowJobs = {j2}
    MaxRuns = 2
    Consumers = {c1, c2}
    Stoppers = {s1, s2}
INVARIANTS
    TypeOK
    ActiveTxCountsLive
    VerdictIsTrue
    ScraperStopsBeforeClose
    WorkerTypeOK
    NoSelfOverlap
    StopLeavesNothing
PROPERTIES
    NoAddAfterWait
    DrainsThenCloses
    ShutdownReturnsIfPingsDo
    SchedulerDrains
    StopTerminates
CHECK_DEADLOCK FALSE
