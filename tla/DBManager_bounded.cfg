SPECIFICATION FairSpec
CONSTANTS
    Txs = {t1}
    Pingers = {p1}
    Callers = {s1}
PROPERTIES
    ShutdownIsBounded
