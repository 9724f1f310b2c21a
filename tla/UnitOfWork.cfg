SPECIFICATION UowSpec
CONSTANTS
    Txs = {t1, t2, t3}
    Pingers = {}
    Callers = {s1}
    Goroutines = {g1, g2}
    Units = {u1, u2}
SYMMETRY Symmetry
INVARIANTS
    OutcomeIsTrue
    GuardIsExact
    CloseSparesDo
CHECK_DEADLOCK FALSE
