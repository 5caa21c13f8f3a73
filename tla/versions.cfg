CONSTANTS
    d1 = d1
    d2 = d2
    r1 = r1
    r2 = r2
    r3 = r3
    Docs = {d1, d2}
    Requests = {r1, r2, r3}
    MaxRequests = 6
    MaxVersion = 5
    NoDoc = NoDoc
SPECIFICATION Spec
INVARIANTS TypeOK EveryNumberIsListed HistoryKept
PROPERTIES RestoreBringsBack
SYMMETRY Symmetry
CHECK_DEADLOCK FALSE
