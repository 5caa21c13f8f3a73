CONSTANTS
    j1 = j1
    j2 = j2
    m1 = m1
    m2 = m2
    m3 = m3
    m4 = m4
    m5 = m5
    c1 = c1
    c2 = c2
    c3 = c3
    Jobs = {j1, j2}
    Messages = {m1, m2, m3, m4, m5}
    Handlers = {c1, c2, c3}
    Prefetch = 1
    MaxRetries = 3
    MaxFaults = 1
    NoJob = NoJob
    NoMessage = NoMessage
SPECIFICATION FairSpec
INVARIANTS TypeOK OneCopyUntilFault
PROPERTIES Refines JobsSettle
CHECK_DEADLOCK FALSE
