\* Two documents share the keyword index: the API process and a worker each
\* hold one, and both save to one file; one job at a time, Redis, PostgreSQL.
CONSTANTS
    d1 = d1  d2 = d2  short = short  long = long
    j1 = j1  j2 = j2  w1 = w1
    NoContent = NoContent  NoDoc = NoDoc
    Docs = {d1, d2}
    Contents = {short, long}
    Batches <- MCBatches
    MaxBatches = 2
    Jobs = {j1}
    Workers = {w1}
    ForeignKeys = TRUE
    MaxFaults <- IndexFaults
SPECIFICATION Spec
SYMMETRY DocSymmetry
INVARIANTS TypeOK ReadyIndexExact KeywordIndexExact
\* All ids used and deleted, nothing running: the system rests.
CHECK_DEADLOCK FALSE
