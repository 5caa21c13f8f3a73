\* Redis set: first ingestions go through one Celery worker; PostgreSQL.
CONSTANTS
    d1 = d1  d2 = d2  short = short  long = long
    j1 = j1  j2 = j2  w1 = w1
    NoContent = NoContent  NoDoc = NoDoc
    Docs = {d1}
    Contents = {long}
    Batches <- MCOne
    MaxBatches = 1
    Jobs = {j1, j2}
    Workers = {w1}
    ForeignKeys = TRUE
    MaxFaults <- OneButIndex
SPECIFICATION FairSpec
INVARIANT NeverInLimbo
PROPERTY Settles Refines
\* All ids used and deleted, nothing running: the system rests.
CHECK_DEADLOCK FALSE
