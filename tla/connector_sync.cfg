\* Two syncs of one connector and one item; one task at a time.
CONSTANTS
    v1 = v1
    v2 = v2
    s1 = s1
    s2 = s2
    t1 = t1
    t2 = t2
    NumItems = 1
    Versions = {v1, v2}
    Size <- MCSize
    MaxSize = 2
    ListsMD5 = TRUE
    Syncs = {s1, s2}
    Tasks = {t1}
    MaxDocs = 4
    MaxChanges = 1
    MaxFaults = 1
    NoVersion = NoVersion
SPECIFICATION FairSpec
INVARIANTS TypeOK OneDocumentPerItem SkippedIsIndexed TotalCounts
PROPERTY PauseHolds Converges
CHECK_DEADLOCK FALSE
