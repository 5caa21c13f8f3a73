CONSTANTS
    v1 = v1
    v2 = v2
    s1 = s1
    s2 = s2
    t1 = t1
    t2 = t2
    NumItems = 1
    Versions = {v1, v2}
    Size <- MCSize
    MaxSize = 2
    ListsMD5 = TRUE
    Syncs = {s1}
    Tasks = {t1, t2}
    MaxDocs = 2
    MaxChanges = 1
    MaxFaults = 0
    NoVersion = NoVersion
SPECIFICATION Spec
INVARIANT TaskSettlesDocument
CHECK_DEADLOCK FALSE
