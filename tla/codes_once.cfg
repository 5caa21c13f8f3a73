CONSTANTS
    Sessions = {s1, s2}
    Requests = {r1, r2}
    Slots = {c1, c2}
    MaxServed = 6
    None = None
SPECIFICATION Spec
SYMMETRY Symmetry
INVARIANT BackupCodesOnce
CHECK_DEADLOCK FALSE
