CONSTANTS
    Recordings = {r1, r2}
    Names = {n1, n2}
    MaxFaults = 3
    None = None
    NoText = NoText
SPECIFICATION Spec
INVARIANT TypeOK NotesComeTogether LinkedDocumentsAreItsOwn
PROPERTY NotesArrive
CHECK_DEADLOCK FALSE
