CONSTANTS
    ann = ann
    bob = bob
    Users = {ann, bob}
    Admins = {bob}
    Creator = ann
    Messages = {m1, m2, m3}
    Requests = {r1, r2}
    MaxPins = 1
    MaxServed = 6
    NoMessage = NoMessage
    NoUser = NoUser
    Absent = Absent
SPECIFICATION Spec
SYMMETRY Symmetry
INVARIANT TypeOK ThreadCounts PinColumnsAgree
PROPERTY DeletedStaysDeleted
CHECK_DEADLOCK FALSE
