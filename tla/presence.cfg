CONSTANTS
    ann = ann
    bob = bob
    room = room
    hall = hall
    a1 = a1
    b1 = b1
    b2 = b2
    bell = bell
    q = q
    Users = {ann, bob}
    Channels = {room, hall}
    Sockets = {a1, b1, b2, bell}
    Settable = {"away"}
    Requests = {q}
    UserOf <- MCUserOf
    ListOf <- MCListOf
    Partners <- MCPartners
    MaxEvents = 3
SPECIFICATION Spec
INVARIANT TypeOK NobodySkippedOrRepeated GoneIsOffline
PROPERTY PartnerIsTold ClosedGoesOffline
CHECK_DEADLOCK FALSE
