CONSTANTS
    Events = {e1}
    Period = 10
    Reach = 4
    MaxClock = 40
    None = None
SPECIFICATION Spec
INVARIANT EveryEventIsReminded
