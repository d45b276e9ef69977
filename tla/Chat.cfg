SPECIFICATION Spec
CONSTANTS
    Sockets = {s1}
    MaxTime = 4
    Sub = 2
    RateMax = 2
    Window = 2
    MaxSent = 4
    Limit = 1
INVARIANTS TypeOK RateExact NothingMissed
CHECK_DEADLOCK FALSE
