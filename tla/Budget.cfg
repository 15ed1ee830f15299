SPECIFICATION Spec
CONSTANTS
    t1 = t1
    t2 = t2
    status = status
    None = None
    Threads = {t1, t2}
    Fingerprints = {status}
    Settings <- Breakers
    MaxToolCalls = 4
    MaxToolSeconds = 3
    MaxStall = 1
    LongestCall = 2
    Horizon = 6
    MaxChanges = 1
SYMMETRY Alike
CHECK_DEADLOCK FALSE
INVARIANTS
    RunawayBound
    CeilingsHold
PROPERTY
    TripJustified
