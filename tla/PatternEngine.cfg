SPECIFICATION Spec
CONSTANTS
    t1 = t1
    t2 = t2
    db1 = db1
    Threads = {t1, t2}
    Targets = {db1}
    Hour = 2
    Day = 4
    HourCap = 2
    DayCap = 3
    Threshold = 2
    Cooldown = 3
    Horizon = 5
    MaxEdits = 1
SYMMETRY Alike
INVARIANTS
    CapsHold
    BreakerExact
PROPERTY
    ImplementsArmingLimits
