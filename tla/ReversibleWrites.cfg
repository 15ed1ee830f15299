SPECIFICATION Spec
CONSTANTS
    w1 = w1
    w2 = w2
    policy = policy
    queue = queue
    param = param
    short = short
    long = long
    cut = cut
    Absent = Absent
    Workers = {w1, w2}
    Resources = {policy, queue}
    Kind <- KindsHere
    Values = {short, long}
    Clip <- Fits
    MaxCalls = 3
    MaxOthers = 1
SYMMETRY Alike
CHECK_DEADLOCK FALSE
INVARIANTS
    TokenHasEffect
    AppliedMeansInverted
PROPERTIES
    UndoRestores
    ImplementsUndoLog
