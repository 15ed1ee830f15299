SPECIFICATION Spec
CONSTANTS
    w1 = w1
    w2 = w2
    policy = policy
    queue = queue
    param = param
    short = short
    long = long
    cut = cut
    Absent = Absent
    Workers = {w1, w2}
    Resources = {param}
    Kind <- KindsHere
    Values = {short, long}
    Clip <- Fits
    MaxCalls = 3
    MaxOthers = 0
CHECK_DEADLOCK FALSE
INVARIANT
    OncePerToken
