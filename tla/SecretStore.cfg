CONSTANTS
    Procs = {p1, p2}
    cache1 = cache1
    broker1 = broker1
    s1 = s1
    Names = {cache1, broker1}
    Redis = {cache1}
    Fallback = {}
    Secrets = {s1}
    Passwords = {pw1, pw2}
    Legacy <- OldEnv
    Absent = Absent
    None = None
    Empty = Empty
    Torn = Torn
    MaxEdits = 3

SPECIFICATION Spec
SYMMETRY Alike
CONSTRAINT Followed
CHECK_DEADLOCK FALSE

INVARIANTS
    Lossless
    LegacyKept
    TargetsHaveSecrets
    ConnectionsFromStore

PROPERTY
    SwappedWhole
