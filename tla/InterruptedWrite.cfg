SPECIFICATION Spec
CONSTANTS
    server = server
    cli = cli
    s1 = s1
    c1 = c1
    u1 = u1
    Callers = {s1, c1, u1}
    Procs = {server, cli}
    ProcOf <- TwoProcs
    Within <- UndoByS1
    HasFlock = TRUE
    RotateAt = 1
    KeepArchives = 1
    MaxCalls <- FourCalls
    MayStop = {server, cli}
INVARIANT
    OkMeansApplied
