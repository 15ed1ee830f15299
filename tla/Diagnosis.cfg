CONSTANTS
    Missing = Missing
    None = None
    Failed = Failed
    MaxRows = 2
    SlowlogRows = 2
    Evidence = 1
    BigKeyMinBytes = 2
    ForkStallUs = 2
    BacklogMinMessages = 2000
    HeavyCommands = {"KEYS", "MGET"}
    ScanBudget = 7
    MaxPage = 3
    SampleMax = 3
    TopKeys = 2
    Sizes = {1, 2, 3}
    MaxClock = 4
    MaxArrivals = 4
    Answers <- SomeAnswers
    Options <- SomeOptions

SPECIFICATION Spec

INVARIANTS
    SampleSpreads
    ChurnIsReal
    
    LargestShown
    OverviewHonest
