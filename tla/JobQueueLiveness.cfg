SPECIFICATION LiveSpec
CONSTANTS
    p1 = p1  k1 = k1  k2 = k2
    JobIds = {1, 2}
    Workspaces = {1}
    Keys = {k1, k2}
    JobKinds = {"publish", "digest"}
    Knows <- MCKnows
    Priorities = {0}
    Attempts = {2}
    Delays = {0}
    Procs = {p1}
    NoProc = NoProc
    LeaseMs = 2
    BatchSize = 1
    PerWorkspace = 1
    ScanLimit = 2
    BaseBackoff = 1
    MaxBackoff = 1
    MaxTroubles = 1
    LastRequest = 4
    MaxClock = 16
PROPERTY EveryJobSettles
CHECK_DEADLOCK FALSE
