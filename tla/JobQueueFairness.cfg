SPECIFICATION FullSpec
CONSTANTS
    p1 = p1
    JobIds = {1, 2, 3, 4}
    Workspaces = {1, 2, 3}
    Keys = {1, 2, 3, 4}
    JobKinds = {"publish", "digest"}
    Knows <- MCKnows
    Priorities = {0}
    Attempts = {1}
    Delays = {0}
    Procs = {p1}
    NoProc = NoProc
    LeaseMs = 1
    BatchSize = 2
    PerWorkspace = 2
    ScanLimit = 4
    BaseBackoff = 1
    MaxBackoff = 1
    MaxClock = 1
INVARIANT WorkspaceCap
PROPERTY FairBatches
CHECK_DEADLOCK FALSE
