SPECIFICATION Spec
CONSTANTS
    p1 = p1  p2 = p2  k1 = k1  k2 = k2
    JobIds = {1, 2}
    Workspaces = {1}
    Keys = {k1, k2}
    JobKinds = {"publish", "digest"}
    Knows <- MCKnows
    Priorities = {0}
    Attempts = {2}
    Delays = {0, 2}
    Procs = {p1, p2}
    NoProc = NoProc
    LeaseMs = 2
    BatchSize = 2
    PerWorkspace = 1
    ScanLimit = 2
    BaseBackoff = 1
    MaxBackoff = 2
    MaxClock = 4
SYMMETRY KeySymmetry
INVARIANTS
    TypeOK
    OneActiveJobPerKey
    AtMostOneWriter
    RetryBudget
PROPERTIES
    TerminalIsFinal
    ImplementsDurableQueue
CHECK_DEADLOCK FALSE
