SPECIFICATION DispatchSpec
CONSTANTS
    p1 = p1  p2 = p2  t1 = t1  t2 = t2
    JobIds = {1, 2}
    Workspaces = {1}
    Keys <- MCKeys
    JobKinds = {"publish"}
    Knows <- MCKnows
    Priorities = {0}
    Attempts = {1}
    Delays = {0}
    Procs = {p1, p2}
    NoProc = NoProc
    LeaseMs = 1
    BatchSize = 1
    PerWorkspace = 1
    ScanLimit = 2
    BaseBackoff = 1
    MaxBackoff = 1
    MaxClock = 3
    Ticks = {t1, t2}
    ProcOf <- MCProcOf
    Kinds = {"publish"}
    RetiredKinds = {"retired"}
    Intervals <- MCIntervals
    NoLease = NoLease
    LegacyAt = 1
INVARIANTS
    OneJobPerOccurrence
    OccurrencesKeepTheirDistance
PROPERTIES
    NoOccurrenceLost
    ImplementsTaskLease
CHECK_DEADLOCK FALSE
