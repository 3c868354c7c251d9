SPECIFICATION AutomationSpec
CONSTANTS
    c1 = c1  c2 = c2  o1 = o1  r1 = r1
    Calls = {c1, c2}
    Owners = {o1}
    OwnerOf <- MCOwnerOf
    NoLease = NoLease
    LeaseMs = 1
    MaxClock = 1
    Items = {1}
    Initially <- Automated
    Requests = {r1}
    MaxEvents = 1
    MaxWrites = 3
SYMMETRY CallSymmetry
INVARIANTS
    AtMostOneHolder
    OneDraftPerItem
PROPERTIES
    OnlyTheHolderEndsALiveLease
    StoppedMeansNoApprovals
    NoReviewIsLost
CHECK_DEADLOCK FALSE
