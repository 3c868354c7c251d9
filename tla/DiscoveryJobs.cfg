SPECIFICATION Spec
CONSTANTS
    c1 = c1  c2 = c2
    Ticks = {c1, c2}
    Targets = {1, 2}
    Offset = {2}
    Initial <- MCInitial
    PageSize = 1
    MaxPages = 2
    Nobody = Nobody
    MaxPosts = 3
    MaxEvents = 2
INVARIANTS
    NothingMissed
    CursorIsCurrent
PROPERTIES
    NoStaleResults
    EveryPostIsFound
CHECK_DEADLOCK FALSE
