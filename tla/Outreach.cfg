SPECIFICATION Spec
CONSTANTS
    c1 = c1  c2 = c2  s1 = s1  s2 = s2  ann = ann  bob = bob
    Sequences = {s1, s2}
    People = {ann}
    Steps <- MCSteps
    Delay = 0
    Automatic = {s1}
    Permitted = {ann}
    Gated = {s2}
    DailyCap = 2
    EnrollmentCap = 1
    Retry = 2
    Callers = {c1, c2}
    None = None
    Labels = {"out_of_office", "unsubscribe_request", "bounce"}
    MaxReplies = 1
    MaxClock = 2
    MaxEvents = 3
SYMMETRY CallerSymmetry
INVARIANTS
    OneSequencePerPerson
    CapExceededOnlyByOverlap
    StepsInOrder
PROPERTIES
    UnsubscribingIsForGood
    NothingUnapproved
CHECK_DEADLOCK FALSE
