SPECIFICATION Spec
CONSTANTS
    c1 = c1  c2 = c2  s1 = s1  s2 = s2
    ActionIds = {1}
    ReceiptIds = {1}
    NoAction = 0
    NoReceipt = 0
    Requests <- NowOnly
    Callers = {c1, c2}
    Nobody = Nobody
    Subjects = {s1}
    NoSubject = NoSubject
    Covered = {s1}
    Changing = {}
    MaxChanges = 0
    MaxEvents = 0
    MaxCrashes = 0
INVARIANT FirstAttemptPostsOnce
CHECK_DEADLOCK FALSE
