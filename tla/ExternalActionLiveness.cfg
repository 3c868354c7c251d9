SPECIFICATION LiveSpec
CONSTANTS
    c1 = c1  c2 = c2  s1 = s1
    ActionIds = {1}
    ReceiptIds = {1, 2}
    NoAction = 0
    NoReceipt = 0
    Requests <- SlotOrAsked
    Callers = {c1, c2}
    Nobody = Nobody
    Subjects = {s1}
    NoSubject = NoSubject
    Covered = {s1}
    Changing = {"subject", "policy", "kill_switch"}
    MaxChanges = 1
    MaxEvents = 2
    MaxCrashes = 1
    MaxRetries = 1
INVARIANT OneReceiptPerAction
PROPERTIES
    NothingSkipsTheGate
    AuthorizedWorkConcludes
CHECK_DEADLOCK FALSE
