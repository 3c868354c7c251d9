SPECIFICATION Spec
CONSTANTS
    c1 = c1  c2 = c2  s1 = s1  s2 = s2
    ActionIds = {1, 2}
    ReceiptIds = {1, 2}
    NoAction = 0
    NoReceipt = 0
    Requests <- SlotOnly
    Callers = {c1, c2}
    Nobody = Nobody
    Subjects = {s1}
    NoSubject = NoSubject
    Covered = {s1}
    Changing = {"kill_switch", "subject"}
    MaxChanges = 2
    MaxEvents = 2
    MaxCrashes = 1
SYMMETRY CallerSymmetry
INVARIANTS
    SucceededMeansPosted
PROPERTIES
    NothingSkipsTheGate
    GuardrailsHoldAtTheCall
    OutcomesAreFinal
CHECK_DEADLOCK FALSE
