SPECIFICATION Spec
CONSTANTS
    c1 = c1  c2 = c2
    Steps <- MCSteps
    Drafting = {"draft", "revise"}
    Loops <- MCLoops
    MaxTokens = 5
    Calls = {c1, c2}
    NoCall = NoCall
    NoDraft = NoDraft
    Origins <- MCOrigins
    RunMs = 1
    StepAttempts = 2
    MaxClock = 2
    MaxCalls = 3
    MaxLost = 1
SYMMETRY CallSymmetry
INVARIANTS
    LeaseFencesExecutions
    PassesAreDoneOnce
    RunningIsExecuting
    OneDraftPerRun
    ProposedAfterEveryStep
    ChecklistIsComplete
CHECK_DEADLOCK FALSE
