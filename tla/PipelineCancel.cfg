SPECIFICATION Spec
CONSTANTS
    c1 = c1  c2 = c2
    Steps <- MCSteps
    Drafting = {"draft", "revise"}
    Loops <- MCLoops
    MaxTokens = 5
    Calls = {c1, c2}
    NoCall = NoCall
    NoDraft = NoDraft
    Origins <- MCOrigins
    RunMs = 1
    StepAttempts = 2
    MaxClock = 1
    MaxCalls = 3
    MaxLost = 0
SYMMETRY CallSymmetry
PROPERTY TerminalIsFinal
CHECK_DEADLOCK FALSE
