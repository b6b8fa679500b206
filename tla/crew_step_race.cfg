SPECIFICATION Spec
CONSTANTS
    NoAttempt = NoAttempt
    Attempts = {a1, a2}
    HasTools = TRUE
CHECK_DEADLOCK FALSE
INVARIANT LoserUsesPeerOutput
