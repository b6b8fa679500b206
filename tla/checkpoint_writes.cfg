SPECIFICATION Spec
CONSTANTS
    NoAttempt = NoAttempt
    Attempts = {a1, a2}
    Assignable = {"researcher"}
    MaxQueue = 1
    MaxFailures = 0
    MaxOverlaps = 0
    OverlapFrom = "persist_result"
CHECK_DEADLOCK FALSE
SYMMETRY AttemptSymmetry
INVARIANTS
    StoredWritesAreUsed
