SPECIFICATION Spec
CONSTANTS
    NoAttempt = NoAttempt
    Attempts = {a1, a2}
    Assignable = {"researcher"}
    MaxQueue = 1
    MaxFailures = 1
    MaxOverlaps = 1
    OverlapFrom = "persist_result"
CHECK_DEADLOCK FALSE
SYMMETRY AttemptSymmetry
INVARIANTS
    TypeOK
    IndexedIsStored
    SavedNodesAreNotRepeated
    EffectsPrecedeCheckpoint
    AnswersAgree
PROPERTIES
    ProgressIsKept
