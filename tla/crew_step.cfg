SPECIFICATION FairSpec
CONSTANTS
    NoAttempt = NoAttempt
    Attempts = {a1, a2, a3}
    HasTools = TRUE
CHECK_DEADLOCK FALSE
INVARIANTS
    TypeOK
    ReturnedIsCanonical
    EffectsBelongToRow
PROPERTIES
    ImplementsRegister
    EveryAttemptEnds
