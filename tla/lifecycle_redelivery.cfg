SPECIFICATION Spec
CONSTANTS
    Request = {r1}
    Worker = {w1, w2}
    Output = {o1, o2}
    NoOutput = NoOutput
    RetryLimit <- ShortRetries
    MaxRedeliveries = 1
    MaxCrashes = 0
    AmbiguousCalls = FALSE
SYMMETRY Symmetry
CHECK_DEADLOCK FALSE
INVARIANTS
    TypeOK
    ManualEngineHonoured
    HistoryIsRecorded
    SucceededHasItsWork
PROPERTIES
    ImplementsPipeline
