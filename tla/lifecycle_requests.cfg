SPECIFICATION Spec
CONSTANTS
    Request = {r1, r2}
    Worker = {w1}
    Output = {o1}
    NoOutput = NoOutput
    RetryLimit <- NoRetries
    MaxRedeliveries = 0
    MaxCrashes = 0
    AmbiguousCalls = TRUE
SYMMETRY Symmetry
CHECK_DEADLOCK FALSE
INVARIANTS
    CompletedKeepsReport
    AcknowledgedPauseHolds
PROPERTIES
    SuccessLostOnlyToStaleRead
