SPECIFICATION Spec
CONSTANTS
    Request = {r1}
    Worker = {w1}
    Output = {o1}
    NoOutput = NoOutput
    RetryLimit <- SourceRetries
    MaxRedeliveries = 0
    MaxCrashes = 0
    AmbiguousCalls = FALSE
CHECK_DEADLOCK FALSE
PROPERTIES
    SucceededIsFinal
