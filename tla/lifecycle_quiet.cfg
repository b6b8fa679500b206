SPECIFICATION FairSpec
CONSTANTS
    Request = {}
    Worker = {w1}
    Output = {o1, o2}
    NoOutput = NoOutput
    RetryLimit <- SourceRetries
    MaxRedeliveries = 0
    MaxCrashes = 2
    AmbiguousCalls = FALSE
CHECK_DEADLOCK FALSE
INVARIANTS
    RowNamesRunningEngine
    RowRecordsOutcome
PROPERTIES
    ImplementsPromise
    ScheduledTaskSettles
