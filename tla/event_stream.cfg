SPECIFICATION FairSpec
CONSTANTS
    EventKey = {k1, k2}
    Handler = {h1, h2}
    Stream = {s1}
    NoHandler = NoHandler
    NoKey = NoKey
    MaxFailures = 1
INVARIANTS
    TypeOK
PROPERTIES
    LostOnlyToFailure
    ImplementsFeed
    AcceptedIsRecorded
    SettledStreamCloses
