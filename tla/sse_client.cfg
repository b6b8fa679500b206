SPECIFICATION FairSpec
CONSTANTS
    MaxEvents = 2
    MaxReconnects = 3
    MaxFailures = 1
    MaxClicks = 1
    NoTask = NoTask
    NoCall = NoCall
    Asked = Asked
    Failed = Failed
CHECK_DEADLOCK FALSE
INVARIANTS
    TypeOK
    OneChannel
    StopsOnlyWhenOver
    LiveEntriesAwaitRefresh
PROPERTIES
    WatchingEnds
