SPECIFICATION FairSpec
CONSTANTS
    Patch = {p1}
    Activity = {m1}
    Call = {c1, c2}
    Snapshot = Snapshot
    None = None
    Cuts = TRUE
    Failures = TRUE
INVARIANTS
    TypeOK
    DocumentAddsUp
PROPERTIES
    WritesEnd
