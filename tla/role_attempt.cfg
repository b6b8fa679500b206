SPECIFICATION FairSpec
CONSTANTS
    Tool = {t1, t2}
    Allowlist = {t1}
    MaxRounds = 3
    MaxTries = 2
    MaxCalls = 2
    MaxCrewCalls = 3
INVARIANTS
    TypeOK
    ConversationComplete
PROPERTIES
    CutRoleOnlyConcludes
    ThreadEnds
