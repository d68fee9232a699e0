SPECIFICATION FairSpec
CONSTANTS
    Clients = {c1, c2}
    Tokens = {k1}
    TTL = 2
    Timeout = 1
    MaxTime = 3
    Tests = {t1}
    VarNames = {v1, v2}
    MaxVars = 1
INVARIANTS
    GrantsFresh
    WithinLimit
    ArtifactBehindTest
    OrphansExplained
PROPERTIES
    ImplementsTestStore
    RequestsAnswered
