SPECIFICATION Spec
CONSTANTS
    Runs = {r1, r2}
    Clients = {c1}
    Configs <- SomeConfigs
    Keys = {k1, k2}
    k1 = k1
    k2 = k2
    NoKey = NoKey
    NoRun = NoRun
    MaxStreak = 6
    MaxFaults = 2
SYMMETRY Symmetric
INVARIANTS
    StreakCounted
    AlertsOnSchedule
    IncidentMatchesAlert
PROPERTY ImplementsPolicy
