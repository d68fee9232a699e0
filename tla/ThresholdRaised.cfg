SPECIFICATION Spec
CONSTANTS
    Runs = {r1}
    Clients = {c1}
    Configs <- ThresholdConfigs
    Keys = {k1, k2}
    k1 = k1
    k2 = k2
    NoKey = NoKey
    NoRun = NoRun
    MaxStreak = 4
    MaxFaults = 0
SYMMETRY Symmetric
INVARIANT
    ResolvedOnRecovery
