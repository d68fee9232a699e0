SPECIFICATION Spec
CONSTANTS
    t1 = t1
    Jobs = {1, 2}
    Tests = {t1}
    TestOf <- OneTest
    Slots = {s1, s2}
    Clients = {c1}
    MaxStops = 1
    MaxLeft = 0
SYMMETRY Symmetric
INVARIANTS
    AtMostOnce
    StopHonoured
    CompletedHasRun
CHECK_DEADLOCK FALSE
