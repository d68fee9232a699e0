SPECIFICATION FairSpec
CONSTANTS
    t1 = t1
    Jobs = {1}
    Tests = {t1}
    TestOf <- OneTest
    Slots = {s1}
    Clients = {c1, c2}
    MaxStops = 2
    MaxLeft = 1
INVARIANT ContainersOwned
PROPERTIES
    ImplementsLifecycle
    EveryJobResolves
    ContainersReaped
CHECK_DEADLOCK FALSE
