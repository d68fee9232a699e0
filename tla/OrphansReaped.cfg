SPECIFICATION FairSpec
CONSTANTS
    t1 = t1
    Jobs = {1}
    Tests = {t1}
    TestOf <- OneTest
    Slots = {s1}
    Clients = {c1}
    MaxStops = 1
    MaxLeft = 1
PROPERTY OrphansReaped
CHECK_DEADLOCK FALSE
