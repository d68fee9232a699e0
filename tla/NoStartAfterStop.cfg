SPECIFICATION Spec
CONSTANTS
    t1 = t1
    Jobs = {1}
    Tests = {t1}
    TestOf <- OneTest
    Slots = {s1}
    Clients = {c1}
    MaxStops = 0
    MaxLeft = 1
PROPERTY NoStartAfterStop
CHECK_DEADLOCK FALSE
