SPECIFICATION FairSpec
CONSTANTS
    Jobs = {j1, j2, j3}
    Concurrency = 2
INVARIANTS
    SlotsAccountedFor
    NoLostWake
PROPERTIES
    ImplementsSlots
    NoStarvation
    ShutdownCompletes
CHECK_DEADLOCK FALSE
