SPECIFICATION FairSpec
CHECK_DEADLOCK FALSE
CONSTANTS
    PipeSize = 2
    MaxLines = 3
INVARIANTS
    InOrder
    OutputAccounted
PROPERTIES
    ImplementsCommandRun
    ExecuteReturns
