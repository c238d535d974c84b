SPECIFICATION Spec
CONSTANTS
    b1 = b1
    Boxes = {b1}
    Concurrency = 1
    Buffer = 2
    WatchModes = {TRUE}
    Interrupts = {"signal"}
    MaxPasses = 2
    MaxCount = 1
    MaxLogs = 0
INVARIANTS
    DoneWithinTotal
PROPERTIES
    HeaderNeverGoesBack
CHECK_DEADLOCK FALSE
