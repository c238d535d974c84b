SPECIFICATION Spec
CONSTANTS
    b1 = b1
    Boxes = {b1}
    Concurrency = 1
    Buffer = 1
    WatchModes = {FALSE}
    Interrupts = {"signal"}
    MaxPasses = 1
    MaxCount = 0
    MaxLogs = 1
INVARIANTS
    NeverBlocksOnStopped
CHECK_DEADLOCK FALSE
