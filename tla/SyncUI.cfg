SPECIFICATION FairSpec
CONSTANTS
    b1 = b1
    b2 = b2
    Boxes = {b1, b2}
    Concurrency = 2
    Buffer = 1
    WatchModes = {FALSE, TRUE}
    Interrupts = {"signal", "key"}
    MaxPasses = 1
    MaxCount = 0
    MaxLogs = 1
INVARIANTS
    TypeOK
    NothingLeftRunning
    CleanExitMeansSynced
PROPERTIES
    Settles
CHECK_DEADLOCK FALSE
