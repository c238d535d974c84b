CONSTANTS
    m1 = m1
    m2 = m2
    Msgs = {m1, m2}
    Recent = {m1, m2}
    MaxEvents = 2
    BatchSize = 2
    MaxAttempts = 2
    MaxDisturbances = 2
    Disturbances = {"net", "busy", "bad", "auth", "abort", "cancel", "crash", "full"}
SPECIFICATION FairSpec
INVARIANTS
    TypeOK
    NoLoss
    NoLossInv
    NoGhostBeforeRebootstrap
    SummaryMatchesCache
    StampMeansCaughtUp
PROPERTIES
    ImplementsContract
    EventuallyConverges
