CONSTANTS
    m1 = m1
    Msgs = {m1}
    Recent = {m1}
    MaxEvents = 1
    BatchSize = 1
    MaxAttempts = 2
    MaxDisturbances = 1
    Disturbances = {"crash"}
SPECIFICATION Spec
INVARIANT NoGhost
