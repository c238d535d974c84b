SPECIFICATION Spec
CONSTANTS
    Ids = {i1}
    Added = {i1}
    Procs = {p1, p2}
    Commands = {"sync", "remove"}
    MaxSessions = 2
    MaxGen = 3
    MaxKeys = 2
    Disturbances = {"net", "keychain"}
    MaxDisturbances = 2
SYMMETRY Symmetric
CHECK_DEADLOCK FALSE
INVARIANT ActiveIsResumable
PROPERTY TokensNeverGoBack
