SPECIFICATION FairSpec
CONSTANTS
    Ids = {i1, i2}
    Added = {}
    Procs = {p1}
    Commands = {"add", "remove", "sync", "labels", "refresh"}
    MaxSessions = 2
    MaxGen = 3
    MaxKeys = 2
    Disturbances = {"net", "lost", "cancel", "keychain", "store", "crash"}
    MaxDisturbances = 1
INVARIANT TypeOK
INVARIANT NoOrphanSecrets
INVARIANT ActiveIsOneSession
PROPERTY RefreshKeepsItsWord
PROPERTY LossComesToLight
