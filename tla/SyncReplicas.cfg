CONSTANTS
    d1 = d1
    d2 = d2
    k1 = k1
    k2 = k2
    theVault = theVault
    VaultId = theVault
    MaxRecords = 1
    Slots = {s1, s2}
    Uploads <- MCUploads
    SnapshotClocks = {1}
    MaxSnapshots = 1
    MaxTime = 0
    MaxFailures = 1
    Readers = {x1}
    BootstrapLimit = 2
    PullLimit = 1
SPECIFICATION MCFairSpec
CHECK_DEADLOCK FALSE
INVARIANTS
    CursorsSound
PROPERTIES
    ReplicasCatchUp
    EveryUploadAnswered
