CONSTANTS
    d1 = d1
    d2 = d2
    k1 = k1
    k2 = k2
    theVault = theVault
    VaultId = theVault
    MaxRecords = 1
    Slots = {s1, s2}
    Uploads <- MCUploads
    SnapshotClocks = {3}
    MaxSnapshots = 1
    MaxTime = 0
    MaxFailures = 1
SPECIFICATION Spec
CHECK_DEADLOCK FALSE
SYMMETRY MCSymmetry
INVARIANTS
    EffectsFollowCommit
    StreamDense
    AcceptedOnce
    AckedIsCommitted
    NoPartialCommit
PROPERTIES
    ImplementsCommitLog
