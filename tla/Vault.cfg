CONSTANTS
    Devices = {d1, d2}
    Creator = d1
    Records = {r1}
    Times = {1, 2}
    Nonces = {1, 2}
    MaxClock = 3
    MaxStream = 2
    MaxCrashes = 1
    None = None
    Passphrases = {p1, p2}
    DeviceKeys = {k1, k2, k3}
    MaxDeaths = 3
    MaxFaults = 3
    Absent = Absent
SPECIFICATION MCSpec
CHECK_DEADLOCK FALSE
INVARIANTS
    ClocksInOrder
    QuiescentAgreement
    DeviceUnlockHonest
    AckedPassphraseOpens
PROPERTIES
    RecordsNeverRegress
    PassphraseUnlockReenrolls
