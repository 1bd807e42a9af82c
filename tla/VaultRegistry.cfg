CONSTANTS
    Vaults = {v1, v2}
    Personal = Personal
    Names = {Personal, n1, n2}
    n1 = n1
    n2 = n2
    Lower <- MCLower
    Hosts = {h1}
    Auths = {a1}
    Legacy = Legacy
    MaxStops = 2
    MaxFaults = 1
    None = None
SPECIFICATION Spec
CHECK_DEADLOCK FALSE
SYMMETRY MCSymmetry
INVARIANTS
    RegistrySound
    RestartKeepsRegistry
    IndexIsExact
    WindowsShowUnlockedOnly
