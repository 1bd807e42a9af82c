SPECIFICATION Spec
CONSTANTS
  v1 = v1
  v2 = v2
  h1 = h1
  h2 = h2
  c1 = c1
  c2 = c2
  k1 = k1
  k2 = k2
  t1 = t1
  t2 = t2
  None = None
  Vaults = {v1, v2}
  HostIds = {h1, h2}
  CredIds = {c1, c2}
  KeyIds = {k1, k2}
  TunnelIds = {t1, t2}
  Endpoints = {"local"}
  VaultOf <- MCVaultOf
  Stored <- MCStored
  MaxAuth = 1
  Encrypted = {k2}
  DefaultVault = v2
  MaxChanges = 2
INVARIANTS
  EditorsFollowRecords
  RefsResolve
  UniqueListenEndpoints
CHECK_DEADLOCK FALSE
