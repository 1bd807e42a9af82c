-------------------------- MODULE SecureEditorsProofs --------------------------
(* The records and the editors of the secure workspace, for any number of vaults,  *)
(* records and endpoints. First the records under RecSpec, where any window makes  *)
(* any call at any time: their references resolve and the listen endpoints of a    *)
(* host are distinct. Each property is preserved on its own: a step changes one    *)
(* kind of record, and the check that guards it covers every reference into or out *)
(* of that kind. Then the editors: every handler of a window makes at most one     *)
(* call of RecSpec, and what it shows is in step with the records or there is a    *)
(* snapshot on its way that is.                                                    *)
EXTENDS SecureEditors, TLAPS, SequenceTheorems, FiniteSetTheorems

-----------------------------------------------------------------------------
(* Records                                                                         *)

(* The references of one host resolve in its vault.                                *)
HostRefs(h) ==
  \A i \in DOMAIN hosts[h] :
    LET a == hosts[h][i] IN
    /\ a.key \in In(keys, VaultOf[h]) \union {None}
    /\ a.cred \in In(creds, VaultOf[h]) \union {None}
    /\ a # [key |-> None, cred |-> None]

TunnelHosts == \A t \in DOMAIN tunnels : tunnels[t].host \in In(DOMAIN hosts, VaultOf[t])

LEMMA RefsSplit == RefsResolve <=> TunnelHosts /\ \A h \in DOMAIN hosts : HostRefs(h)
  BY DEF RefsResolve, Resolve, TunnelHosts, HostRefs

(* A step that keeps the hosts and no referenced credential or key away.           *)
LEMMA HostRefsKept ==
  ASSUME RefsResolve, hosts' = hosts,
         \A h \in DOMAIN hosts : \A i \in DOMAIN hosts[h] :
           /\ hosts[h][i].key \in keys => hosts[h][i].key \in keys'
           /\ hosts[h][i].cred \in creds => hosts[h][i].cred \in creds'
  PROVE  \A h \in DOMAIN hosts' : HostRefs(h)'
  BY DEF RefsResolve, Resolve, HostRefs, In

LEMMA TunnelHostsKept ==
  ASSUME RefsResolve, hosts' = hosts, tunnels' = tunnels
  PROVE  TunnelHosts'
  BY DEF RefsResolve, Resolve, TunnelHosts, In

LEMMA StoreHostRefs ==
  ASSUME RefsResolve, NEW v, NEW id \in HostIds, NEW auth \in AuthOrders, StoreHost(v, id, auth)
  PROVE  RefsResolve'
<1>1. DOMAIN hosts' = DOMAIN hosts \union {id} /\ hosts'[id] = auth
      /\ \A x \in DOMAIN hosts : x # id => hosts'[x] = hosts[x]
  BY DEF StoreHost, Put
<1>2. UNCHANGED <<creds, keys, tunnels>>
  BY DEF StoreHost
<1>3. TunnelHosts'
  BY <1>1, <1>2 DEF RefsResolve, Resolve, TunnelHosts, In
<1>4. ASSUME NEW h \in DOMAIN hosts' PROVE HostRefs(h)'
  <2>1. CASE h # id
    BY <1>1, <1>2, <1>4, <2>1 DEF RefsResolve, Resolve, HostRefs, In
  <2>2. CASE h = id
    <3>1. \A i \in DOMAIN auth : AuthResolves(VaultOf[id], auth[i])
      BY DEF StoreHost, CanStoreHost, AuthOrderResolves
    <3>2. SUFFICES ASSUME NEW i \in DOMAIN auth
                   PROVE  /\ auth[i].key \in In(keys, VaultOf[id]) \union {None}
                          /\ auth[i].cred \in In(creds, VaultOf[id]) \union {None}
                          /\ auth[i] # [key |-> None, cred |-> None]
      BY <1>1, <1>2, <2>2 DEF HostRefs, In
    <3>3. QED BY <3>1, <3>2 DEF AuthResolves
  <2>3. QED BY <2>1, <2>2
<1>5. QED BY <1>3, <1>4, RefsSplit DEF RefsResolve, Resolve, TunnelHosts, HostRefs

LEMMA DeleteHostRefs ==
  ASSUME RefsResolve, NEW v, NEW id \in HostIds, DeleteHost(v, id)
  PROVE  RefsResolve'
<1>1. DOMAIN hosts' = DOMAIN hosts \ {id}
      /\ \A x \in DOMAIN hosts' : hosts'[x] = hosts[x]
  BY DEF DeleteHost, Drop
<1>2. UNCHANGED <<creds, keys, tunnels>> /\ \A t \in DOMAIN tunnels : tunnels[t].host # id
  BY DEF DeleteHost, CanDeleteHost
<1>3. TunnelHosts'
  BY <1>1, <1>2 DEF RefsResolve, Resolve, TunnelHosts, In
<1>4. \A h \in DOMAIN hosts' : HostRefs(h)'
  BY <1>1, <1>2 DEF RefsResolve, Resolve, HostRefs, In
<1>5. QED BY <1>3, <1>4 DEF RefsResolve, Resolve, TunnelHosts, HostRefs

(* Every operation of the store keeps the references whole.                        *)
LEMMA RefsResolveStep ==
  ASSUME RefsResolve, [RecNext]_recVars
  PROVE  RefsResolve'
<1>1. ASSUME NEW v \in Vaults, NEW id \in HostIds, NEW auth \in AuthOrders, StoreHost(v, id, auth)
      PROVE RefsResolve'
  BY <1>1, StoreHostRefs
<1>2. ASSUME NEW v \in Vaults, NEW id \in HostIds, DeleteHost(v, id) PROVE RefsResolve'
  BY <1>2, DeleteHostRefs
<1>3. ASSUME NEW v \in Vaults, NEW id \in CredIds,
             StoreCredential(v, id) \/ DeleteCredential(v, id)
      PROVE RefsResolve'
  <2>1. hosts' = hosts /\ tunnels' = tunnels /\ keys' = keys
    BY <1>3 DEF StoreCredential, DeleteCredential
  <2>2. \A h \in DOMAIN hosts : \A i \in DOMAIN hosts[h] :
          hosts[h][i].cred \in creds => hosts[h][i].cred \in creds'
    BY <1>3 DEF StoreCredential, DeleteCredential, CanDeleteCredential, CredentialUnreferenced
  <2>3. TunnelHosts' /\ \A h \in DOMAIN hosts' : HostRefs(h)'
    BY <2>1, <2>2, HostRefsKept, TunnelHostsKept
  <2>4. QED BY <2>3 DEF RefsResolve, Resolve, TunnelHosts, HostRefs
<1>4. ASSUME NEW v \in Vaults, NEW ids \in SUBSET KeyIds, StoreKeys(v, ids)
      PROVE RefsResolve'
  <2>1. hosts' = hosts /\ tunnels' = tunnels /\ creds' = creds /\ keys \subseteq keys'
    BY <1>4 DEF StoreKeys
  <2>2. TunnelHosts' /\ \A h \in DOMAIN hosts' : HostRefs(h)'
    BY <2>1, HostRefsKept, TunnelHostsKept
  <2>3. QED BY <2>2 DEF RefsResolve, Resolve, TunnelHosts, HostRefs
<1>5. ASSUME NEW v \in Vaults, NEW id \in KeyIds, DeleteKey(v, id) PROVE RefsResolve'
  <2>1. hosts' = hosts /\ tunnels' = tunnels /\ creds' = creds
    BY <1>5 DEF DeleteKey
  <2>2. \A h \in DOMAIN hosts : \A i \in DOMAIN hosts[h] :
          hosts[h][i].key \in keys => hosts[h][i].key \in keys'
    BY <1>5 DEF DeleteKey, CanDeleteKey, KeyUnreferenced
  <2>3. TunnelHosts' /\ \A h \in DOMAIN hosts' : HostRefs(h)'
    BY <2>1, <2>2, HostRefsKept, TunnelHostsKept
  <2>4. QED BY <2>3 DEF RefsResolve, Resolve, TunnelHosts, HostRefs
<1>6. ASSUME NEW v \in Vaults, NEW id \in TunnelIds, NEW h \in HostIds, NEW ep \in Endpoints,
             StoreTunnel(v, id, h, ep)
      PROVE RefsResolve'
  <2>1. hosts' = hosts /\ keys' = keys /\ creds' = creds
    BY <1>6 DEF StoreTunnel
  <2>2. DOMAIN tunnels' = DOMAIN tunnels \union {id} /\ tunnels'[id] = [host |-> h, ep |-> ep]
        /\ \A x \in DOMAIN tunnels : x # id => tunnels'[x] = tunnels[x]
    BY <1>6 DEF StoreTunnel, Put
  <2>3. h \in In(DOMAIN hosts, VaultOf[id])
    BY <1>6 DEF StoreTunnel, CanStoreTunnel
  <2>4. TunnelHosts'
    BY <2>1, <2>2, <2>3 DEF RefsResolve, Resolve, TunnelHosts, In
  <2>5. \A g \in DOMAIN hosts' : HostRefs(g)'
    BY <2>1, HostRefsKept
  <2>6. QED BY <2>4, <2>5 DEF RefsResolve, Resolve, TunnelHosts, HostRefs
<1>7. ASSUME NEW v \in Vaults, NEW id \in TunnelIds, DeleteTunnel(v, id) PROVE RefsResolve'
  <2>1. hosts' = hosts /\ keys' = keys /\ creds' = creds
    BY <1>7 DEF DeleteTunnel
  <2>2. DOMAIN tunnels' = DOMAIN tunnels \ {id}
        /\ \A x \in DOMAIN tunnels' : tunnels'[x] = tunnels[x]
    BY <1>7 DEF DeleteTunnel, Drop
  <2>3. TunnelHosts'
    BY <2>1, <2>2 DEF RefsResolve, Resolve, TunnelHosts, In
  <2>4. \A g \in DOMAIN hosts' : HostRefs(g)'
    BY <2>1, HostRefsKept
  <2>5. QED BY <2>3, <2>4 DEF RefsResolve, Resolve, TunnelHosts, HostRefs
<1>8. ASSUME UNCHANGED <<hosts, creds, keys, tunnels>> PROVE RefsResolve'
  BY <1>8 DEF RefsResolve, Resolve, In
<1>9. QED
  BY <1>1, <1>2, <1>3, <1>4, <1>5, <1>6, <1>7, <1>8 DEF RecNext, recVars, Lock, Unlock

(* A stored host never names a credential or key that is gone or of another vault, *)
(* and a port forward always has its host.                                         *)
THEOREM RecordRefsResolve == RecSpec => []RefsResolve
<1>1. RecInit => RefsResolve
  BY DEF RecInit, RefsResolve, Resolve, Empty
<1>2. QED BY <1>1, RefsResolveStep, PTL DEF RecSpec

LEMMA UniqueEndpointsStep ==
  ASSUME UniqueListenEndpoints, [RecNext]_recVars
  PROVE  UniqueListenEndpoints'
<1>1. ASSUME NEW v \in Vaults, NEW id \in TunnelIds, NEW h \in HostIds, NEW ep \in Endpoints,
             StoreTunnel(v, id, h, ep)
      PROVE UniqueListenEndpoints'
  <2>1. DOMAIN tunnels' = DOMAIN tunnels \union {id} /\ tunnels'[id] = [host |-> h, ep |-> ep]
        /\ \A x \in DOMAIN tunnels : x # id => tunnels'[x] = tunnels[x]
    BY <1>1 DEF StoreTunnel, Put
  <2>2. \A t \in DOMAIN tunnels \ {id} : ~(tunnels[t].host = h /\ tunnels[t].ep = ep)
    BY <1>1 DEF StoreTunnel, CanStoreTunnel, EndpointFree
  <2>3. QED BY <2>1, <2>2 DEF UniqueListenEndpoints, Distinct
<1>2. ASSUME NEW v \in Vaults, NEW id \in TunnelIds, DeleteTunnel(v, id)
      PROVE UniqueListenEndpoints'
  <2>1. DOMAIN tunnels' = DOMAIN tunnels \ {id}
        /\ \A x \in DOMAIN tunnels' : tunnels'[x] = tunnels[x]
    BY <1>2 DEF DeleteTunnel, Drop
  <2>2. QED BY <2>1 DEF UniqueListenEndpoints, Distinct
<1>3. ASSUME UNCHANGED tunnels PROVE UniqueListenEndpoints'
  BY <1>3 DEF UniqueListenEndpoints, Distinct
<1>4. QED
  BY <1>1, <1>2, <1>3
  DEF RecNext, recVars, StoreHost, DeleteHost, StoreCredential, DeleteCredential,
      StoreKeys, DeleteKey, Lock, Unlock

(* No two port forwards of a host listen on the same endpoint.                     *)
THEOREM RecordEndpointsUnique == RecSpec => []UniqueListenEndpoints
<1>1. RecInit => UniqueListenEndpoints
  BY DEF RecInit, UniqueListenEndpoints, Distinct, Empty
<1>2. QED BY <1>1, UniqueEndpointsStep, PTL DEF RecSpec

LEMMA RecTypeStep ==
  ASSUME RecTypeOK, [RecNext]_recVars
  PROVE  RecTypeOK'
<1> USE DEF RecTypeOK, RecordsTyped
<1>1. ASSUME NEW v \in Vaults, NEW id \in HostIds, NEW auth \in AuthOrders, StoreHost(v, id, auth)
      PROVE RecTypeOK'
  BY <1>1 DEF StoreHost, Put
<1>2. ASSUME NEW v \in Vaults, NEW id \in HostIds, DeleteHost(v, id) PROVE RecTypeOK'
  BY <1>2 DEF DeleteHost, Drop
<1>3. ASSUME NEW v \in Vaults, NEW id \in CredIds, StoreCredential(v, id) \/ DeleteCredential(v, id)
      PROVE RecTypeOK'
  BY <1>3 DEF StoreCredential, DeleteCredential
<1>4. ASSUME NEW v \in Vaults, NEW ids \in SUBSET KeyIds, StoreKeys(v, ids) PROVE RecTypeOK'
  BY <1>4 DEF StoreKeys
<1>5. ASSUME NEW v \in Vaults, NEW id \in KeyIds, DeleteKey(v, id) PROVE RecTypeOK'
  BY <1>5 DEF DeleteKey
<1>6. ASSUME NEW v \in Vaults, NEW id \in TunnelIds, NEW h \in HostIds, NEW ep \in Endpoints,
             StoreTunnel(v, id, h, ep)
      PROVE RecTypeOK'
  <2>1. [host |-> h, ep |-> ep] \in [host : HostIds, ep : Endpoints]
    OBVIOUS
  <2>2. QED BY <1>6, <2>1 DEF StoreTunnel, Put
<1>7. ASSUME NEW v \in Vaults, NEW id \in TunnelIds, DeleteTunnel(v, id) PROVE RecTypeOK'
  BY <1>7 DEF DeleteTunnel, Drop
<1>8. ASSUME NEW v \in Vaults, Unlock(v) \/ \E vs \in SUBSET Vaults : Lock(vs) PROVE RecTypeOK'
  BY <1>8 DEF Lock, Unlock
<1>9. CASE UNCHANGED recVars
  BY <1>9 DEF recVars
<1>10. QED BY <1>1, <1>2, <1>3, <1>4, <1>5, <1>6, <1>7, <1>8, <1>9 DEF RecNext

-----------------------------------------------------------------------------
(* The inductive invariant of a window                                             *)

HostDrafts == [vault : Vaults, id : HostIds \union {None}, auth : AuthOrders, dirty : BOOLEAN]
CredDrafts == [vault : Vaults, id : CredIds \union {None}, origin : Origins, dirty : BOOLEAN]
TunnelDrafts ==
  [vault : Vaults, id : TunnelIds \union {None}, host : HostIds, ep : Endpoints, dirty : BOOLEAN]

Pendings ==
  [kind : Sections \union {"close", "host", "tunnel", "newtunnel", "credential"},
   arg : HostIds \union CredIds \union TunnelIds \union {None}, origin : Origins]
Dialogs == [kind : {"discard", "blocked"}, pending : Pendings, host : HostIds \union {None}]

Windows ==
  [view : Sections \union {"terminal"}, dialog : Dialogs \union {None},
   host : HostDrafts \union {None}, tunnel : TunnelDrafts \union {None},
   cred : CredDrafts \union {None}, slot : 0 .. MaxAuth, snap : Snapshots \union {None}, list : Snapshots]

(* The lists l, when the vaults hold r.                                            *)
Current(l, r) ==
  /\ l.hosts = r.hosts /\ l.creds = r.creds /\ l.tunnels = r.tunnels /\ l.unlocked = r.unlocked
  /\ l.keys \subseteq r.keys

(* A draft is of an unlocked vault and of a record that is listed, or of none.     *)
Follows(d, ids, us) == d # None => d.vault \in us /\ (d.id # None => d.id \in ids)

Alone(u) == u.tunnel # None => u.host = None /\ u.cred = None

(* The window is in step with r, or a snapshot that is waits for its watcher.      *)
InStep(u, r) ==
  IF u.snap = None
  THEN /\ Current(u.list, r)
       /\ Follows(u.host, r.hosts, r.unlocked)
       /\ Follows(u.tunnel, r.tunnels, r.unlocked)
       /\ Follows(u.cred, r.creds, r.unlocked)
  ELSE Current(u.snap, r)

Sound(u, r) == u \in Windows /\ Alone(u) /\ InStep(u, r)

RecordsInv == RecTypeOK /\ RefsResolve /\ UniqueListenEndpoints

EditorsInv ==
  /\ RecordsInv
  /\ deleted \subseteq HostIds \union CredIds \union KeyIds \union TunnelIds
  /\ changes \in 0 .. MaxChanges
  /\ Sound(ui, Listed)

-----------------------------------------------------------------------------
(* Authentication orders                                                           *)

LEMMA OrdersAreSequences == AuthOrders = {s \in Seq(AuthRefs) : Len(s) <= MaxAuth}
<1>1. ASSUME NEW s \in AuthOrders PROVE s \in Seq(AuthRefs) /\ Len(s) <= MaxAuth
  <2>1. PICK n \in 0 .. MaxAuth : s \in [1 .. n -> AuthRefs]
    BY DEF AuthOrders
  <2>2. n \in Nat
    BY RecordsAssumption
  <2>3. QED BY <2>1, <2>2, RecordsAssumption
<1>2. ASSUME NEW s \in Seq(AuthRefs), Len(s) <= MaxAuth PROVE s \in AuthOrders
  <2>1. Len(s) \in 0 .. MaxAuth /\ s \in [1 .. Len(s) -> AuthRefs]
    BY <1>2, RecordsAssumption
  <2>2. QED BY <2>1 DEF AuthOrders
<1>3. QED BY <1>1, <1>2

LEMMA AppendedOrder ==
  ASSUME NEW s \in AuthOrders, NEW a \in AuthRefs, Len(s) < MaxAuth
  PROVE  Append(s, a) \in AuthOrders /\ Len(Append(s, a)) = Len(s) + 1
<1>1. s \in Seq(AuthRefs)
  BY OrdersAreSequences
<1>2. Append(s, a) \in Seq(AuthRefs) /\ Len(Append(s, a)) = Len(s) + 1 /\ Len(s) \in Nat
  BY <1>1
<1>3. QED BY <1>2, OrdersAreSequences, RecordsAssumption

LEMMA RemovedOrder ==
  ASSUME NEW s \in AuthOrders, NEW i \in DOMAIN s
  PROVE  Removed(s, i) \in AuthOrders
<1>1. s \in Seq(AuthRefs) /\ Len(s) <= MaxAuth /\ Len(s) \in Nat /\ i \in 1 .. Len(s)
  BY OrdersAreSequences
<1>2. SubSeq(s, 1, i - 1) \in Seq(AuthRefs) /\ Len(SubSeq(s, 1, i - 1)) = i - 1
  BY <1>1, SubSeqProperties
<1>3. SubSeq(s, i + 1, Len(s)) \in Seq(AuthRefs) /\ Len(SubSeq(s, i + 1, Len(s))) = Len(s) - i
  BY <1>1, SubSeqProperties
<1>4. Removed(s, i) \in Seq(AuthRefs) /\ Len(Removed(s, i)) = (i - 1) + (Len(s) - i)
  BY <1>2, <1>3, ConcatProperties DEF Removed
<1>5. QED BY <1>1, <1>4, OrdersAreSequences, RecordsAssumption

LEMMA UpdatedOrder ==
  ASSUME NEW s \in AuthOrders, NEW t, t \in [DOMAIN s -> AuthRefs]
  PROVE  t \in AuthOrders
  BY DEF AuthOrders

LEMMA SwappedOrder ==
  ASSUME NEW s \in AuthOrders, NEW i \in 1 .. (Len(s) - 1)
  PROVE  Swapped(s, i) \in AuthOrders
<1>1. s \in [DOMAIN s -> AuthRefs] /\ i \in DOMAIN s /\ i + 1 \in DOMAIN s
  BY OrdersAreSequences
<1>2. Swapped(s, i) \in [DOMAIN s -> AuthRefs]
  BY <1>1 DEF Swapped
<1>3. QED BY <1>2, UpdatedOrder

LEMMA PassphraseOrder ==
  ASSUME NEW s \in AuthOrders, NEW i \in DOMAIN s, NEW c \in CredIds \union {None}
  PROVE  [s EXCEPT ![i].cred = c] \in AuthOrders
<1>1. s \in [DOMAIN s -> AuthRefs]
  BY OrdersAreSequences
<1>2. [s[i] EXCEPT !.cred = c] \in AuthRefs
  BY <1>1 DEF AuthRefs
<1>3. [s EXCEPT ![i].cred = c] \in [DOMAIN s -> AuthRefs]
  BY <1>1, <1>2
<1>4. QED BY <1>3, UpdatedOrder

-----------------------------------------------------------------------------
(* Snapshots and reconciled drafts                                                     *)

(* What is listed is what unlocked vaults hold; port forwards have their host.     *)
LEMMA ListVaultRecords ==
  ASSUME NEW hs, NEW cs, NEW ks, NEW ts, NEW us, RecordsTyped(hs, cs, ks, ts), us \subseteq Vaults,
         Resolve(hs, cs, ks, ts)
  PROVE  LET l == ListVault(hs, cs, ks, ts, us) IN
         /\ l \in Snapshots
         /\ l.hosts = {h \in DOMAIN hs : VaultOf[h] \in us}
         /\ l.creds = {c \in cs : VaultOf[c] \in us}
         /\ l.keys = {k \in ks : VaultOf[k] \in us}
         /\ l.tunnels = {t \in DOMAIN ts : VaultOf[t] \in us}
         /\ l.unlocked = us
<1> DEFINE l == ListVault(hs, cs, ks, ts, us)
<1> USE DEF ListHosts, ListCredentials, ListKeys, ListPortForwards, OfUnlocked
<1>1. /\ l.hosts = {h \in DOMAIN hs : VaultOf[h] \in us}
      /\ l.creds = {c \in cs : VaultOf[c] \in us}
      /\ l.keys = {k \in ks : VaultOf[k] \in us}
      /\ l.unlocked = us
  BY DEF ListVault
<1>2. l.tunnels = {t \in DOMAIN ts : VaultOf[t] \in us}
  <2>1. l.tunnels = {t \in {x \in DOMAIN ts : VaultOf[x] \in us} : ts[t].host \in DOMAIN hs}
    BY DEF ListVault
  <2>2. \A t \in DOMAIN ts : ts[t].host \in DOMAIN hs
    BY DEF Resolve, In
  <2>3. QED BY <2>1, <2>2
<1>3. l \in Snapshots
  BY DEF ListVault, Snapshots, RecordsTyped
<1>4. QED BY <1>1, <1>2, <1>3

LEMMA ListedRecords ==
  ASSUME RecordsInv
  PROVE  /\ Listed \in Snapshots
         /\ Listed.hosts = {h \in DOMAIN hosts : VaultOf[h] \in unlocked}
         /\ Listed.creds = {c \in creds : VaultOf[c] \in unlocked}
         /\ Listed.keys = {k \in keys : VaultOf[k] \in unlocked}
         /\ Listed.tunnels = {t \in DOMAIN tunnels : VaultOf[t] \in unlocked}
         /\ Listed.unlocked = unlocked
  BY ListVaultRecords DEF RecordsInv, RecTypeOK, RefsResolve, Listed

(* After a call of the record API.                                                 *)
LEMMA ListedNextRecords ==
  ASSUME RecordsInv, RecNext
  PROVE  /\ RecordsInv'
         /\ ListedNext \in Snapshots
         /\ ListedNext.hosts = {h \in DOMAIN hosts' : VaultOf[h] \in unlocked'}
         /\ ListedNext.creds = {c \in creds' : VaultOf[c] \in unlocked'}
         /\ ListedNext.keys = {k \in keys' : VaultOf[k] \in unlocked'}
         /\ ListedNext.tunnels = {t \in DOMAIN tunnels' : VaultOf[t] \in unlocked'}
         /\ ListedNext.unlocked = unlocked'
<1>1. RecordsInv'
  BY RecTypeStep, RefsResolveStep, UniqueEndpointsStep DEF RecordsInv
<1>2. /\ RecordsTyped(hosts', creds', keys', tunnels') /\ unlocked' \subseteq Vaults
      /\ Resolve(hosts', creds', keys', tunnels')
  BY <1>1 DEF RecordsInv, RecTypeOK, RefsResolve
<1>3. QED BY <1>1, <1>2, ListVaultRecords DEF ListedNext

LEMMA ReconciledHost ==
  ASSUME NEW d \in HostDrafts \union {None}, NEW l \in Snapshots
  PROVE  LET e == Reconcile(d, l, l.hosts) IN
         /\ e \in HostDrafts \union {None} /\ Follows(e, l.hosts, l.unlocked)
         /\ d = None => e = None
         /\ e # None => d # None /\ e.vault = d.vault /\ e.auth = d.auth
         /\ d # None /\ d.vault \in l.unlocked => e \in HostDrafts /\ e.vault = d.vault /\ e.auth = d.auth
  BY DEF Reconcile, HostDrafts, Follows

LEMMA ReconciledTunnel ==
  ASSUME NEW d \in TunnelDrafts \union {None}, NEW l \in Snapshots
  PROVE  LET e == Reconcile(d, l, l.tunnels) IN
         /\ e \in TunnelDrafts \union {None} /\ Follows(e, l.tunnels, l.unlocked)
         /\ d = None => e = None
         /\ d # None /\ d.vault \in l.unlocked => e \in TunnelDrafts /\ e.vault = d.vault
  BY DEF Reconcile, TunnelDrafts, Follows

LEMMA ReconciledCred ==
  ASSUME NEW d \in CredDrafts \union {None}, NEW l \in Snapshots
  PROVE  LET e == Reconcile(d, l, l.creds) IN
         /\ e \in CredDrafts \union {None} /\ Follows(e, l.creds, l.unlocked)
         /\ d = None => e = None
         /\ d # None /\ d.vault \in l.unlocked =>
              e \in CredDrafts /\ e.vault = d.vault /\ e.origin = d.origin
  BY DEF Reconcile, CredDrafts, Follows

(* A snapshot that is current leaves a window in step.                             *)
LEMMA AppliedSound ==
  ASSUME NEW u \in Windows, Alone(u), NEW l \in Snapshots, NEW r \in Snapshots, Current(l, r)
  PROVE  LET w == [ApplySnapshot(u, l) EXCEPT !.snap = None] IN
         /\ Sound(w, r)
         /\ w.view = u.view /\ w.dialog = u.dialog /\ w.slot = u.slot /\ w.snap = None /\ w.list = l
         /\ w.host = Reconcile(u.host, l, l.hosts)
         /\ w.tunnel = Reconcile(u.tunnel, l, l.tunnels)
         /\ w.cred = Reconcile(u.cred, l, l.creds)
<1> DEFINE w == [ApplySnapshot(u, l) EXCEPT !.snap = None]
<1>1. /\ w.view = u.view /\ w.dialog = u.dialog /\ w.slot = u.slot /\ w.snap = None /\ w.list = l
      /\ w.host = Reconcile(u.host, l, l.hosts)
      /\ w.tunnel = Reconcile(u.tunnel, l, l.tunnels)
      /\ w.cred = Reconcile(u.cred, l, l.creds)
  BY DEF ApplySnapshot, Windows
<1>2. /\ u.host \in HostDrafts \union {None} /\ u.tunnel \in TunnelDrafts \union {None}
      /\ u.cred \in CredDrafts \union {None}
  BY DEF Windows
<1>3. /\ Reconcile(u.host, l, l.hosts) \in HostDrafts \union {None}
      /\ Follows(Reconcile(u.host, l, l.hosts), l.hosts, l.unlocked)
      /\ u.host = None => Reconcile(u.host, l, l.hosts) = None
  BY <1>2, ReconciledHost
<1>4. /\ Reconcile(u.tunnel, l, l.tunnels) \in TunnelDrafts \union {None}
      /\ Follows(Reconcile(u.tunnel, l, l.tunnels), l.tunnels, l.unlocked)
      /\ u.tunnel = None => Reconcile(u.tunnel, l, l.tunnels) = None
  BY <1>2, ReconciledTunnel
<1>5. /\ Reconcile(u.cred, l, l.creds) \in CredDrafts \union {None}
      /\ Follows(Reconcile(u.cred, l, l.creds), l.creds, l.unlocked)
      /\ u.cred = None => Reconcile(u.cred, l, l.creds) = None
  BY <1>2, ReconciledCred
<1>6. w \in Windows
  BY <1>3, <1>4, <1>5 DEF ApplySnapshot, Windows
<1>7. Alone(w) /\ InStep(w, r)
  <2> HIDE DEF w
  <2>1. l.hosts = r.hosts /\ l.tunnels = r.tunnels /\ l.creds = r.creds /\ l.unlocked = r.unlocked
    BY DEF Current
  <2>2. Alone(w)
    BY <1>1, <1>3, <1>4, <1>5 DEF Alone
  <2>3. InStep(w, r)
    BY <1>1, <1>3, <1>4, <1>5, <2>1 DEF InStep
  <2>4. QED BY <2>2, <2>3
<1>8. QED BY <1>1, <1>6, <1>7 DEF Sound

-----------------------------------------------------------------------------
(* The handlers that open, edit and close drafts                                   *)

(* A handler that leaves lists and drafts alone.                                   *)
LEMMA FrameSound ==
  ASSUME NEW r, NEW u, Sound(u, r), NEW w \in Windows,
         w.host = u.host, w.tunnel = u.tunnel, w.cred = u.cred, w.snap = u.snap, w.list = u.list
  PROVE  Sound(w, r)
  BY DEF Sound, Alone, InStep

LEMMA ViewSound ==
  ASSUME NEW r, NEW u, Sound(u, r), NEW s \in Sections \union {"terminal"}
  PROVE  Sound([u EXCEPT !.view = s], r)
<1>1. u \in Windows
  BY DEF Sound
<1>2. Sound([u EXCEPT !.view = s], r)
  <2> DEFINE w == [u EXCEPT !.view = s]
  <2>1. w \in Windows /\ w.host = u.host /\ w.tunnel = u.tunnel /\ w.cred = u.cred
        /\ w.snap = u.snap /\ w.list = u.list
    BY <1>1 DEF Windows
  <2> HIDE DEF w
  <2>2. Sound(w, r)
    BY <2>1, FrameSound
  <2>3. QED BY <2>2 DEF w
<1>3. QED BY <1>2

LEMMA DialogSound ==
  ASSUME NEW r, NEW u, Sound(u, r), NEW g \in Dialogs \union {None}
  PROVE  Sound([u EXCEPT !.dialog = g], r)
<1>1. u \in Windows
  BY DEF Sound
<1>2. Sound([u EXCEPT !.dialog = g], r)
  <2> DEFINE w == [u EXCEPT !.dialog = g]
  <2>1. w \in Windows /\ w.host = u.host /\ w.tunnel = u.tunnel /\ w.cred = u.cred
        /\ w.snap = u.snap /\ w.list = u.list
    BY <1>1 DEF Windows
  <2> HIDE DEF w
  <2>2. Sound(w, r)
    BY <2>1, FrameSound
  <2>3. QED BY <2>2 DEF w
<1>3. QED BY <1>2

LEMMA SlotSound ==
  ASSUME NEW r, NEW u, Sound(u, r), NEW n \in 0 .. MaxAuth
  PROVE  Sound([u EXCEPT !.slot = n], r)
<1>1. u \in Windows
  BY DEF Sound
<1>2. Sound([u EXCEPT !.slot = n], r)
  <2> DEFINE w == [u EXCEPT !.slot = n]
  <2>1. w \in Windows /\ w.host = u.host /\ w.tunnel = u.tunnel /\ w.cred = u.cred
        /\ w.snap = u.snap /\ w.list = u.list
    BY <1>1 DEF Windows
  <2> HIDE DEF w
  <2>2. Sound(w, r)
    BY <2>1, FrameSound
  <2>3. QED BY <2>2 DEF w
<1>3. QED BY <1>2

LEMMA OpenSecureSound ==
  ASSUME NEW r, NEW u, Sound(u, r), NEW s \in Sections
  PROVE  Sound(OpenSecure(u, s), r)
<1>1. u \in Windows
  BY DEF Sound
<1>2. Sound([u EXCEPT !.view = s, !.dialog = None], r)
  <2> DEFINE w == [u EXCEPT !.view = s, !.dialog = None]
  <2>1. w \in Windows /\ w.host = u.host /\ w.tunnel = u.tunnel /\ w.cred = u.cred
        /\ w.snap = u.snap /\ w.list = u.list
    BY <1>1 DEF Windows
  <2> HIDE DEF w
  <2>2. Sound(w, r)
    BY <2>1, FrameSound
  <2>3. QED BY <2>2 DEF w
<1>3. QED BY <1>2 DEF OpenSecure

(* Editing a draft that is open.                                                   *)
LEMMA HostEditSound ==
  ASSUME NEW r, NEW u, Sound(u, r), u.host # None,
         NEW d \in HostDrafts, d.vault = u.host.vault, d.id = u.host.id
  PROVE  Sound([u EXCEPT !.host = d], r)
<1>1. u \in Windows /\ u.tunnel = None
  BY DEF Sound, Alone
<1> DEFINE w == [u EXCEPT !.host = d]
<1>2. w \in Windows /\ w.host = d /\ w.tunnel = u.tunnel /\ w.cred = u.cred
      /\ w.snap = u.snap /\ w.list = u.list
  BY <1>1 DEF Windows
<1> HIDE DEF w
<1>3. Sound(w, r)
  BY <1>1, <1>2 DEF Sound, Alone, InStep, Follows
<1>4. QED BY <1>3 DEF w

LEMMA TunnelEditSound ==
  ASSUME NEW r, NEW u, Sound(u, r), u.tunnel # None,
         NEW d \in TunnelDrafts, d.vault = u.tunnel.vault, d.id = u.tunnel.id
  PROVE  Sound([u EXCEPT !.tunnel = d], r)
<1>1. u \in Windows /\ u.host = None /\ u.cred = None
  BY DEF Sound, Alone
<1> DEFINE w == [u EXCEPT !.tunnel = d]
<1>2. w \in Windows /\ w.tunnel = d /\ w.host = u.host /\ w.cred = u.cred
      /\ w.snap = u.snap /\ w.list = u.list
  BY <1>1 DEF Windows
<1> HIDE DEF w
<1>3. Sound(w, r)
  BY <1>1, <1>2 DEF Sound, Alone, InStep, Follows
<1>4. QED BY <1>3 DEF w

LEMMA CredEditSound ==
  ASSUME NEW r, NEW u, Sound(u, r), u.cred # None,
         NEW d \in CredDrafts, d.vault = u.cred.vault, d.id = u.cred.id
  PROVE  Sound([u EXCEPT !.cred = d], r)
<1>1. u \in Windows /\ u.tunnel = None
  BY DEF Sound, Alone
<1> DEFINE w == [u EXCEPT !.cred = d]
<1>2. w \in Windows /\ w.cred = d /\ w.host = u.host /\ w.tunnel = u.tunnel
      /\ w.snap = u.snap /\ w.list = u.list
  BY <1>1 DEF Windows
<1> HIDE DEF w
<1>3. Sound(w, r)
  BY <1>1, <1>2 DEF Sound, Alone, InStep, Follows
<1>4. QED BY <1>3 DEF w

LEMMA WithAuthSound ==
  ASSUME NEW r, NEW u, Sound(u, r), u.host # None, NEW auth \in AuthOrders
  PROVE  /\ Sound(WithAuth(u, auth), r)
         /\ WithAuth(u, auth).host \in HostDrafts /\ WithAuth(u, auth).host.auth = auth
         /\ WithAuth(u, auth).host.vault = u.host.vault
         /\ WithAuth(u, auth).slot = u.slot
<1>1. u \in Windows /\ u.host \in HostDrafts
  BY DEF Sound, Windows
<1> DEFINE d == [u.host EXCEPT !.auth = auth, !.dirty = TRUE]
<1>2. d \in HostDrafts /\ d.vault = u.host.vault /\ d.id = u.host.id /\ d.auth = auth
  BY <1>1 DEF HostDrafts
<1>3. WithAuth(u, auth) = [u EXCEPT !.host = d]
  BY <1>1 DEF WithAuth, Windows, HostDrafts
<1> HIDE DEF d
<1>4. [u EXCEPT !.host = d].host = d /\ [u EXCEPT !.host = d].slot = u.slot
  BY <1>1 DEF Windows
<1>5. Sound([u EXCEPT !.host = d], r)
  BY <1>2, HostEditSound
<1>6. QED BY <1>2, <1>3, <1>4, <1>5

LEMMA PushedSound ==
  ASSUME NEW r, NEW u, Sound(u, r), u.host # None, NEW a \in AuthRefs, Len(u.host.auth) < MaxAuth
  PROVE  /\ Sound(Pushed(u, a), r)
         /\ Pushed(u, a).host \in HostDrafts /\ Pushed(u, a).slot = u.slot
         /\ Len(Pushed(u, a).host.auth) = Len(u.host.auth) + 1
         /\ Pushed(u, a).host.vault = u.host.vault
<1>1. u.host.auth \in AuthOrders
  BY DEF Sound, Windows, HostDrafts
<1> DEFINE auth == Append(u.host.auth, a)
<1>2. auth \in AuthOrders /\ Len(auth) = Len(u.host.auth) + 1
  BY <1>1, AppendedOrder
<1>3. Pushed(u, a) = WithAuth(u, auth)
  BY DEF Pushed
<1> HIDE DEF auth
<1>4. /\ Sound(WithAuth(u, auth), r)
      /\ WithAuth(u, auth).host \in HostDrafts /\ WithAuth(u, auth).host.auth = auth
      /\ WithAuth(u, auth).host.vault = u.host.vault
      /\ WithAuth(u, auth).slot = u.slot
  BY <1>2, WithAuthSound
<1>5. QED BY <1>2, <1>3, <1>4

LEMMA WithPassphraseSound ==
  ASSUME NEW r, NEW u, Sound(u, r), u.host # None, NEW i \in DOMAIN u.host.auth,
         NEW c \in CredIds \union {None}
  PROVE  Sound(WithPassphrase(u, i, c), r)
<1>1. u \in Windows /\ u.host \in HostDrafts /\ u.host.auth \in AuthOrders
  BY DEF Sound, Windows, HostDrafts
<1> DEFINE auth == [u.host.auth EXCEPT ![i].cred = c]
<1>2. auth \in AuthOrders
  BY <1>1, PassphraseOrder
<1>3. WithPassphrase(u, i, c) = WithAuth(u, auth)
  BY <1>1 DEF WithPassphrase, WithAuth, Windows, HostDrafts
<1> HIDE DEF auth
<1>4. Sound(WithAuth(u, auth), r)
  BY <1>2, WithAuthSound
<1>5. QED BY <1>3, <1>4

Cleared(u, s) ==
  [u EXCEPT !.dialog = None, !.host = None, !.tunnel = None, !.cred = None, !.slot = 0, !.view = s]

LEMMA ClearedSound ==
  ASSUME NEW r, NEW u, Sound(u, r), NEW s \in Sections \union {"terminal"}
  PROVE  Sound(Cleared(u, s), r)
<1> DEFINE w == Cleared(u, s)
<1>1. u \in Windows /\ 0 \in 0 .. MaxAuth
  BY RecordsAssumption DEF Sound
<1>2. w \in Windows /\ w.host = None /\ w.tunnel = None /\ w.cred = None /\ w.snap = u.snap /\ w.list = u.list
  BY <1>1 DEF Windows, Cleared
<1> HIDE DEF w
<1>3. Sound(w, r)
  BY <1>2 DEF Sound, Alone, InStep, Follows
<1>4. QED BY <1>3 DEF w

-----------------------------------------------------------------------------
(* Activating a draft                                                              *)

LEMMA DefaultTargetUnlocked ==
  ASSUME NEW l \in Snapshots
  PROVE  DefaultTarget(l) = None \/ DefaultTarget(l) \in l.unlocked
  BY DEF DefaultTarget

LEMMA ListedIsCurrent == Current(Listed, Listed)
  BY DEF Current

LEMMA ActivateHostSound ==
  ASSUME RecordsInv, NEW u, Sound(u, Listed), NEW h
  PROVE  Sound(ActivateHost(u, h), Listed)
<1> DEFINE shown == [u EXCEPT !.view = "hosts", !.list = Listed]
           target == DefaultTarget(Listed)
           loads == h \in DOMAIN hosts /\ VaultOf[h] \in unlocked
           d == IF h = None THEN BlankHost(target) ELSE IF loads THEN HostOf(h) ELSE None
           w == [shown EXCEPT !.tunnel = None, !.cred = None, !.dialog = None, !.host = d]
<1>1. u \in Windows /\ Listed \in Snapshots /\ Current(Listed, Listed)
  BY ListedRecords, ListedIsCurrent DEF Sound
<1>2. shown \in Windows /\ shown.host = u.host /\ shown.tunnel = u.tunnel /\ shown.cred = u.cred
      /\ shown.snap = u.snap /\ shown.list = Listed
  BY <1>1 DEF Windows, Sections
<1>3. Sound(shown, Listed)
  <2> HIDE DEF shown
  <2>1. QED BY <1>1, <1>2 DEF Sound, Alone, InStep
<1>4. CASE h = None /\ target = None
  BY <1>3, <1>4 DEF ActivateHost
<1>5. CASE ~(h = None /\ target = None)
  <2>1. d \in HostDrafts \union {None} /\ Follows(d, Listed.hosts, Listed.unlocked)
    <3>1. CASE h = None
      <4>1. target \in Listed.unlocked /\ target \in Vaults
        BY <1>1, <1>5, <3>1, DefaultTargetUnlocked DEF Snapshots
      <4>2. <<>> \in AuthOrders
        BY OrdersAreSequences, RecordsAssumption
      <4> HIDE DEF target
      <4>3. BlankHost(target) \in HostDrafts /\ Follows(BlankHost(target), Listed.hosts, Listed.unlocked)
        BY <4>1, <4>2 DEF BlankHost, HostDrafts, Follows
      <4>4. QED BY <3>1, <4>3
    <3>2. CASE h # None /\ loads
      <4>1. h \in HostIds /\ VaultOf[h] \in Vaults /\ hosts[h] \in AuthOrders /\ h \in Listed.hosts
            /\ VaultOf[h] \in Listed.unlocked
        BY <3>2, ListedRecords, RecordsAssumption DEF RecordsInv, RecTypeOK, RecordsTyped
      <4>2. HostOf(h) \in HostDrafts /\ Follows(HostOf(h), Listed.hosts, Listed.unlocked)
        BY <4>1 DEF HostOf, HostDrafts, Follows
      <4>3. QED BY <3>2, <4>2
    <3>3. CASE h # None /\ ~loads
      BY <3>3 DEF Follows
    <3>4. QED BY <3>1, <3>2, <3>3
  <2>2. ActivateHost(u, h) = w
    BY <1>5 DEF ActivateHost
  <2>3. w \in Windows /\ w.host = d /\ w.tunnel = None /\ w.cred = None /\ w.snap = u.snap /\ w.list = Listed
    <3> HIDE DEF shown, d
    <3>1. QED BY <1>2, <2>1 DEF Windows
  <2>4. Sound(w, Listed)
    <3> HIDE DEF w, d
    <3>1. QED BY <1>1, <2>1, <2>3 DEF Sound, Alone, InStep, Follows
  <2>5. QED BY <2>2, <2>4
<1>6. QED BY <1>4, <1>5

LEMMA ActivateTunnelSound ==
  ASSUME RecordsInv, NEW u, Sound(u, Listed), NEW t
  PROVE  Sound(ActivateTunnel(u, t), Listed)
<1> DEFINE loads == t \in DOMAIN tunnels /\ VaultOf[t] \in unlocked
           d == IF loads THEN TunnelOf(t) ELSE None
           w == [u EXCEPT !.view = "tunnels", !.list = Listed, !.host = None, !.cred = None,
                          !.dialog = None, !.tunnel = d]
<1>1. u \in Windows /\ Listed \in Snapshots /\ Current(Listed, Listed)
  BY ListedRecords, ListedIsCurrent DEF Sound
<1>2. d \in TunnelDrafts \union {None} /\ Follows(d, Listed.tunnels, Listed.unlocked)
  <2>1. CASE loads
    <3>1. t \in TunnelIds /\ VaultOf[t] \in Vaults /\ tunnels[t] \in [host : HostIds, ep : Endpoints]
          /\ t \in Listed.tunnels /\ VaultOf[t] \in Listed.unlocked
      BY <2>1, ListedRecords, RecordsAssumption DEF RecordsInv, RecTypeOK, RecordsTyped
    <3>2. TunnelOf(t) \in TunnelDrafts /\ Follows(TunnelOf(t), Listed.tunnels, Listed.unlocked)
      BY <3>1 DEF TunnelOf, TunnelDrafts, Follows
    <3>3. QED BY <2>1, <3>2
  <2>2. CASE ~loads
    BY <2>2 DEF Follows
  <2>3. QED BY <2>1, <2>2
<1>3. ActivateTunnel(u, t) = w
  BY DEF ActivateTunnel
<1>4. w \in Windows /\ w.host = None /\ w.tunnel = d /\ w.cred = None /\ w.snap = u.snap /\ w.list = Listed
  <2> HIDE DEF d
  <2>1. QED BY <1>1, <1>2 DEF Windows, Sections
<1>5. Sound(w, Listed)
  <2> HIDE DEF w, d
  <2>1. QED BY <1>1, <1>2, <1>4 DEF Sound, Alone, InStep, Follows
<1>6. QED BY <1>3, <1>5

LEMMA ActivateTunnelForSound ==
  ASSUME RecordsInv, NEW u, Sound(u, Listed), NEW h, NEW ep \in Endpoints
  PROVE  Sound(ActivateTunnelFor(u, h, ep), Listed)
<1> DEFINE shown == [u EXCEPT !.view = "tunnels", !.list = Listed, !.host = None, !.cred = None]
           d == BlankTunnel(h, ep)
           w == [shown EXCEPT !.tunnel = d, !.dialog = None]
<1>1. u \in Windows /\ Listed \in Snapshots /\ Current(Listed, Listed)
  BY ListedRecords, ListedIsCurrent DEF Sound
<1>2. shown \in Windows /\ shown.host = None /\ shown.tunnel = u.tunnel /\ shown.cred = None
      /\ shown.snap = u.snap /\ shown.list = Listed
  BY <1>1 DEF Windows, Sections
<1>3. Sound(shown, Listed)
  <2> HIDE DEF shown
  <2>1. QED BY <1>1, <1>2 DEF Sound, Alone, InStep, Follows
<1>4. CASE h \notin Listed.hosts
  BY <1>3, <1>4 DEF ActivateTunnelFor
<1>5. CASE h \in Listed.hosts
  <2>1. h \in HostIds /\ VaultOf[h] \in Vaults /\ VaultOf[h] \in Listed.unlocked
    BY <1>1, <1>5, ListedRecords, RecordsAssumption DEF Snapshots
  <2>2. d \in TunnelDrafts /\ Follows(d, Listed.tunnels, Listed.unlocked)
    BY <2>1 DEF BlankTunnel, TunnelDrafts, Follows
  <2>3. ActivateTunnelFor(u, h, ep) = w
    BY <1>5 DEF ActivateTunnelFor
  <2>4. w \in Windows /\ w.host = None /\ w.tunnel = d /\ w.cred = None /\ w.snap = u.snap /\ w.list = Listed
    <3> HIDE DEF shown, d
    <3>1. QED BY <1>2, <2>2 DEF Windows
  <2>5. Sound(w, Listed)
    <3> HIDE DEF w, d
    <3>1. QED BY <1>1, <2>2, <2>4 DEF Sound, Alone, InStep, Follows
  <2>6. QED BY <2>3, <2>5
<1>6. QED BY <1>4, <1>5

(* c and o as in ActivateCredential; r is what the vaults hold when it ends, which *)
(* may have a key more than the state it begins in.                                *)
LEMMA ActivateCredentialSound ==
  ASSUME RecordsInv, NEW r \in Snapshots, r.creds = Listed.creds, r.unlocked = unlocked,
         NEW u, Sound(u, r), NEW c, NEW o \in Origins
  PROVE  Sound(ActivateCredential(u, c, o, r), r)
<1> DEFINE list == [r EXCEPT !.hosts = u.list.hosts]
           slot == IF o = "standalone" THEN 0 ELSE u.slot
           shown == [u EXCEPT !.view = "credentials", !.list = list, !.slot = slot]
           target == IF o = "hostauth" /\ u.host # None THEN u.host.vault ELSE DefaultTarget(r)
           loads == c \in creds /\ VaultOf[c] \in unlocked
           d == IF c = None THEN BlankCredential(target, o) ELSE IF loads THEN CredentialOf(c, o) ELSE None
           w == [shown EXCEPT !.tunnel = None, !.dialog = None, !.cred = d]
<1>1. u \in Windows /\ u.list \in Snapshots /\ u.slot \in 0 .. MaxAuth /\ 0 \in 0 .. MaxAuth
  BY RecordsAssumption DEF Sound, Windows
<1>2. list \in Snapshots /\ (u.snap = None => Current(list, r))
  BY <1>1 DEF Snapshots, Sound, InStep, Current
<1>3. slot \in 0 .. MaxAuth
  BY <1>1
<1>4. shown \in Windows /\ shown.host = u.host /\ shown.tunnel = u.tunnel /\ shown.cred = u.cred
      /\ shown.snap = u.snap /\ shown.list = list
  <2> HIDE DEF list, slot
  <2>1. QED BY <1>1, <1>2, <1>3 DEF Windows, Sections
<1>5. Sound(shown, r)
  <2> HIDE DEF shown, list
  <2>1. QED BY <1>2, <1>4 DEF Sound, Alone, InStep
<1>6. CASE c = None /\ target = None
  BY <1>5, <1>6 DEF ActivateCredential
<1>7. CASE ~(c = None /\ target = None)
  <2>1. d \in CredDrafts \union {None} /\ (u.snap = None => Follows(d, r.creds, r.unlocked))
    <3>1. CASE c = None
      <4>1. target \in Vaults /\ (u.snap = None => target \in r.unlocked)
        <5>1. CASE o = "hostauth" /\ u.host # None
          BY <1>1, <5>1 DEF Windows, HostDrafts, Sound, InStep, Follows
        <5>2. CASE ~(o = "hostauth" /\ u.host # None)
          BY <1>7, <3>1, <5>2, DefaultTargetUnlocked DEF Snapshots
        <5>3. QED BY <5>1, <5>2
      <4> HIDE DEF target
      <4>2. BlankCredential(target, o) \in CredDrafts
            /\ (u.snap = None => Follows(BlankCredential(target, o), r.creds, r.unlocked))
        BY <4>1 DEF BlankCredential, CredDrafts, Follows
      <4>3. QED BY <3>1, <4>2
    <3>2. CASE c # None /\ loads
      <4>1. c \in CredIds /\ VaultOf[c] \in Vaults /\ c \in r.creds /\ VaultOf[c] \in r.unlocked
        BY <3>2, ListedRecords, RecordsAssumption DEF RecordsInv, RecTypeOK, RecordsTyped
      <4>2. CredentialOf(c, o) \in CredDrafts /\ Follows(CredentialOf(c, o), r.creds, r.unlocked)
        BY <4>1 DEF CredentialOf, CredDrafts, Follows
      <4>3. QED BY <3>2, <4>2
    <3>3. CASE c # None /\ ~loads
      BY <3>3 DEF Follows
    <3>4. QED BY <3>1, <3>2, <3>3
  <2>2. ActivateCredential(u, c, o, r) = w
    BY <1>7 DEF ActivateCredential
  <2>3. w \in Windows /\ w.host = u.host /\ w.tunnel = None /\ w.cred = d /\ w.snap = u.snap /\ w.list = list
    <3> HIDE DEF shown, d, list
    <3>1. QED BY <1>4, <2>1 DEF Windows
  <2>4. Sound(w, r)
    <3> HIDE DEF w, d, list
    <3>1. QED BY <1>2, <2>1, <2>3 DEF Sound, Alone, InStep, Follows
  <2>5. QED BY <2>2, <2>4
<1>8. QED BY <1>6, <1>7

LEMMA ApplySound ==
  ASSUME RecordsInv, NEW u, Sound(u, Listed), NEW p \in Pendings
  PROVE  Sound(Apply(u, p), Listed)
<1> DEFINE v == [u EXCEPT !.dialog = None]
<1>1. Sound(v, Listed)
  <2>1. None \in Dialogs \union {None}
    OBVIOUS
  <2>2. QED BY <2>1, DialogSound
<1>2. p.kind \in Sections \union {"close", "host", "tunnel", "newtunnel", "credential"} /\ p.origin \in Origins
  BY DEF Pendings
<1>3. CASE p.kind = "close"
  <2>1. Sound(Cleared(u, "terminal"), Listed)
    BY ClearedSound
  <2>2. Apply(u, p) = Cleared(u, "terminal")
    BY <1>3 DEF Apply, Sections, Cleared
  <2>3. QED BY <2>1, <2>2
<1>4. CASE p.kind \in Sections
  <2>1. Sound(Cleared(u, p.kind), Listed)
    BY <1>4, ClearedSound
  <2>2. Apply(u, p) = Cleared(u, p.kind)
    BY <1>4 DEF Apply, Sections, Cleared
  <2>3. QED BY <2>1, <2>2
<1> HIDE DEF v
<1>5. CASE p.kind = "host"
  <2>1. Apply(u, p) = ActivateHost(v, p.arg)
    BY <1>5 DEF Apply, Sections, v
  <2>2. QED BY <1>1, <2>1, ActivateHostSound
<1>6. CASE p.kind = "tunnel"
  <2>1. Apply(u, p) = ActivateTunnel(v, p.arg)
    BY <1>6 DEF Apply, Sections, v
  <2>2. QED BY <1>1, <2>1, ActivateTunnelSound
<1>7. CASE p.kind = "newtunnel"
  <2>1. Apply(u, p) = ActivateTunnelFor(v, p.arg, FirstEndpoint)
    BY <1>7 DEF Apply, Sections, v
  <2>2. FirstEndpoint \in Endpoints
    BY EditorsAssumption DEF FirstEndpoint
  <2>3. QED BY <1>1, <2>1, <2>2, ActivateTunnelForSound
<1>8. CASE p.kind = "credential"
  <2>1. Apply(u, p) = ActivateCredential(v, p.arg, p.origin, Listed)
    BY <1>8 DEF Apply, Sections, v
  <2>2. Listed \in Snapshots /\ Listed.unlocked = unlocked
    BY ListedRecords
  <2>3. QED BY <1>1, <1>2, <2>1, <2>2, ActivateCredentialSound
<1>9. QED BY <1>2, <1>3, <1>4, <1>5, <1>6, <1>7, <1>8

LEMMA RequestSound ==
  ASSUME RecordsInv, NEW u, Sound(u, Listed), NEW p \in Pendings
  PROVE  Sound(Request(u, p), Listed)
<1>1. Discard(p) \in Dialogs \union {None}
  BY DEF Discard, Dialogs
<1>2. Sound([u EXCEPT !.dialog = Discard(p)], Listed)
  BY <1>1, DialogSound
<1>3. Sound(Apply(u, p), Listed)
  BY ApplySound
<1>4. QED BY <1>2, <1>3 DEF Request

-----------------------------------------------------------------------------
(* What a step does besides                                                        *)

LEMMA ShowStep ==
  ASSUME EditorsInv, NEW u, Sound(u, Listed), Show(u)
  PROVE  EditorsInv' /\ UNCHANGED recVars
<1>1. UNCHANGED <<hosts, creds, keys, tunnels, unlocked, deleted, changes>> /\ ui' = u
  BY DEF Show, recVars
<1>2. Listed' = Listed
  BY <1>1 DEF Listed
<1>3. RecordsInv'
  BY <1>1 DEF EditorsInv, RecordsInv, RecTypeOK, RefsResolve, UniqueListenEndpoints
<1>4. QED BY <1>1, <1>2, <1>3 DEF EditorsInv, recVars

LEMMA ChangeStep ==
  ASSUME EditorsInv, RecNext, Counted, Sound(ui', ListedNext)
  PROVE  EditorsInv'
<1>1. RecordsInv'
  BY ListedNextRecords DEF EditorsInv
<1>2. Listed' = ListedNext
  BY DEF Listed, ListedNext
<1>3. changes' \in 0 .. MaxChanges
  BY EditorsAssumption DEF EditorsInv, Counted
<1>4. StoredIds \subseteq HostIds \union CredIds \union KeyIds \union TunnelIds
  BY DEF EditorsInv, RecordsInv, RecTypeOK, RecordsTyped, StoredIds
<1>5. deleted' \subseteq HostIds \union CredIds \union KeyIds \union TunnelIds
  BY <1>4 DEF EditorsInv, Counted
<1>6. QED BY <1>1, <1>2, <1>3, <1>5 DEF EditorsInv

LEMMA RefreshedSound ==
  ASSUME RecordsInv, RecNext, NEW r, NEW u, Sound(u, r)
  PROVE  /\ Sound(Refreshed(u), ListedNext)
         /\ Refreshed(u).view = u.view /\ Refreshed(u).slot = u.slot /\ Refreshed(u).snap = None
         /\ Refreshed(u).host = Reconcile(u.host, ListedNext, ListedNext.hosts)
         /\ Refreshed(u).tunnel = Reconcile(u.tunnel, ListedNext, ListedNext.tunnels)
         /\ Refreshed(u).cred = Reconcile(u.cred, ListedNext, ListedNext.creds)
<1>1. u \in Windows /\ Alone(u) /\ ListedNext \in Snapshots /\ Current(ListedNext, ListedNext)
  BY ListedNextRecords DEF Sound, Current
<1>2. QED BY <1>1, AppliedSound DEF Refreshed

LEMMA RefreshedHost ==
  ASSUME RecordsInv, RecNext, NEW r, NEW u, Sound(u, r), Refreshed(u).host # None
  PROVE  u.host # None /\ Refreshed(u).host.auth = u.host.auth /\ Refreshed(u).host.vault = u.host.vault
<1>1. u.host \in HostDrafts \union {None} /\ ListedNext \in Snapshots
  BY ListedNextRecords DEF Sound, Windows
<1>2. Refreshed(u).host = Reconcile(u.host, ListedNext, ListedNext.hosts)
  BY RefreshedSound
<1>3. QED BY <1>1, <1>2, ReconciledHost

(* A new or a known id of the right kind.                                          *)
LEMMA IdForTyped ==
  ASSUME NEW S, NEW d, d.id \in S \union {None}, NEW id \in IdFor(d, S)
  PROVE  id \in S
  BY DEF IdFor, Unused, In

(* A change whose window only takes the new lists.                                 *)
LEMMA RefreshStep ==
  ASSUME EditorsInv, RecNext, Counted, ui' = Refreshed(ui)
  PROVE  EditorsInv'
  BY RefreshedSound, ChangeStep DEF EditorsInv

-----------------------------------------------------------------------------
(* One lemma per group of handlers                                                 *)

(* What a step keeps.                                                              *)
Kept == EditorsInv' /\ (RecNext \/ UNCHANGED recVars)

LEMMA Shown ==
  ASSUME EditorsInv, NEW u, Sound(u, Listed), Show(u)
  PROVE  Kept
  BY ShowStep DEF Kept

LEMMA UiSound ==
  ASSUME EditorsInv
  PROVE  /\ RecordsInv /\ Sound(ui, Listed) /\ ui \in Windows
         /\ Listed \in Snapshots /\ Listed.unlocked = unlocked
  BY ListedRecords DEF EditorsInv, Sound

LEMMA PendingTyped ==
  /\ CloseWorkspace \in Pendings
  /\ \A s \in Sections : SwitchSection(s) \in Pendings
  /\ \A h \in HostIds \union {None} : OpenHost(h) \in Pendings
  /\ \A t \in TunnelIds : OpenTunnel(t) \in Pendings
  /\ \A h \in HostIds : OpenTunnelFor(h) \in Pendings
  /\ \A c \in CredIds \union {None}, o \in Origins : OpenCredential(c, o) \in Pendings
<1> USE DEF Pending, Pendings, Origins
<1>1. CloseWorkspace \in Pendings
  BY DEF CloseWorkspace
<1>2. \A s \in Sections : SwitchSection(s) \in Pendings
  BY DEF SwitchSection
<1>3. \A h \in HostIds \union {None} : OpenHost(h) \in Pendings
  BY DEF OpenHost
<1>4. \A t \in TunnelIds : OpenTunnel(t) \in Pendings
  BY DEF OpenTunnel
<1>5. \A h \in HostIds : OpenTunnelFor(h) \in Pendings
  BY DEF OpenTunnelFor
<1>6. \A c \in CredIds \union {None}, o \in Origins : OpenCredential(c, o) \in Pendings
  BY DEF OpenCredential
<1>7. QED BY <1>1, <1>2, <1>3, <1>4, <1>5, <1>6

LEMMA Requested ==
  ASSUME EditorsInv, NEW p \in Pendings, Show(Request(ui, p))
  PROVE  Kept
  BY UiSound, RequestSound, Shown

LEMMA NavigateStep ==
  ASSUME EditorsInv, Navigate
  PROVE  Kept
<1>1. CASE CloseSecureWorkspace
  BY <1>1, PendingTyped, Requested DEF CloseSecureWorkspace
<1>2. ASSUME NEW s \in Sections, SwitchTab(s) PROVE Kept
  BY <1>2, PendingTyped, Requested DEF SwitchTab
<1>3. ASSUME NEW s \in {"credentials", "tunnels"}, OpenVaultPanel(s) PROVE Kept
  <2>1. s \in Sections
    BY DEF Sections
  <2>2. QED BY <1>3, <2>1, UiSound, OpenSecureSound, Shown DEF OpenVaultPanel
<1>4. ASSUME NEW c, PaletteCredential(c) PROVE Kept
  <2> DEFINE u == OpenSecure(ui, "credentials")
  <2>1. Sound(u, Listed)
    BY UiSound, OpenSecureSound DEF Sections
  <2>2. "standalone" \in Origins
    BY DEF Origins
  <2>3. Show(ActivateCredential(u, c, "standalone", Listed))
    BY <1>4 DEF PaletteCredential
  <2> HIDE DEF u
  <2>4. Sound(ActivateCredential(u, c, "standalone", Listed), Listed)
    BY <2>1, <2>2, UiSound, ActivateCredentialSound
  <2>5. QED BY <2>3, <2>4, Shown
<1>5. ASSUME NEW h, OpenHostTunnelSettings(h) PROVE Kept
  BY <1>5, UiSound, ActivateHostSound, Shown DEF OpenHostTunnelSettings
<1>6. CASE CancelConfirmDialog
  <2>1. None \in Dialogs \union {None}
    OBVIOUS
  <2>2. Sound([ui EXCEPT !.dialog = None], Listed)
    BY <2>1, UiSound, DialogSound
  <2>3. QED BY <1>6, <2>2, Shown DEF CancelConfirmDialog
<1>7. CASE ConfirmDialogPrimary
  <2>1. ui.dialog \in Dialogs /\ ui.dialog.pending \in Pendings
    BY <1>7, UiSound DEF ConfirmDialogPrimary, Windows, Dialogs
  <2>2. CASE ui.dialog.kind = "discard"
    <3>1. Show(Apply(ui, ui.dialog.pending))
      BY <1>7, <2>2 DEF ConfirmDialogPrimary
    <3>2. QED BY <2>1, <3>1, UiSound, ApplySound, Shown
  <2>3. CASE ui.dialog.kind # "discard"
    <3> DEFINE u == OpenSecure(ui, "hosts")
    <3>1. Show(ActivateHost(u, ui.dialog.host))
      BY <1>7, <2>3 DEF ConfirmDialogPrimary
    <3>2. Sound(u, Listed)
      BY UiSound, OpenSecureSound DEF Sections
    <3> HIDE DEF u
    <3>3. QED BY <3>1, <3>2, UiSound, ActivateHostSound, Shown
  <2>4. QED BY <2>2, <2>3
<1>8. QED BY <1>1, <1>2, <1>3, <1>4, <1>5, <1>6, <1>7 DEF Navigate

LEMMA TunnelListStep ==
  ASSUME EditorsInv, TunnelList
  PROVE  Kept
<1>1. ASSUME NEW h \in HostIds, BeginAddTunnel(h) PROVE Kept
  BY <1>1, PendingTyped, Requested DEF BeginAddTunnel
<1>2. ASSUME NEW t \in TunnelIds, BeginEditTunnel(t) PROVE Kept
  BY <1>2, PendingTyped, Requested DEF BeginEditTunnel
<1>3. QED BY <1>1, <1>2 DEF TunnelList

LEMMA TunnelEditorStep ==
  ASSUME EditorsInv, TunnelEditor
  PROVE  Kept
<1>1. ASSUME NEW ep \in Endpoints, EditTunnelField(ep) PROVE Kept
  <2> DEFINE d == [ui.tunnel EXCEPT !.ep = ep, !.dirty = TRUE]
  <2>1. ui \in Windows /\ ui.tunnel # None /\ ui.tunnel \in TunnelDrafts
    BY <1>1, UiSound DEF EditTunnelField, Windows
  <2>2. d \in TunnelDrafts /\ d.vault = ui.tunnel.vault /\ d.id = ui.tunnel.id
    BY <2>1 DEF TunnelDrafts
  <2>3. [ui EXCEPT !.tunnel.ep = ep, !.tunnel.dirty = TRUE] = [ui EXCEPT !.tunnel = d]
    BY <2>1 DEF Windows, TunnelDrafts
  <2>4. Show([ui EXCEPT !.tunnel = d])
    BY <1>1, <2>3 DEF EditTunnelField
  <2> HIDE DEF d
  <2>5. Sound([ui EXCEPT !.tunnel = d], Listed)
    BY <2>1, <2>2, UiSound, TunnelEditSound
  <2>6. QED BY <2>4, <2>5, Shown
<1>2. CASE SaveTunnelDraft
  <2>1. ui.tunnel # None /\ ui.tunnel \in TunnelDrafts /\ ui.tunnel.id \in TunnelIds \union {None}
        /\ ui.tunnel.vault \in Vaults /\ ui.tunnel.host \in HostIds /\ ui.tunnel.ep \in Endpoints
    BY <1>2, UiSound DEF SaveTunnelDraft, Edited, Windows, TunnelDrafts
  <2>2. PICK id \in IdFor(ui.tunnel, TunnelIds) :
          /\ StoreTunnel(ui.tunnel.vault, id, ui.tunnel.host, ui.tunnel.ep)
          /\ Counted
          /\ ui' = [Refreshed(ui) EXCEPT !.tunnel.id = id, !.tunnel.dirty = FALSE]
    BY <1>2 DEF SaveTunnelDraft
  <2>3. id \in TunnelIds
    BY <2>1, <2>2, IdForTyped
  <2>4. RecNext
    BY <2>1, <2>2, <2>3 DEF RecNext
  <2>5. id \in ListedNext.tunnels /\ ui.tunnel.vault \in ListedNext.unlocked /\ ListedNext \in Snapshots
    <3>1. id \in DOMAIN tunnels' /\ VaultOf[id] \in unlocked' /\ ui.tunnel.vault \in unlocked'
      BY <2>2 DEF StoreTunnel, CanStoreTunnel, Put
    <3>2. QED BY <3>1, <2>4, UiSound, ListedNextRecords
  <2> DEFINE u == Refreshed(ui)
             d == [u.tunnel EXCEPT !.id = id, !.dirty = FALSE]
             w == [u EXCEPT !.tunnel = d]
  <2>6. /\ Sound(u, ListedNext) /\ u.snap = None
        /\ u.tunnel \in TunnelDrafts /\ u.tunnel.vault = ui.tunnel.vault
    BY <2>1, <2>4, <2>5, UiSound, RefreshedSound, ReconciledTunnel
  <2>7. u.host = None /\ u.cred = None
    <3>1. ui.host = None /\ ui.cred = None
      BY <2>1, UiSound DEF Sound, Alone
    <3>2. u.host = Reconcile(ui.host, ListedNext, ListedNext.hosts)
          /\ u.cred = Reconcile(ui.cred, ListedNext, ListedNext.creds)
      BY <2>4, UiSound, RefreshedSound
    <3>3. QED BY <3>1, <3>2 DEF Reconcile
  <2>8. ui' = w
    BY <2>2, <2>6 DEF Sound, Windows, TunnelDrafts
  <2> HIDE DEF u
  <2>9. d \in TunnelDrafts /\ d.id = id /\ d.vault = ui.tunnel.vault
    BY <2>3, <2>6 DEF TunnelDrafts
  <2> HIDE DEF d
  <2>10. w \in Windows /\ w.tunnel = d /\ w.host = None /\ w.cred = None /\ w.snap = None /\ w.list = u.list
    BY <2>6, <2>7, <2>9 DEF Sound, Windows
  <2> HIDE DEF w
  <2>11. Sound(w, ListedNext)
    BY <2>5, <2>6, <2>9, <2>10 DEF Sound, Alone, InStep, Follows
  <2>12. QED BY <2>2, <2>4, <2>8, <2>11, ChangeStep DEF Kept
<1>3. CASE DeleteSavedTunnel
  <2>1. ui.tunnel.vault \in Vaults /\ ui.tunnel.id \in TunnelIds
    BY <1>3, UiSound DEF DeleteSavedTunnel, Windows, TunnelDrafts
  <2>2. RecNext
    BY <1>3, <2>1 DEF DeleteSavedTunnel, RecNext
  <2>3. QED BY <1>3, <2>2, RefreshStep DEF DeleteSavedTunnel, Kept
<1>4. QED BY <1>1, <1>2, <1>3 DEF TunnelEditor

LEMMA SaveHostStep ==
  ASSUME EditorsInv, NEW connect \in BOOLEAN, SaveHostDraft(connect)
  PROVE  Kept
<1>1. ui.host # None /\ ui.host \in HostDrafts /\ ui.host.id \in HostIds \union {None}
      /\ ui.host.vault \in Vaults /\ ui.host.auth \in AuthOrders
  BY UiSound DEF SaveHostDraft, Edited, Windows, HostDrafts
<1>2. PICK id \in IdFor(ui.host, HostIds) :
        /\ StoreHost(ui.host.vault, id, ui.host.auth)
        /\ Counted
        /\ ui' = [Refreshed(ui) EXCEPT !.host.id = id, !.host.dirty = FALSE,
                                       !.view = IF connect THEN "terminal" ELSE @]
  BY DEF SaveHostDraft
<1>3. id \in HostIds
  BY <1>1, <1>2, IdForTyped
<1>4. RecNext
  BY <1>1, <1>2, <1>3 DEF RecNext
<1>5. id \in ListedNext.hosts /\ ui.host.vault \in ListedNext.unlocked /\ ListedNext \in Snapshots
  <2>1. id \in DOMAIN hosts' /\ VaultOf[id] \in unlocked' /\ ui.host.vault \in unlocked'
    BY <1>2 DEF StoreHost, CanStoreHost, Put
  <2>2. QED BY <1>4, <2>1, UiSound, ListedNextRecords
<1> DEFINE u == Refreshed(ui)
           d == [u.host EXCEPT !.id = id, !.dirty = FALSE]
           view == IF connect THEN "terminal" ELSE u.view
           w == [u EXCEPT !.host = d, !.view = view]
<1>6. /\ Sound(u, ListedNext) /\ u.snap = None
      /\ u.host \in HostDrafts /\ u.host.vault = ui.host.vault
  BY <1>1, <1>4, <1>5, UiSound, RefreshedSound, ReconciledHost
<1>7. u.tunnel = None
  <2>1. ui.tunnel = None
    BY <1>1, UiSound DEF Sound, Alone
  <2>2. u.tunnel = Reconcile(ui.tunnel, ListedNext, ListedNext.tunnels)
    BY <1>4, UiSound, RefreshedSound
  <2>3. QED BY <2>1, <2>2 DEF Reconcile
<1>8. ui' = w
  BY <1>2, <1>6 DEF Sound, Windows, HostDrafts
<1> HIDE DEF u
<1>9. d \in HostDrafts /\ d.id = id /\ d.vault = ui.host.vault
  BY <1>3, <1>6 DEF HostDrafts
<1>10. view \in Sections \union {"terminal"}
  BY <1>6 DEF Sound, Windows
<1> HIDE DEF d, view
<1>11. w \in Windows /\ w.host = d /\ w.tunnel = None /\ w.cred = u.cred /\ w.snap = None /\ w.list = u.list
  BY <1>6, <1>7, <1>9, <1>10 DEF Sound, Windows
<1> HIDE DEF w
<1>12. Sound(w, ListedNext)
  BY <1>5, <1>6, <1>9, <1>11 DEF Sound, Alone, InStep, Follows
<1>13. QED BY <1>2, <1>4, <1>8, <1>12, ChangeStep DEF Kept

LEMMA AuthBuilderStep ==
  ASSUME EditorsInv, HostAuthBuilder
  PROVE  Kept
<1>1. ui.host # None /\ ui.host.auth \in AuthOrders
  BY UiSound DEF HostAuthBuilder, EditingAuth, Windows, HostDrafts
<1>2. ASSUME NEW a \in AuthRefs, AddAuth(a) PROVE Kept
  <2>1. Sound(Pushed(ui, a), Listed)
    BY <1>1, <1>2, UiSound, PushedSound DEF AddAuth
  <2>2. QED BY <1>2, <2>1, Shown DEF AddAuth
<1>3. ASSUME NEW c \in CredIds, AddAuthPassword(c) PROVE Kept
  <2>1. Password(c) \in AuthRefs
    BY DEF Password, AuthRefs
  <2>2. QED BY <1>2, <1>3, <2>1 DEF AddAuthPassword
<1>4. ASSUME NEW k \in KeyIds, AddAuthKey(k) PROVE Kept
  <2>1. PrivateKey(k, None) \in AuthRefs
    BY DEF PrivateKey, AuthRefs
  <2>2. QED BY <1>2, <1>4, <2>1 DEF AddAuthKey
<1>5. CASE RearrangeAuth
  <2>1. PICK new \in {Removed(ui.host.auth, i) : i \in DOMAIN ui.host.auth}
                     \union {Swapped(ui.host.auth, i) : i \in 1..(Len(ui.host.auth) - 1)} :
          Show(WithAuth(ui, new))
    BY <1>5 DEF RearrangeAuth
  <2>2. new \in AuthOrders
    BY <1>1, <2>1, RemovedOrder, SwappedOrder
  <2>3. Sound(WithAuth(ui, new), Listed)
    BY <1>1, <2>2, UiSound, WithAuthSound
  <2>4. QED BY <2>1, <2>3, Shown
<1>6. ASSUME NEW i \in 1..MaxAuth, NEW c \in CredIds \union {None}, SetAuthPassphrase(i, c) PROVE Kept
  <2>1. Sound(WithPassphrase(ui, i, c), Listed)
    BY <1>1, <1>6, UiSound, WithPassphraseSound DEF SetAuthPassphrase
  <2>2. QED BY <1>6, <2>1, Shown DEF SetAuthPassphrase
<1>7. QED BY <1>3, <1>4, <1>5, <1>6 DEF HostAuthBuilder

LEMMA HostEditorStep ==
  ASSUME EditorsInv, HostEditor
  PROVE  Kept
<1>1. CASE BeginAddHost
  BY <1>1, UiSound, ActivateHostSound, Shown DEF BeginAddHost
<1>2. CASE EditHostField
  <2> DEFINE d == [ui.host EXCEPT !.dirty = TRUE]
  <2>1. ui \in Windows /\ ui.host # None /\ ui.host \in HostDrafts
    BY <1>2, UiSound DEF EditHostField, Windows
  <2>2. d \in HostDrafts /\ d.vault = ui.host.vault /\ d.id = ui.host.id
    BY <2>1 DEF HostDrafts
  <2>3. [ui EXCEPT !.host.dirty = TRUE] = [ui EXCEPT !.host = d]
    BY <2>1 DEF Windows, HostDrafts
  <2>4. Show([ui EXCEPT !.host = d])
    BY <1>2, <2>3 DEF EditHostField
  <2> HIDE DEF d
  <2>5. Sound([ui EXCEPT !.host = d], Listed)
    BY <2>1, <2>2, UiSound, HostEditSound
  <2>6. QED BY <2>4, <2>5, Shown
<1>3. CASE ConnectAfterRefusedSave
  <2>1. Sound([ui EXCEPT !.view = "terminal"], Listed)
    BY UiSound, ViewSound
  <2>2. QED BY <1>3, <2>1, Shown DEF ConnectAfterRefusedSave
<1>4. CASE OpenQuickCreateCredential
  <2> DEFINE u == [ui EXCEPT !.slot = 0]
             p == OpenCredential(None, "hostauth")
  <2>1. p \in Pendings
    BY PendingTyped DEF Origins
  <2>2. Sound(u, Listed)
    BY UiSound, SlotSound, RecordsAssumption
  <2>3. Show(Request(u, p))
    BY <1>4 DEF OpenQuickCreateCredential
  <2> HIDE DEF u, p
  <2>4. QED BY <2>1, <2>2, <2>3, UiSound, RequestSound, Shown
<1>5. ASSUME NEW h \in HostIds, DeleteSavedHost(h) PROVE Kept
  <2>1. VaultOf[h] \in Vaults
    BY RecordsAssumption
  <2>2. RecNext
    BY <1>5, <2>1 DEF DeleteSavedHost, RecNext
  <2>3. QED BY <1>5, <2>2, RefreshStep DEF DeleteSavedHost, Kept
<1>6. QED BY <1>1, <1>2, <1>3, <1>4, <1>5, SaveHostStep, AuthBuilderStep DEF HostEditor

LEMMA AttachSavedSound ==
  ASSUME NEW r, NEW u, Sound(u, r), NEW c \in CredIds,
         u.host # None => Waits(u) \/ Len(u.host.auth) < MaxAuth
  PROVE  Sound(AttachSaved(u, c), r)
<1> DEFINE v == [u EXCEPT !.cred = None, !.view = "hosts"]
           taken == [v EXCEPT !.slot = 0]
<1>1. u \in Windows
  BY DEF Sound
<1>2. v \in Windows /\ v.host = u.host /\ v.tunnel = u.tunnel /\ v.cred = None
      /\ v.snap = u.snap /\ v.list = u.list
  BY <1>1 DEF Windows, Sections
<1> HIDE DEF v
<1>3. Sound(v, r)
  BY <1>2 DEF Sound, Alone, InStep, Follows
<1>4. taken.host = u.host
  BY <1>2 DEF Windows
<1>5. Sound(taken, r)
  BY <1>3, SlotSound, RecordsAssumption
<1> HIDE DEF taken
<1>6. CASE u.host = None \/ u.host.vault # VaultOf[c]
  BY <1>3, <1>6 DEF AttachSaved, v
<1>7. CASE ~(u.host = None \/ u.host.vault # VaultOf[c]) /\ Waits(u)
  <2>1. AttachSaved(u, c) = WithPassphrase(taken, u.slot, c)
    BY <1>7 DEF AttachSaved, v, taken
  <2>2. QED BY <1>4, <1>5, <1>7, <2>1, WithPassphraseSound DEF Waits
<1>8. CASE ~(u.host = None \/ u.host.vault # VaultOf[c]) /\ ~Waits(u)
  <2>1. AttachSaved(u, c) = Pushed(taken, Password(c))
    BY <1>8 DEF AttachSaved, v, taken
  <2>2. Password(c) \in AuthRefs
    BY DEF Password, AuthRefs
  <2>3. QED BY <1>4, <1>5, <1>8, <2>1, <2>2, PushedSound
<1>9. QED BY <1>6, <1>7, <1>8

LEMMA SaveCredentialStep ==
  ASSUME EditorsInv, SaveCredentialDraft
  PROVE  Kept
<1>1. ui.cred # None /\ ui.cred \in CredDrafts /\ ui.cred.id \in CredIds \union {None}
      /\ ui.cred.vault \in Vaults
  BY UiSound DEF SaveCredentialDraft, Edited, Windows, CredDrafts
<1>2. PICK id \in IdFor(ui.cred, CredIds) :
        /\ StoreCredential(ui.cred.vault, id)
        /\ Counted
        /\ ui' = IF ui.cred.origin = "hostauth" THEN AttachSaved(Refreshed(ui), id)
                 ELSE [Refreshed(ui) EXCEPT !.cred.id = id, !.cred.dirty = FALSE]
  BY DEF SaveCredentialDraft
<1>3. id \in CredIds
  BY <1>1, <1>2, IdForTyped
<1>4. RecNext
  BY <1>1, <1>2, <1>3 DEF RecNext
<1>5. id \in ListedNext.creds /\ ui.cred.vault \in ListedNext.unlocked /\ ListedNext \in Snapshots
  <2>1. id \in creds' /\ VaultOf[id] \in unlocked' /\ ui.cred.vault \in unlocked'
    BY <1>2 DEF StoreCredential, CanStoreCredential
  <2>2. QED BY <1>4, <2>1, UiSound, ListedNextRecords
<1> DEFINE u == Refreshed(ui)
<1>6. /\ Sound(u, ListedNext) /\ u.snap = None /\ u.slot = ui.slot
      /\ u.cred \in CredDrafts /\ u.cred.vault = ui.cred.vault
  BY <1>1, <1>4, <1>5, UiSound, RefreshedSound, ReconciledCred
<1>7. CASE ui.cred.origin = "hostauth"
  <2>1. u.host # None => ui.host # None /\ u.host.auth = ui.host.auth
    BY <1>4, UiSound, RefreshedHost
  <2>2. ui.host # None => Waits(ui) \/ Len(ui.host.auth) < MaxAuth
    BY <1>7 DEF SaveCredentialDraft
  <2>3. u.host # None => Waits(u) \/ Len(u.host.auth) < MaxAuth
    BY <1>6, <2>1, <2>2 DEF Waits
  <2>4. ui' = AttachSaved(u, id)
    BY <1>2, <1>7
  <2> HIDE DEF u
  <2>5. Sound(AttachSaved(u, id), ListedNext)
    BY <1>3, <1>6, <2>3, AttachSavedSound
  <2>6. QED BY <1>2, <1>4, <2>4, <2>5, ChangeStep DEF Kept
<1>8. CASE ui.cred.origin # "hostauth"
  <2> DEFINE d == [u.cred EXCEPT !.id = id, !.dirty = FALSE]
             w == [u EXCEPT !.cred = d]
  <2>1. ui' = w
    BY <1>2, <1>6, <1>8 DEF Sound, Windows, CredDrafts
  <2>2. u.tunnel = None
    <3>1. ui.tunnel = None
      BY <1>1, UiSound DEF Sound, Alone
    <3>2. u.tunnel = Reconcile(ui.tunnel, ListedNext, ListedNext.tunnels)
      BY <1>4, UiSound, RefreshedSound
    <3>3. QED BY <3>1, <3>2 DEF Reconcile
  <2> HIDE DEF u
  <2>3. d \in CredDrafts /\ d.id = id /\ d.vault = ui.cred.vault
    BY <1>3, <1>6 DEF CredDrafts
  <2> HIDE DEF d
  <2>4. w \in Windows /\ w.cred = d /\ w.tunnel = None /\ w.host = u.host /\ w.snap = None /\ w.list = u.list
    BY <1>6, <2>2, <2>3 DEF Sound, Windows
  <2> HIDE DEF w
  <2>5. Sound(w, ListedNext)
    BY <1>5, <1>6, <2>3, <2>4 DEF Sound, Alone, InStep, Follows
  <2>6. QED BY <1>2, <1>4, <2>1, <2>5, ChangeStep DEF Kept
<1>9. QED BY <1>7, <1>8

LEMMA BlockedStep ==
  ASSUME EditorsInv, NEW field, NEW id, NEW h \in Referencing(field, id), Show([ui EXCEPT !.dialog = Blocked(h)])
  PROVE  Kept
<1>1. h \in HostIds
  BY UiSound DEF Referencing, RecordsInv, RecTypeOK, RecordsTyped
<1>2. Blocked(h) \in Dialogs \union {None}
  BY <1>1, PendingTyped DEF Blocked, Dialogs
<1>3. Sound([ui EXCEPT !.dialog = Blocked(h)], Listed)
  BY <1>2, UiSound, DialogSound
<1>4. QED BY <1>3, Shown

LEMMA HostDraftForSound ==
  ASSUME EditorsInv, NEW v, NEW u \in HostDraftFor(v)
  PROVE  Sound(u, Listed)
  BY UiSound, ActivateHostSound DEF HostDraftFor

LEMMA CredentialEditorStep ==
  ASSUME EditorsInv, CredentialEditor
  PROVE  Kept
<1>1. CASE EditCredentialField
  <2> DEFINE d == [ui.cred EXCEPT !.dirty = TRUE]
  <2>1. ui \in Windows /\ ui.cred # None /\ ui.cred \in CredDrafts
    BY <1>1, UiSound DEF EditCredentialField, Windows
  <2>2. d \in CredDrafts /\ d.vault = ui.cred.vault /\ d.id = ui.cred.id
    BY <2>1 DEF CredDrafts
  <2>3. [ui EXCEPT !.cred.dirty = TRUE] = [ui EXCEPT !.cred = d]
    BY <2>1 DEF Windows, CredDrafts
  <2>4. Show([ui EXCEPT !.cred = d])
    BY <1>1, <2>3 DEF EditCredentialField
  <2> HIDE DEF d
  <2>5. Sound([ui EXCEPT !.cred = d], Listed)
    BY <2>1, <2>2, UiSound, CredEditSound
  <2>6. QED BY <2>4, <2>5, Shown
<1>2. ASSUME NEW c \in CredIds, AttemptDeleteCredential(c) PROVE Kept
  <2>1. CASE Referencing("cred", c) # {}
    <3>1. PICK h \in Referencing("cred", c) : Show([ui EXCEPT !.dialog = Blocked(h)])
      BY <1>2, <2>1 DEF AttemptDeleteCredential, AttemptDelete
    <3>2. QED BY <3>1, BlockedStep
  <2>2. CASE Referencing("cred", c) = {}
    <3>1. DeleteCredential(VaultOf[c], c) /\ Counted /\ ui' = Refreshed(ui)
      BY <1>2, <2>2 DEF AttemptDeleteCredential, AttemptDelete
    <3>2. VaultOf[c] \in Vaults
      BY RecordsAssumption
    <3>3. RecNext
      BY <3>1, <3>2 DEF RecNext
    <3>4. QED BY <3>1, <3>3, RefreshStep DEF Kept
  <2>3. QED BY <2>1, <2>2
<1>3. CASE EditingSavedCredential /\ (AttachCredentialPassword \/ AttachCredentialPassphrase)
  <2>1. ui.cred.id \in CredIds
    BY <1>3, UiSound DEF EditingSavedCredential, Windows, CredDrafts
  <2>2. CASE AttachCredentialPassword
    <3>1. PICK u \in HostDraftFor(ui.cred.vault) :
            /\ u.host # None => Len(u.host.auth) < MaxAuth
            /\ Show(IF u.host = None THEN u
                    ELSE [Pushed(u, Password(ui.cred.id)) EXCEPT !.view = "hosts"])
      BY <2>2 DEF AttachCredentialPassword
    <3>2. Sound(u, Listed)
      BY <3>1, HostDraftForSound
    <3>3. CASE u.host = None
      BY <3>1, <3>2, <3>3, Shown
    <3>4. CASE u.host # None
      <4> DEFINE w == Pushed(u, Password(ui.cred.id))
      <4>1. Password(ui.cred.id) \in AuthRefs
        BY <2>1 DEF Password, AuthRefs
      <4>2. Sound(w, Listed)
        BY <3>1, <3>2, <3>4, <4>1, PushedSound
      <4>3. Show([w EXCEPT !.view = "hosts"])
        BY <3>1, <3>4
      <4> HIDE DEF w
      <4>4. "hosts" \in Sections \union {"terminal"}
        BY DEF Sections
      <4>5. Sound([w EXCEPT !.view = "hosts"], Listed)
        BY <4>2, <4>4, ViewSound
      <4>6. QED BY <4>3, <4>5, Shown
    <3>5. QED BY <3>3, <3>4
  <2>3. CASE AttachCredentialPassphrase
    <3>1. PICK u \in HostDraftFor(ui.cred.vault) :
            \/ Show(u)
            \/ u.host # None /\ \E i \in DOMAIN u.host.auth :
                 Show([WithPassphrase(u, i, ui.cred.id) EXCEPT !.view = "hosts"])
      BY <2>3 DEF AttachCredentialPassphrase
    <3>2. Sound(u, Listed)
      BY <3>1, HostDraftForSound
    <3>3. CASE Show(u)
      BY <3>2, <3>3, Shown
    <3>4. ASSUME u.host # None, NEW i \in DOMAIN u.host.auth,
                 Show([WithPassphrase(u, i, ui.cred.id) EXCEPT !.view = "hosts"])
          PROVE  Kept
      <4> DEFINE w == WithPassphrase(u, i, ui.cred.id)
      <4>1. Sound(w, Listed)
        BY <2>1, <3>2, <3>4, WithPassphraseSound
      <4>2. Show([w EXCEPT !.view = "hosts"])
        BY <3>4
      <4> HIDE DEF w
      <4>3. "hosts" \in Sections \union {"terminal"}
        BY DEF Sections
      <4>4. Sound([w EXCEPT !.view = "hosts"], Listed)
        BY <4>1, <4>3, ViewSound
      <4>5. QED BY <4>2, <4>4, Shown
    <3>5. QED BY <3>1, <3>3, <3>4
  <2>4. QED BY <1>3, <2>2, <2>3
<1>4. QED
  BY <1>1, <1>2, <1>3, SaveCredentialStep
  DEF CredentialEditor, AttachCredentialPassword, AttachCredentialPassphrase

LEMMA ActivateCredentialHost ==
  ASSUME NEW u \in Windows, NEW c, NEW o, NEW l
  PROVE  ActivateCredential(u, c, o, l).host = u.host
  BY DEF ActivateCredential, Windows

(* Attaching a key adds one method and may open the credential editor.             *)
LEMMA AttachKeySound ==
  ASSUME RecordsInv, NEW r \in Snapshots, r.creds = Listed.creds, r.unlocked = unlocked,
         NEW u, Sound(u, r), u.host # None, Len(u.host.auth) < MaxAuth, NEW k \in KeyIds
  PROVE  /\ Sound(AttachKey(u, k, r), r)
         /\ AttachKey(u, k, r).host.vault = u.host.vault
         /\ Len(AttachKey(u, k, r).host.auth) = Len(u.host.auth) + 1
<1> DEFINE pushed == Pushed(u, PrivateKey(k, None))
           v == [pushed EXCEPT !.view = "hosts"]
           waiting == [v EXCEPT !.slot = Len(v.host.auth)]
<1>1. PrivateKey(k, None) \in AuthRefs
  BY DEF PrivateKey, AuthRefs
<1>2. /\ Sound(pushed, r) /\ pushed.host \in HostDrafts /\ pushed.host.vault = u.host.vault
      /\ Len(pushed.host.auth) = Len(u.host.auth) + 1
  BY <1>1, PushedSound
<1> HIDE DEF pushed
<1>3. Sound(v, r) /\ v.host = pushed.host
  <2>1. "hosts" \in Sections \union {"terminal"}
    BY DEF Sections
  <2>2. Sound(v, r)
    BY <1>2, <2>1, ViewSound
  <2>3. v.host = pushed.host
    BY <1>2 DEF Sound, Windows
  <2>4. QED BY <2>2, <2>3
<1> HIDE DEF v
<1>4. Len(v.host.auth) \in 0 .. MaxAuth
  BY <1>2, <1>3, OrdersAreSequences, RecordsAssumption DEF HostDrafts
<1>5. Sound(waiting, r)
  BY <1>3, <1>4, SlotSound
<1>6. waiting.host = v.host /\ waiting \in Windows
  BY <1>3, <1>5 DEF Sound, Windows
<1> HIDE DEF waiting
<1>7. CASE k \notin Encrypted
  <2>1. AttachKey(u, k, r) = v
    BY <1>7 DEF AttachKey, pushed, v
  <2>2. QED BY <1>2, <1>3, <2>1
<1>8. CASE k \in Encrypted
  <2>1. AttachKey(u, k, r) = ActivateCredential(waiting, None, "hostauth", r)
    BY <1>8 DEF AttachKey, pushed, v, waiting
  <2>2. "hostauth" \in Origins
    BY DEF Origins
  <2>3. Sound(ActivateCredential(waiting, None, "hostauth", r), r)
    BY <1>5, <2>2, ActivateCredentialSound
  <2>4. ActivateCredential(waiting, None, "hostauth", r).host = waiting.host
    BY <1>6, ActivateCredentialHost
  <2>5. QED BY <1>2, <1>3, <1>6, <2>1, <2>3, <2>4
<1>9. QED BY <1>7, <1>8

LEMMA KeyCreatedSound ==
  ASSUME RecordsInv, RecNext, creds' = creds, unlocked' = unlocked,
         NEW r, NEW u, Sound(u, r), NEW k \in KeyIds,
         u.host # None /\ u.host.vault = VaultOf[k] => Len(u.host.auth) < MaxAuth
  PROVE  LET w == OnPrivateKeyCreated(u, k) IN
         /\ Sound(w, ListedNext)
         /\ w.host # None => /\ u.host # None /\ w.host.vault = u.host.vault
                             /\ Len(w.host.auth) \in {Len(u.host.auth), Len(u.host.auth) + 1}
<1> DEFINE v == Refreshed(u)
           w == AttachKey(v, k, ListedNext)
<1>1. Sound(v, ListedNext)
  BY RefreshedSound
<1>2. v.host # None => u.host # None /\ v.host.auth = u.host.auth /\ v.host.vault = u.host.vault
  BY RefreshedHost
<1>3. ListedNext \in Snapshots /\ ListedNext.creds = Listed.creds /\ ListedNext.unlocked = unlocked
  BY ListedRecords, ListedNextRecords
<1>4. CASE ~(v.host # None /\ v.host.vault = VaultOf[k])
  <2>1. OnPrivateKeyCreated(u, k) = v
    BY <1>4 DEF OnPrivateKeyCreated
  <2>2. QED BY <1>1, <1>2, <2>1
<1>5. CASE v.host # None /\ v.host.vault = VaultOf[k]
  <2>1. OnPrivateKeyCreated(u, k) = w
    BY <1>5 DEF OnPrivateKeyCreated
  <2>2. Len(v.host.auth) < MaxAuth
    BY <1>2, <1>5
  <2> HIDE DEF v
  <2>3. /\ Sound(w, ListedNext) /\ w.host.vault = v.host.vault
        /\ Len(w.host.auth) = Len(v.host.auth) + 1
    BY <1>1, <1>3, <1>5, <2>2, AttachKeySound
  <2> HIDE DEF w
  <2>4. QED BY <1>2, <1>5, <2>1, <2>3
<1>6. QED BY <1>4, <1>5

LEMMA StoredKeys ==
  ASSUME EditorsInv, NEW v, NEW ids, StoreKeys(v, ids)
  PROVE  RecNext /\ creds' = creds /\ unlocked' = unlocked
         /\ \A k \in ids : k \in KeyIds /\ VaultOf[k] = v
<1>1. v \in Vaults /\ ids \in SUBSET KeyIds
  BY UiSound DEF StoreKeys, CanStoreKeys, In, RecordsInv, RecTypeOK
<1>2. RecNext
  BY <1>1 DEF RecNext
<1>3. QED BY <1>2 DEF StoreKeys, CanStoreKeys, In

LEMMA GenerateKeyStep ==
  ASSUME EditorsInv, NEW palette \in BOOLEAN, GenerateKey(palette)
  PROVE  Kept
<1> DEFINE u == IF palette THEN OpenSecure(ui, "keys") ELSE ui
<1>1. PICK k : /\ StoreKeys(KeyTarget, {k}) /\ Counted
               /\ ui' = OnPrivateKeyCreated(IF palette THEN OpenSecure(ui, "keys") ELSE ui, k)
  BY DEF GenerateKey
<1>2. RecNext /\ creds' = creds /\ unlocked' = unlocked /\ k \in KeyIds /\ VaultOf[k] = KeyTarget
  BY <1>1, StoredKeys
<1>3. Sound(u, Listed) /\ u.host = ui.host
  <2>1. Sound(OpenSecure(ui, "keys"), Listed)
    BY UiSound, OpenSecureSound DEF Sections
  <2>2. OpenSecure(ui, "keys").host = ui.host
    BY UiSound DEF OpenSecure, Windows
  <2>3. QED BY <2>1, <2>2, UiSound
<1>4. ui.host # None /\ ui.host.vault = VaultOf[k] => Len(ui.host.auth) < MaxAuth
  <2>1. ui.host # None => ui.host.auth \in AuthOrders
    BY UiSound DEF Windows, HostDrafts
  <2>2. ui.host # None => Len(ui.host.auth) \in Nat
    BY <2>1, OrdersAreSequences
  <2>3. QED BY <1>2, <2>2, RecordsAssumption DEF GenerateKey, RoomForKeys
<1>5. ui' = OnPrivateKeyCreated(u, k)
  BY <1>1
<1> HIDE DEF u
<1>6. Sound(OnPrivateKeyCreated(u, k), ListedNext)
  BY <1>2, <1>3, <1>4, UiSound, KeyCreatedSound
<1>7. QED BY <1>1, <1>2, <1>5, <1>6, ChangeStep DEF Kept

LEMMA PairSize ==
  ASSUME NEW k, NEW l
  PROVE  Cardinality({k}) = 1 /\ (k # l => Cardinality({k, l}) = 2)
<1>1. IsFiniteSet({k}) /\ Cardinality({k}) = 1
  BY FS_Singleton
<1>2. {k, l} = {k} \union {l}
  OBVIOUS
<1>3. k # l => Cardinality({k} \union {l}) = Cardinality({k}) + 1
  BY <1>1, FS_AddElement
<1>4. QED BY <1>1, <1>2, <1>3

LEMMA ImportKeysStep ==
  ASSUME EditorsInv, NEW v \in Vaults, ImportKeys(v)
  PROVE  Kept
<1>1. PICK k, l : /\ RoomForKeys(v, Cardinality({k, l}))
                  /\ StoreKeys(v, {k, l}) /\ Counted
                  /\ ui' = IF k = l THEN OnPrivateKeyCreated(ui, k)
                           ELSE OnPrivateKeyCreated(OnPrivateKeyCreated(ui, k), l)
  BY DEF ImportKeys
<1>2. RecNext /\ creds' = creds /\ unlocked' = unlocked
      /\ k \in KeyIds /\ VaultOf[k] = v /\ l \in KeyIds /\ VaultOf[l] = v
  BY <1>1, StoredKeys
<1>3. ui.host # None => Len(ui.host.auth) \in Nat
  <2>1. ui.host # None => ui.host.auth \in AuthOrders
    BY UiSound DEF Windows, HostDrafts
  <2>2. QED BY <2>1, OrdersAreSequences
<1>4. Cardinality({k, l}) = IF k = l THEN 1 ELSE 2
  BY PairSize
<1>5. ui.host # None /\ ui.host.vault = v => Len(ui.host.auth) + (IF k = l THEN 1 ELSE 2) <= MaxAuth
  BY <1>1, <1>4 DEF RoomForKeys
<1> DEFINE w == OnPrivateKeyCreated(ui, k)
<1>6. /\ Sound(w, ListedNext)
      /\ w.host # None => /\ ui.host # None /\ w.host.vault = ui.host.vault
                          /\ Len(w.host.auth) \in {Len(ui.host.auth), Len(ui.host.auth) + 1}
  <2>1. ui.host # None /\ ui.host.vault = VaultOf[k] => Len(ui.host.auth) < MaxAuth
    <3>1. CASE k = l
      BY <1>2, <1>3, <1>5, <3>1, RecordsAssumption
    <3>2. CASE k # l
      BY <1>2, <1>3, <1>5, <3>2, RecordsAssumption
    <3>3. QED BY <3>1, <3>2
  <2>2. QED BY <1>2, <2>1, UiSound, KeyCreatedSound
<1> HIDE DEF w
<1>7. CASE k = l
  BY <1>1, <1>2, <1>6, <1>7, ChangeStep DEF Kept, w
<1>8. CASE k # l
  <2>1. w.host # None /\ w.host.vault = VaultOf[l] => Len(w.host.auth) < MaxAuth
    BY <1>2, <1>3, <1>5, <1>6, <1>8, RecordsAssumption
  <2>2. Sound(OnPrivateKeyCreated(w, l), ListedNext)
    BY <1>2, <1>6, <2>1, UiSound, KeyCreatedSound
  <2>3. ui' = OnPrivateKeyCreated(w, l)
    BY <1>1, <1>8 DEF w
  <2>4. QED BY <1>1, <1>2, <2>2, <2>3, ChangeStep DEF Kept
<1>9. QED BY <1>7, <1>8

(* The keys of an import that fails are in the vault and not in the lists.         *)
LEMMA ImportKeysFailsStep ==
  ASSUME EditorsInv, NEW v \in Vaults, ImportKeysFails(v)
  PROVE  Kept
<1>1. PICK k : StoreKeys(v, {k})
  BY DEF ImportKeysFails
<1>2. Counted /\ ui' = ui
  BY DEF ImportKeysFails
<1>3. RecNext
  BY <1>1, StoredKeys
<1>4. UNCHANGED <<hosts, creds, tunnels, unlocked>> /\ keys \subseteq keys'
  BY <1>1 DEF StoreKeys
<1>5. /\ ListedNext.hosts = Listed.hosts /\ ListedNext.creds = Listed.creds
      /\ ListedNext.tunnels = Listed.tunnels /\ ListedNext.unlocked = Listed.unlocked
      /\ Listed.keys \subseteq ListedNext.keys
  BY <1>3, <1>4, UiSound, ListedRecords, ListedNextRecords
<1>6. Sound(ui, ListedNext)
  BY <1>5, UiSound DEF Sound, InStep, Current
<1>7. QED BY <1>2, <1>3, <1>6, ChangeStep DEF Kept

LEMMA ListPanelStep ==
  ASSUME EditorsInv, ListPanel
  PROVE  Kept
<1>1. CASE BeginNewHostWizard
  <2> DEFINE u == OpenSecure(ui, "hosts")
  <2>1. Sound(u, Listed)
    BY UiSound, OpenSecureSound DEF Sections
  <2>2. Show(ActivateHost(u, None))
    BY <1>1 DEF BeginNewHostWizard
  <2> HIDE DEF u
  <2>3. QED BY <2>1, <2>2, UiSound, ActivateHostSound, Shown
<1>2. ASSUME NEW h \in ui.list.hosts \union {None}, RequestHost(h) PROVE Kept
  <2>1. h \in HostIds \union {None}
    BY UiSound DEF Windows, Snapshots
  <2>2. QED BY <1>2, <2>1, PendingTyped, Requested DEF RequestHost
<1>3. ASSUME NEW c \in ui.list.creds \union {None}, RequestCredential(c) PROVE Kept
  <2>1. c \in CredIds \union {None} /\ "standalone" \in Origins
    BY UiSound DEF Windows, Snapshots, Origins
  <2>2. QED BY <1>3, <2>1, PendingTyped, Requested DEF RequestCredential
<1>4. QED
  BY <1>1, <1>2, <1>3, GenerateKeyStep, ImportKeysStep, ImportKeysFailsStep DEF ListPanel

LEMMA KeyPanelStep ==
  ASSUME EditorsInv, KeyPanel
  PROVE  Kept
<1>1. ASSUME NEW k \in KeyIds, AttachKeyToHost(k) PROVE Kept
  <2>1. PICK u \in HostDraftFor(VaultOf[k]) :
          /\ u.host # None => Len(u.host.auth) < MaxAuth
          /\ Show(IF u.host = None THEN u ELSE AttachKey(u, k, Listed))
    BY <1>1 DEF AttachKeyToHost
  <2>2. Sound(u, Listed)
    BY <2>1, HostDraftForSound
  <2>3. u.host # None => Sound(AttachKey(u, k, Listed), Listed)
    BY <2>1, <2>2, UiSound, AttachKeySound
  <2>4. QED BY <2>1, <2>2, <2>3, Shown
<1>2. ASSUME NEW k \in KeyIds, AttemptDeletePrivateKey(k) PROVE Kept
  <2>1. CASE Referencing("key", k) # {}
    <3>1. PICK h \in Referencing("key", k) : Show([ui EXCEPT !.dialog = Blocked(h)])
      BY <1>2, <2>1 DEF AttemptDeletePrivateKey, AttemptDelete
    <3>2. QED BY <3>1, BlockedStep
  <2>2. CASE Referencing("key", k) = {}
    <3>1. DeleteKey(VaultOf[k], k) /\ Counted /\ ui' = Refreshed(ui)
      BY <1>2, <2>2 DEF AttemptDeletePrivateKey, AttemptDelete
    <3>2. VaultOf[k] \in Vaults
      BY RecordsAssumption
    <3>3. RecNext
      BY <3>1, <3>2 DEF RecNext
    <3>4. QED BY <3>1, <3>3, RefreshStep DEF Kept
  <2>3. QED BY <2>1, <2>2
<1>3. QED BY <1>1, <1>2 DEF KeyPanel

LEMMA LockStep ==
  ASSUME EditorsInv, LockVault \/ \E v \in Vaults : LockNamedVault(v) \/ UnlockVault(v)
  PROVE  Kept
<1>1. unlocked \subseteq Vaults /\ DefaultVault \in Vaults
  BY UiSound, EditorsAssumption DEF RecordsInv, RecTypeOK
<1>2. ASSUME NEW vs, Lock(vs) PROVE RecNext
  <2>1. vs \in SUBSET Vaults
    BY <1>1, <1>2 DEF Lock
  <2>2. QED BY <1>1, <1>2, <2>1 DEF RecNext
<1>3. CASE LockVault
  <2> DEFINE u == Refreshed(ui)
             w == [u EXCEPT !.dialog = None, !.view = "terminal"]
  <2>1. RecNext /\ Counted /\ ui' = w
    BY <1>2, <1>3 DEF LockVault
  <2>2. Sound(u, ListedNext)
    BY <2>1, UiSound, RefreshedSound
  <2> HIDE DEF u
  <2>3. w \in Windows /\ w.host = u.host /\ w.tunnel = u.tunnel /\ w.cred = u.cred
        /\ w.snap = u.snap /\ w.list = u.list
    BY <2>2 DEF Sound, Windows
  <2> HIDE DEF w
  <2>4. Sound(w, ListedNext)
    BY <2>2, <2>3, FrameSound
  <2>5. QED BY <2>1, <2>4, ChangeStep DEF Kept
<1>4. ASSUME NEW v \in Vaults, LockNamedVault(v) PROVE Kept
  BY <1>2, <1>4, RefreshStep DEF LockNamedVault, Kept
<1>5. ASSUME NEW v \in Vaults, UnlockVault(v) PROVE Kept
  <2>1. RecNext
    BY <1>5 DEF UnlockVault, RecNext
  <2>2. QED BY <1>5, <2>1, RefreshStep DEF UnlockVault, Kept
<1>6. QED BY <1>3, <1>4, <1>5

LEMMA OtherWindowStep ==
  ASSUME EditorsInv, OtherWindow
  PROVE  Kept
<1>1. RecNext
  <2>1. \A x \in HostIds \union CredIds \union KeyIds \union TunnelIds : VaultOf[x] \in Vaults
    BY RecordsAssumption
  <2>2. ASSUME NEW h \in HostIds, NEW c \in CredIds, StoreHost(VaultOf[h], h, <<Password(c)>>) PROVE RecNext
    <3>1. <<Password(c)>> \in AuthOrders
      <4>1. <<Password(c)>> \in Seq(AuthRefs) /\ Len(<<Password(c)>>) = 1
        BY DEF Password, AuthRefs
      <4>2. QED BY <4>1, OrdersAreSequences, RecordsAssumption, EditorsAssumption
    <3>2. QED BY <2>1, <2>2, <3>1 DEF RecNext
  <2>3. ASSUME NEW h \in HostIds, DeleteHost(VaultOf[h], h) PROVE RecNext
    BY <2>1, <2>3 DEF RecNext
  <2>4. ASSUME NEW c \in CredIds, StoreCredential(VaultOf[c], c) \/ DeleteCredential(VaultOf[c], c)
        PROVE RecNext
    BY <2>1, <2>4 DEF RecNext
  <2>5. ASSUME NEW k \in KeyIds, StoreKeys(VaultOf[k], {k}) \/ DeleteKey(VaultOf[k], k) PROVE RecNext
    <3>1. {k} \in SUBSET KeyIds
      OBVIOUS
    <3>2. QED BY <2>1, <2>5, <3>1 DEF RecNext
  <2>6. ASSUME NEW t \in TunnelIds, NEW h \in HostIds, NEW ep \in Endpoints,
               StoreTunnel(VaultOf[t], t, h, ep)
        PROVE RecNext
    BY <2>1, <2>6 DEF RecNext
  <2>7. ASSUME NEW t \in TunnelIds, DeleteTunnel(VaultOf[t], t) PROVE RecNext
    BY <2>1, <2>7 DEF RecNext
  <2>8. ASSUME NEW v \in Vaults, Lock({v}) \/ Unlock(v) PROVE RecNext
    <3>1. {v} \in SUBSET Vaults
      OBVIOUS
    <3>2. QED BY <2>8, <3>1 DEF RecNext
  <2>9. QED BY <2>2, <2>3, <2>4, <2>5, <2>6, <2>7, <2>8 DEF OtherWindow
<1>2. Counted /\ ui' = [ui EXCEPT !.snap = ListedNext]
  BY DEF OtherWindow, Published
<1> DEFINE w == [ui EXCEPT !.snap = ListedNext]
<1>3. ListedNext \in Snapshots /\ ListedNext # None
  BY <1>1, UiSound, ListedNextRecords, EditorsAssumption
<1>4. w \in Windows /\ w.host = ui.host /\ w.tunnel = ui.tunnel /\ w.cred = ui.cred /\ w.snap = ListedNext
  BY <1>3, UiSound DEF Windows
<1> HIDE DEF w
<1>5. Sound(w, ListedNext)
  BY <1>3, <1>4, UiSound DEF Sound, Alone, InStep, Current
<1>6. QED BY <1>1, <1>2, <1>5, ChangeStep DEF Kept, w

LEMMA VaultWatcherStep ==
  ASSUME EditorsInv, VaultWatcher
  PROVE  Kept
<1>1. ui \in Windows /\ Alone(ui) /\ ui.snap \in Snapshots /\ Current(ui.snap, Listed)
  BY UiSound DEF VaultWatcher, Sound, Windows, InStep
<1>2. Sound([ApplySnapshot(ui, ui.snap) EXCEPT !.snap = None], Listed)
  BY <1>1, UiSound, AppliedSound
<1>3. QED BY <1>2, Shown DEF VaultWatcher

-----------------------------------------------------------------------------
(* The theorems                                                                    *)

LEMMA EditorsInit == Init => EditorsInv
<1> SUFFICES ASSUME Init PROVE EditorsInv
  OBVIOUS
<1>1. RecordsInv
  BY StoredAssumption DEF Init, RecordsInv, RecTypeOK, RefsResolve, UniqueListenEndpoints
<1>2. Listed \in Snapshots /\ Current(Listed, Listed)
  BY <1>1, ListedRecords, ListedIsCurrent
<1>3. ui \in Windows
  BY <1>2, RecordsAssumption DEF Init, Windows
<1>4. ui.snap = None /\ ui.list = Listed /\ ui.host = None /\ ui.tunnel = None /\ ui.cred = None
  BY DEF Init
<1>5. Sound(ui, Listed)
  BY <1>2, <1>3, <1>4 DEF Sound, Alone, InStep, Follows
<1>6. QED BY <1>1, <1>5, EditorsAssumption DEF EditorsInv, Init

LEMMA EditorsStep ==
  ASSUME EditorsInv, [Next]_vars
  PROVE  Kept
<1>1. CASE Next
  BY <1>1, NavigateStep, ListPanelStep, TunnelListStep, HostEditorStep, CredentialEditorStep,
     KeyPanelStep, TunnelEditorStep, LockStep, OtherWindowStep, VaultWatcherStep
  DEF Next
<1>2. CASE UNCHANGED vars
  <2>1. UNCHANGED <<hosts, creds, keys, tunnels, unlocked, deleted, changes, ui>> /\ UNCHANGED recVars
    BY <1>2 DEF vars, recVars
  <2>2. Show(ui)
    BY <2>1 DEF Show
  <2>3. QED BY <2>2, UiSound, Shown
<1>3. QED BY <1>1, <1>2

LEMMA EditorsInvariant == Spec => []EditorsInv
<1>1. EditorsInv /\ [Next]_vars => EditorsInv'
  BY EditorsStep DEF Kept
<1>2. QED BY <1>1, EditorsInit, PTL DEF Spec

(* Whatever the windows do, the records change by calls of the record API only,    *)
(* with arguments those calls allow: what RecSpec preserves, the editors preserve. *)
THEOREM WindowsUseTheRecordApi == Spec => [][RecNext]_recVars
<1>1. EditorsInv /\ [Next]_vars => [RecNext]_recVars
  BY EditorsStep DEF Kept
<1>2. QED BY <1>1, EditorsInvariant, PTL DEF Spec

(* The references of the records resolve and endpoints are distinct in every state *)
(* the windows of the application can reach from such files.                       *)
THEOREM EditedRecordsStayWhole == Spec => [](RefsResolve /\ UniqueListenEndpoints)
<1>1. EditorsInv => RefsResolve /\ UniqueListenEndpoints
  BY DEF EditorsInv, RecordsInv
<1>2. QED BY <1>1, EditorsInvariant, PTL

(* Once its snapshots have been taken, a window shows what the vaults hold, and no *)
(* editor of it is open on a locked vault or on a record that is gone, whichever   *)
(* window deleted or locked it; a tunnel editor is never open with another one     *)
(* (apply_vault_snapshot and the three reconcile_*_draft_after_vault_snapshot).    *)
THEOREM OpenEditorsFollowRecords == Spec => []EditorsFollowRecords
<1>1. ASSUME EditorsInv PROVE EditorsFollowRecords
  <2>1. TypeOK
    BY <1>1, UiSound DEF TypeOK, EditorsInv, RecordsInv, Windows, HostDrafts
  <2>2. DraftsFollowRecords
    <3> SUFFICES ASSUME Quiet PROVE
          /\ \A d \in {ui.host, ui.tunnel, ui.cred} \ {None} : d.vault \in unlocked
          /\ ui.host # None => ui.host.id \in DOMAIN hosts \union {None}
          /\ ui.tunnel # None => ui.tunnel.id \in DOMAIN tunnels \union {None}
          /\ ui.cred # None => ui.cred.id \in creds \union {None}
      BY DEF DraftsFollowRecords
    <3>1. /\ Follows(ui.host, Listed.hosts, unlocked)
          /\ Follows(ui.tunnel, Listed.tunnels, unlocked)
          /\ Follows(ui.cred, Listed.creds, unlocked)
      BY <1>1, UiSound DEF Sound, InStep, Quiet
    <3>2. Listed.hosts \subseteq DOMAIN hosts /\ Listed.tunnels \subseteq DOMAIN tunnels /\ Listed.creds \subseteq creds
      BY <1>1, UiSound, ListedRecords
    <3>3. QED BY <3>1, <3>2 DEF Follows
  <2>3. ListsAreCurrent
    <3> SUFFICES ASSUME Quiet PROVE
          /\ [ui.list EXCEPT !.keys = {}] = [Listed EXCEPT !.keys = {}]
          /\ ui.list.keys \subseteq Listed.keys
      BY DEF ListsAreCurrent
    <3>1. Current(ui.list, Listed) /\ ui.list \in Snapshots /\ Listed \in Snapshots
      BY <1>1, UiSound DEF Sound, InStep, Quiet, Windows
    <3>2. QED BY <3>1 DEF Current, Snapshots
  <2>4. TunnelEditorAlone
    BY <1>1, UiSound DEF Sound, Alone, TunnelEditorAlone
  <2>5. QED BY <2>1, <2>2, <2>3, <2>4 DEF EditorsFollowRecords
<1>2. QED BY <1>1, EditorsInvariant, PTL

=============================================================================
