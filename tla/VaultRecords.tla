------------------------------ MODULE VaultRecords ------------------------------
(* The record API of seance-vault (VaultStore in crates/seance-vault/src/lib.rs) *)
(* for every open vault of one application: saved hosts, password credentials,   *)
(* private keys and port forwards. A host lists authentication references to     *)
(* credentials and keys of its own vault, a port forward belongs to a host; the  *)
(* store validates every reference when it saves and refuses to delete what is   *)
(* referenced. Field texts are reduced to what the validations tell apart.       *)
EXTENDS Naturals, FiniteSets, Sequences

CONSTANTS Vaults, HostIds, CredIds, KeyIds, TunnelIds, (* uuids: ids never repeat *)
          Endpoints,      (* mode, listen address and listen port of a forward    *)
          VaultOf,        (* the vault whose file holds the record with this id   *)
          MaxAuth,        (* bound: methods in one authentication order           *)
          None

ASSUME RecordsAssumption ==
  /\ VaultOf \in [HostIds \union CredIds \union KeyIds \union TunnelIds -> Vaults]
  /\ None \notin HostIds \union CredIds \union KeyIds \union TunnelIds \union Vaults
  /\ MaxAuth \in Nat

VARIABLES hosts,     (* stored hosts: id -> its authentication order               *)
          creds,     (* ids of the stored credentials                              *)
          keys,      (* ids of the stored private keys                             *)
          tunnels,   (* stored port forwards: id -> host and listen endpoint       *)
          unlocked   (* vaults whose master key is in memory                       *)

recVars == <<hosts, creds, keys, tunnels, unlocked>>

(* HostAuthRef: a password reference has no key, a key's passphrase is optional.   *)
AuthRefs == [key : KeyIds \union {None}, cred : CredIds \union {None}]
Password(c) == [key |-> None, cred |-> c]
PrivateKey(k, c) == [key |-> k, cred |-> c]

AuthOrders == UNION {[1..n -> AuthRefs] : n \in 0..MaxAuth}

Empty == [x \in {} |-> None]
In(S, v) == {x \in S : VaultOf[x] = v}

(* The function f with id mapped to value: upsert_record by record id.             *)
Put(f, id, value) == [x \in DOMAIN f \union {id} |-> IF x = id THEN value ELSE f[x]]
Drop(f, id) == [x \in DOMAIN f \ {id} |-> f[x]]

-----------------------------------------------------------------------------
(* validate_host_auth_refs: every reference loads from the same vault.             *)
AuthResolves(v, a) ==
  /\ a.key # None => a.key \in In(keys, v)
  /\ a.cred # None => a.cred \in In(creds, v)
  /\ a.key = None => a.cred # None

AuthOrderResolves(v, auth) == \A i \in DOMAIN auth : AuthResolves(v, auth[i])

CanStoreHost(v, id, auth) ==
  /\ v \in unlocked
  /\ VaultOf[id] = v
  /\ AuthOrderResolves(v, auth)

StoreHost(v, id, auth) ==
  /\ CanStoreHost(v, id, auth)
  /\ hosts' = Put(hosts, id, auth)
  /\ UNCHANGED <<creds, keys, tunnels, unlocked>>

(* active_port_forwards and active_hosts decrypt every record of the kind, so a    *)
(* locked vault fails the check as soon as it holds one; delete_record itself      *)
(* needs no key.                                                                   *)
ActiveReadable(v, S) == v \in unlocked \/ In(S, v) = {}

(* ensure_host_not_referenced                                                      *)
CanDeleteHost(v, id) ==
  /\ id \in In(DOMAIN hosts, v)
  /\ ActiveReadable(v, DOMAIN tunnels)
  /\ \A t \in DOMAIN tunnels : tunnels[t].host # id

DeleteHost(v, id) ==
  /\ CanDeleteHost(v, id)
  /\ hosts' = Drop(hosts, id)
  /\ UNCHANGED <<creds, keys, tunnels, unlocked>>

CanStoreCredential(v, id) == v \in unlocked /\ VaultOf[id] = v

StoreCredential(v, id) ==
  /\ CanStoreCredential(v, id)
  /\ creds' = creds \union {id}
  /\ UNCHANGED <<hosts, keys, tunnels, unlocked>>

(* Mutant: the check looks at password references only, not at key passphrases.    *)
CredentialUnreferencedAsPassword(id) ==
  \A h \in DOMAIN hosts : \A i \in DOMAIN hosts[h] :
    hosts[h][i].key = None => hosts[h][i].cred # id

(* ensure_credential_not_referenced: as a password and as a key's passphrase.      *)
CredentialUnreferenced(id) ==
  \A h \in DOMAIN hosts : \A i \in DOMAIN hosts[h] : hosts[h][i].cred # id

CanDeleteCredential(v, id) ==
  /\ id \in In(creds, v)
  /\ ActiveReadable(v, DOMAIN hosts)
  /\ CredentialUnreferenced(id)

DeleteCredential(v, id) ==
  /\ CanDeleteCredential(v, id)
  /\ creds' = creds \ {id}
  /\ UNCHANGED <<hosts, keys, tunnels, unlocked>>

(* generate_private_key, import_private_key and, one after the other under one     *)
(* lock, import_private_keys_from_paths.                                           *)
CanStoreKeys(v, ids) == v \in unlocked /\ ids \subseteq In(KeyIds, v)

StoreKeys(v, ids) ==
  /\ CanStoreKeys(v, ids)
  /\ keys' = keys \union ids
  /\ UNCHANGED <<hosts, creds, tunnels, unlocked>>

(* ensure_private_key_not_referenced                                               *)
KeyUnreferenced(id) ==
  \A h \in DOMAIN hosts : \A i \in DOMAIN hosts[h] : hosts[h][i].key # id

CanDeleteKey(v, id) ==
  /\ id \in In(keys, v)
  /\ ActiveReadable(v, DOMAIN hosts)
  /\ KeyUnreferenced(id)

DeleteKey(v, id) ==
  /\ CanDeleteKey(v, id)
  /\ keys' = keys \ {id}
  /\ UNCHANGED <<hosts, creds, tunnels, unlocked>>

(* Mutant: a rule is compared with the rules of the same id only.                  *)
EndpointFreeOfItself(id, h, ep) ==
  \A t \in DOMAIN tunnels \intersect {id} : tunnels[t].host = h => tunnels[t].ep # ep \/ t = id

(* validate_port_forward: no other active rule of the host listens there.          *)
EndpointFree(id, h, ep) ==
  \A t \in DOMAIN tunnels \ {id} : ~(tunnels[t].host = h /\ tunnels[t].ep = ep)

CanStoreTunnel(v, id, h, ep) ==
  /\ v \in unlocked
  /\ VaultOf[id] = v
  /\ h \in In(DOMAIN hosts, v)
  /\ EndpointFree(id, h, ep)

StoreTunnel(v, id, h, ep) ==
  /\ CanStoreTunnel(v, id, h, ep)
  /\ tunnels' = Put(tunnels, id, [host |-> h, ep |-> ep])
  /\ UNCHANGED <<hosts, creds, keys, unlocked>>

DeleteTunnel(v, id) ==
  /\ id \in In(DOMAIN tunnels, v)
  /\ tunnels' = Drop(tunnels, id)
  /\ UNCHANGED <<hosts, creds, keys, unlocked>>

(* lock clears the master keys of the vaults; unlock brings one back.              *)
Lock(vs) ==
  /\ vs # {} /\ vs \subseteq unlocked
  /\ unlocked' = unlocked \ vs
  /\ UNCHANGED <<hosts, creds, keys, tunnels>>

Unlock(v) ==
  /\ v \notin unlocked
  /\ unlocked' = unlocked \union {v}
  /\ UNCHANGED <<hosts, creds, keys, tunnels>>

-----------------------------------------------------------------------------
RecInit ==
  /\ hosts = Empty /\ tunnels = Empty
  /\ creds = {} /\ keys = {}
  /\ unlocked = {}

RecNext ==
  \E v \in Vaults :
    \/ \E id \in HostIds, auth \in AuthOrders : StoreHost(v, id, auth)
    \/ \E id \in HostIds : DeleteHost(v, id)
    \/ \E id \in CredIds : StoreCredential(v, id) \/ DeleteCredential(v, id)
    \/ \E ids \in SUBSET KeyIds : StoreKeys(v, ids)
    \/ \E id \in KeyIds : DeleteKey(v, id)
    \/ \E id \in TunnelIds, h \in HostIds, ep \in Endpoints : StoreTunnel(v, id, h, ep)
    \/ \E id \in TunnelIds : DeleteTunnel(v, id)
    \/ \E vs \in SUBSET Vaults : Lock(vs)
    \/ Unlock(v)

RecSpec == RecInit /\ [][RecNext]_recVars

-----------------------------------------------------------------------------
(* What the files of the vaults hold is of the right kinds.                        *)
RecordsTyped(hs, cs, ks, ts) ==
  /\ DOMAIN hs \subseteq HostIds
  /\ \A h \in DOMAIN hs : hs[h] \in AuthOrders
  /\ cs \subseteq CredIds
  /\ ks \subseteq KeyIds
  /\ DOMAIN ts \subseteq TunnelIds
  /\ \A t \in DOMAIN ts : ts[t] \in [host : HostIds, ep : Endpoints]

RecTypeOK == RecordsTyped(hosts, creds, keys, tunnels) /\ unlocked \subseteq Vaults

Resolve(hs, cs, ks, ts) ==
  /\ \A h \in DOMAIN hs : \A i \in DOMAIN hs[h] :
       LET a == hs[h][i] IN
       /\ a.key \in In(ks, VaultOf[h]) \union {None}
       /\ a.cred \in In(cs, VaultOf[h]) \union {None}
       /\ a # [key |-> None, cred |-> None]
  /\ \A t \in DOMAIN ts : ts[t].host \in In(DOMAIN hs, VaultOf[t])

(* Whatever sequence of saves and deletions the windows make, a stored host never  *)
(* names a credential or a key that is gone or lives in another vault, and a       *)
(* stored port forward always has its host (validate_host_auth_refs,               *)
(* validate_port_forward and the three ensure_*_not_referenced checks together).   *)
RefsResolve == Resolve(hosts, creds, keys, tunnels)

Distinct(ts) == \A s, t \in DOMAIN ts : ts[s].host = ts[t].host /\ ts[s].ep = ts[t].ep => s = t

(* No two stored rules of a host listen on the same endpoint, however the rules    *)
(* were edited into place (validate_port_forward).                                 *)
UniqueListenEndpoints == Distinct(tunnels)
=============================================================================
