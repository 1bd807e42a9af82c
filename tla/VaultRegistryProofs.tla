------------------------- MODULE VaultRegistryProofs -------------------------
(***************************************************************************)
(* Proofs about VaultRegistry, for any sets of vaults, names, hosts and   *)
(* keys and any number of stops and failing disk operations.              *)
(*                                                                         *)
(* RegistryInv is the inductive invariant.  Kept is the heart of it: the  *)
(* vaults the config on disk, the loaded config or the controller knows.  *)
(* No two of them share a database, and none is deleted or ungenerated;   *)
(* the three copies of the registry can drift apart after a fault and     *)
(* every deletion still removes a file nobody else points at.             *)
(***************************************************************************)
EXTENDS VaultRegistry, TLAPS

Config == [entries : [Vaults -> Names \cup {None}],
           open : SUBSET Vaults,
           default : Vaults \cup {None}]
Index == [scope : [Vaults \X Hosts -> Refs], auth : [Vaults \X Auths -> SUBSET Hosts]]
Creating == [call : {"create"}, vault : Vaults, name : Names]
Deleting == [call : {"delete"}, vault : Vaults, name : {None}]

Typed ==
    /\ saved \in Config /\ config \in Config
    /\ files \in SUBSET Files
    /\ fileOf \in [Vaults -> Files]
    /\ hosts \in [Files -> [Hosts -> Refs]]
    /\ up \in BOOLEAN
    /\ name \in [Vaults -> Names \cup {None}]
    /\ store \in [Vaults -> {"none", "locked", "unlocked"}]
    /\ index \in Index
    /\ view \in [Vaults -> SUBSET Hosts]
    /\ op \in {Idle} \cup Creating \cup Deleting
    /\ unused \in SUBSET Vaults /\ promised \in SUBSET Vaults /\ gone \in SUBSET Vaults
    /\ faults \in Nat

\* Only validated configs are written or kept; the one in memory is the one
\* on disk until a load fails; what is open is managed, and only while up.
Configured ==
    /\ Valid(saved) /\ Valid(config)
    /\ "unreadable" \notin lost => config = saved
    /\ \A v \in Vaults : store[v] # "none" => name[v] # None
    /\ ~up => Managed = {} /\ op = Idle

Kept == Registered(saved) \cup Registered(config) \cup Managed

Filed ==
    /\ \A v \in Vaults : fileOf[v] \in {v, Legacy}
    /\ \A v \in Kept : fileOf[v] \in files /\ v \notin unused /\ v \notin gone
    /\ \A v, w \in Kept : fileOf[v] = fileOf[w] => v = w
    /\ \A v \in unused : fileOf[v] = v
    /\ \A v \in promised : fileOf[v] = v /\ v \in files /\ v \notin unused /\ v \notin gone
    /\ \A v \in gone : fileOf[v] \notin files /\ v \notin unused
    /\ lost \subseteq {"refused"} => promised \subseteq Registered(saved)

\* The vault of a call in progress is out of everybody else's reach.
InProgress ==
    /\ op.call = "create" =>
          /\ op.vault \notin Kept /\ op.vault \notin unused
          /\ op.vault \notin promised /\ op.vault \notin gone
          /\ fileOf[op.vault] = op.vault /\ op.vault \in files
    /\ op.call = "delete" =>
          /\ op.vault \notin Kept /\ op.vault \notin unused /\ op.vault \notin promised
          /\ \A w \in Kept : fileOf[w] # fileOf[op.vault]

\* Both directions of the index agree.
Consistent(ix) ==
    \A v \in Vaults, a \in Auths, h \in Hosts :
        h \in ix.auth[<<v, a>>] <=> ix.scope[<<v, h>>] # None /\ a \in ix.scope[<<v, h>>]

Indexed ==
    /\ Consistent(index)
    /\ \A v \in Vaults, h \in Hosts :
          /\ store[v] # "unlocked" => index.scope[<<v, h>>] = None
          /\ faults = 0 /\ store[v] = "unlocked" => index.scope[<<v, h>>] = hosts[fileOf[v]][h]

\* RestartKeepsRegistry during a call, too.
Restartable ==
    up /\ faults = 0 /\ lost = {} =>
        name = saved.entries /\ saved.open = {v \in Vaults : store[v] # "none"}

RegistryInv ==
    /\ Typed /\ Configured /\ Filed /\ InProgress
    /\ Indexed /\ Restartable /\ WindowsShowUnlockedOnly

---------------------------------------------------------------------------
\* The config store

\* Closing a vault leaves a config that validates ...
LEMMA WithoutOpenValid ==
    ASSUME NEW c \in Config, Valid(c), NEW v \in Vaults
    PROVE  WithoutOpen(c, v) \in Config /\ Valid(WithoutOpen(c, v))
           /\ Registered(WithoutOpen(c, v)) = Registered(c)
BY DEF Config, Valid, Registered, WithoutOpen

\* ... so does opening one that is registered ...
LEMMA WithOpenValid ==
    ASSUME NEW c \in Config, Valid(c), NEW v \in Vaults
    PROVE  /\ WithOpen(c, v) \in Config
           /\ Registered(WithOpen(c, v)) = Registered(c)
           /\ c.entries[v] # None => Valid(WithOpen(c, v))
BY DEF Config, Valid, Registered, WithOpen

\* ... and deleting one, which is then unregistered.
LEMMA WithoutValid ==
    ASSUME NEW c \in Config, Valid(c), NEW v \in Vaults
    PROVE  /\ Without(c, v) \in Config /\ Valid(Without(c, v))
           /\ Registered(Without(c, v)) = Registered(c) \ {v}
<1> DEFINE e == [c.entries EXCEPT ![v] = None]
<1>1. /\ e \in [Vaults -> Names \cup {None}]
      /\ \A w \in Vaults : e[w] = IF w = v THEN None ELSE c.entries[w]
    BY DEF Config
<1>2. Without(c, v) = [entries |-> e, open |-> c.open \ {v},
                       default |-> IF c.default = v THEN None ELSE c.default]
    BY DEF Without
<1> HIDE DEF e
<1>3. Registered(Without(c, v)) = Registered(c) \ {v}
    BY <1>1, <1>2 DEF Registered
<1>4. Without(c, v) \in Config
    BY <1>1, <1>2 DEF Config
<1>5. Valid(Without(c, v))
    BY <1>1, <1>2, <1>3 DEF Valid, Registered, Config
<1> QED
    BY <1>3, <1>4, <1>5

---------------------------------------------------------------------------
\* The index

LEMMA IndexFields ==
    ASSUME NEW ix \in Index
    PROVE  /\ DOMAIN ix.scope = Vaults \X Hosts /\ DOMAIN ix.auth = Vaults \X Auths
           /\ \A v \in Vaults, h \in Hosts :
                 /\ ix.scope[<<v, h>>] \in Refs
                 /\ ix.scope[<<v, h>>] # None => ix.scope[<<v, h>>] \in SUBSET Auths
           /\ \A v \in Vaults, a \in Auths : ix.auth[<<v, a>>] \in SUBSET Hosts
BY DEF Index, Refs

\* remove_vault_auth_reference_index takes out every scope of the vault, and
\* its hosts out of every list.
LEMMA RemoveVaultIndex ==
    ASSUME NEW ix \in Index, Consistent(ix), NEW v \in Vaults
    PROVE  /\ RemoveVault(ix, v) \in Index /\ Consistent(RemoveVault(ix, v))
           /\ \A w \in Vaults, h \in Hosts :
                 RemoveVault(ix, v).scope[<<w, h>>] = IF w = v THEN None ELSE ix.scope[<<w, h>>]
<1> DEFINE r == RemoveVault(ix, v)
<1>1. \A w \in Vaults, h \in Hosts : r.scope[<<w, h>>] = IF w = v THEN None ELSE ix.scope[<<w, h>>]
    BY IndexFields DEF RemoveVault
<1>2. \A w \in Vaults, a \in Auths :
         r.auth[<<w, a>>] = IF w = v
                            THEN ix.auth[<<w, a>>] \ {h \in Hosts : /\ ix.scope[<<v, h>>] # None
                                                                   /\ a \in ix.scope[<<v, h>>]}
                            ELSE ix.auth[<<w, a>>]
    BY IndexFields DEF RemoveVault
<1>3. r.scope \in [Vaults \X Hosts -> Refs]
    BY DEF RemoveVault, Index, Refs
<1>4. r.auth \in [Vaults \X Auths -> SUBSET Hosts]
    BY DEF RemoveVault, Index
<1>5. r = [scope |-> r.scope, auth |-> r.auth]
    BY DEF RemoveVault
<1> HIDE DEF r
<1>6. r \in Index
    BY <1>3, <1>4, <1>5 DEF Index
<1>7. Consistent(r)
    <2> SUFFICES ASSUME NEW w \in Vaults, NEW a \in Auths, NEW h \in Hosts
                  PROVE  h \in r.auth[<<w, a>>] <=>
                             r.scope[<<w, h>>] # None /\ a \in r.scope[<<w, h>>]
        BY DEF Consistent
    <2>1. h \in ix.auth[<<w, a>>] <=> ix.scope[<<w, h>>] # None /\ a \in ix.scope[<<w, h>>]
        BY DEF Consistent
    <2> QED
        BY <1>1, <1>2, <2>1
<1> QED
    BY <1>1, <1>6, <1>7 DEF r

\* rebuild_vault_auth_reference_index makes the vault's scopes its hosts.
LEMMA RebuildVaultIndex ==
    ASSUME NEW ix \in Index, Consistent(ix), NEW v \in Vaults, NEW table \in [Hosts -> Refs]
    PROVE  /\ RebuildVault(ix, v, table) \in Index /\ Consistent(RebuildVault(ix, v, table))
           /\ \A w \in Vaults, h \in Hosts :
                 RebuildVault(ix, v, table).scope[<<w, h>>] =
                     IF w = v THEN table[h] ELSE ix.scope[<<w, h>>]
<1> DEFINE r == RemoveVault(ix, v)
           b == RebuildVault(ix, v, table)
<1>1. /\ r \in Index /\ Consistent(r)
      /\ \A w \in Vaults, h \in Hosts : r.scope[<<w, h>>] = IF w = v THEN None ELSE ix.scope[<<w, h>>]
    BY RemoveVaultIndex
<1>2. b = [scope |-> [x \in DOMAIN r.scope |-> IF x[1] = v THEN table[x[2]] ELSE r.scope[x]],
           auth |-> [x \in DOMAIN r.auth |->
                        IF x[1] = v THEN r.auth[x] \cup Users(table, x[2]) ELSE r.auth[x]]]
    BY DEF RebuildVault
<1> HIDE DEF r, b
<1>3. \A w \in Vaults, h \in Hosts : b.scope[<<w, h>>] = IF w = v THEN table[h] ELSE ix.scope[<<w, h>>]
    BY <1>1, <1>2, IndexFields
<1>4. \A w \in Vaults, a \in Auths :
         b.auth[<<w, a>>] = IF w = v THEN r.auth[<<w, a>>] \cup Users(table, a) ELSE r.auth[<<w, a>>]
    BY <1>1, <1>2, IndexFields
<1>5. b.scope \in [Vaults \X Hosts -> Refs]
    BY <1>1, <1>2 DEF Index, Refs
<1>6. b.auth \in [Vaults \X Auths -> SUBSET Hosts]
    BY <1>1, <1>2 DEF Index, Users
<1>7. b \in Index
    BY <1>2, <1>5, <1>6 DEF Index
<1>8. Consistent(b)
    <2> SUFFICES ASSUME NEW w \in Vaults, NEW a \in Auths, NEW h \in Hosts
                  PROVE  h \in b.auth[<<w, a>>] <=>
                             b.scope[<<w, h>>] # None /\ a \in b.scope[<<w, h>>]
        BY DEF Consistent
    <2>1. h \in ix.auth[<<w, a>>] <=> ix.scope[<<w, h>>] # None /\ a \in ix.scope[<<w, h>>]
        BY DEF Consistent
    <2>2. h \in r.auth[<<w, a>>] <=> r.scope[<<w, h>>] # None /\ a \in r.scope[<<w, h>>]
        BY <1>1 DEF Consistent
    <2>3. CASE w = v
        <3>1. h \notin r.auth[<<v, a>>] /\ b.scope[<<v, h>>] = table[h]
            BY <1>1, <1>3, <2>2, <2>3
        <3>2. b.auth[<<v, a>>] = r.auth[<<v, a>>] \cup Users(table, a)
            BY <1>4, <2>3
        <3> QED
            BY <2>3, <3>1, <3>2 DEF Users
    <2>4. CASE w # v
        BY <1>1, <1>3, <1>4, <2>1, <2>2, <2>4
    <2> QED
        BY <2>3, <2>4
<1> QED
    BY <1>3, <1>7, <1>8 DEF b

\* remove_host_auth_reference_by_scope takes out one scope.
LEMMA RemoveScopeIndex ==
    ASSUME NEW ix \in Index, Consistent(ix), NEW v \in Vaults, NEW g \in Hosts
    PROVE  /\ RemoveScope(ix, v, g) \in Index /\ Consistent(RemoveScope(ix, v, g))
           /\ \A w \in Vaults, h \in Hosts :
                 RemoveScope(ix, v, g).scope[<<w, h>>] =
                     IF w = v /\ h = g THEN None ELSE ix.scope[<<w, h>>]
<1>1. CASE ix.scope[<<v, g>>] = None
    BY <1>1 DEF RemoveScope
<1>2. CASE ix.scope[<<v, g>>] # None
    <2> DEFINE r == RemoveScope(ix, v, g)
    <2>1. r = [scope |-> [ix.scope EXCEPT ![<<v, g>>] = None],
               auth |-> [x \in DOMAIN ix.auth |->
                            IF x[1] = v /\ x[2] \in ix.scope[<<v, g>>] THEN ix.auth[x] \ {g}
                            ELSE ix.auth[x]]]
        BY <1>2 DEF RemoveScope
    <2> HIDE DEF r
    <2>2. \A w \in Vaults, h \in Hosts : r.scope[<<w, h>>] = IF w = v /\ h = g THEN None ELSE ix.scope[<<w, h>>]
        BY <2>1, IndexFields
    <2>3. \A w \in Vaults, a \in Auths :
             r.auth[<<w, a>>] = IF w = v /\ a \in ix.scope[<<v, g>>] THEN ix.auth[<<w, a>>] \ {g}
                                ELSE ix.auth[<<w, a>>]
        BY <2>1, IndexFields
    <2>4. r.scope \in [Vaults \X Hosts -> Refs]
        BY <2>1 DEF Index, Refs
    <2>5. r.auth \in [Vaults \X Auths -> SUBSET Hosts]
        BY <2>1 DEF Index
    <2>6. r \in Index
        BY <2>1, <2>4, <2>5 DEF Index
    <2>7. Consistent(r)
        <3> SUFFICES ASSUME NEW w \in Vaults, NEW a \in Auths, NEW h \in Hosts
                      PROVE  h \in r.auth[<<w, a>>] <=>
                                 r.scope[<<w, h>>] # None /\ a \in r.scope[<<w, h>>]
            BY DEF Consistent
        <3>1. h \in ix.auth[<<w, a>>] <=> ix.scope[<<w, h>>] # None /\ a \in ix.scope[<<w, h>>]
            BY DEF Consistent
        <3> QED
            BY <1>2, <2>2, <2>3, <3>1
    <2> QED
        BY <2>2, <2>6, <2>7 DEF r
<1> QED
    BY <1>1, <1>2

\* upsert_host_auth_reference_summary replaces one scope.
LEMMA UpsertScopeIndex ==
    ASSUME NEW ix \in Index, Consistent(ix), NEW v \in Vaults, NEW g \in Hosts,
           NEW refs \in SUBSET Auths
    PROVE  /\ UpsertScope(ix, v, g, refs) \in Index /\ Consistent(UpsertScope(ix, v, g, refs))
           /\ \A w \in Vaults, h \in Hosts :
                 UpsertScope(ix, v, g, refs).scope[<<w, h>>] =
                     IF w = v /\ h = g THEN refs ELSE ix.scope[<<w, h>>]
<1> DEFINE r == RemoveScope(ix, v, g)
           u == UpsertScope(ix, v, g, refs)
<1>1. /\ r \in Index /\ Consistent(r)
      /\ \A w \in Vaults, h \in Hosts :
            r.scope[<<w, h>>] = IF w = v /\ h = g THEN None ELSE ix.scope[<<w, h>>]
    BY RemoveScopeIndex
<1>2. u = [scope |-> [r.scope EXCEPT ![<<v, g>>] = refs],
           auth |-> [x \in DOMAIN r.auth |->
                        IF x[1] = v /\ x[2] \in refs THEN r.auth[x] \cup {g} ELSE r.auth[x]]]
    BY DEF UpsertScope
<1> HIDE DEF r, u
<1>3. \A w \in Vaults, h \in Hosts : u.scope[<<w, h>>] = IF w = v /\ h = g THEN refs ELSE ix.scope[<<w, h>>]
    BY <1>1, <1>2, IndexFields
<1>4. \A w \in Vaults, a \in Auths :
         u.auth[<<w, a>>] = IF w = v /\ a \in refs THEN r.auth[<<w, a>>] \cup {g} ELSE r.auth[<<w, a>>]
    BY <1>1, <1>2, IndexFields
<1>5. u.scope \in [Vaults \X Hosts -> Refs]
    BY <1>1, <1>2 DEF Index, Refs
<1>6. u.auth \in [Vaults \X Auths -> SUBSET Hosts]
    BY <1>1, <1>2 DEF Index
<1>7. u \in Index
    BY <1>2, <1>5, <1>6 DEF Index
<1>8. Consistent(u)
    <2> SUFFICES ASSUME NEW w \in Vaults, NEW a \in Auths, NEW h \in Hosts
                  PROVE  h \in u.auth[<<w, a>>] <=>
                             u.scope[<<w, h>>] # None /\ a \in u.scope[<<w, h>>]
        BY DEF Consistent
    <2>1. h \in r.auth[<<w, a>>] <=> r.scope[<<w, h>>] # None /\ a \in r.scope[<<w, h>>]
        BY <1>1 DEF Consistent
    <2>2. refs # None
        BY RefsAssumption
    <2>3. CASE w = v /\ h = g
        <3>1. h \notin r.auth[<<v, a>>] /\ u.scope[<<v, h>>] = refs
            BY <1>1, <1>3, <2>1, <2>3
        <3>2. u.auth[<<v, a>>] = IF a \in refs THEN r.auth[<<v, a>>] \cup {g} ELSE r.auth[<<v, a>>]
            BY <1>4, <2>3
        <3> QED
            BY <2>2, <2>3, <3>1, <3>2
    <2>4. CASE ~(w = v /\ h = g)
        <3>1. u.scope[<<w, h>>] = r.scope[<<w, h>>]
            BY <1>1, <1>3, <2>4
        <3>2. h \in u.auth[<<w, a>>] <=> h \in r.auth[<<w, a>>]
            BY <1>4, <2>4
        <3> QED
            BY <2>1, <3>1, <3>2
    <2> QED
        BY <2>3, <2>4
<1> QED
    BY <1>3, <1>7, <1>8 DEF u

---------------------------------------------------------------------------
\* Facts about the calls

LEMMA CallParts ==
    ASSUME Typed
    PROVE  /\ op.call = "create" => op.vault \in Vaults /\ op.name \in Names
           /\ op.call = "delete" => op.vault \in Vaults
           /\ op = Idle => op.call = "idle"
BY DEF Typed, Creating, Deleting, Idle

LEMMA SnapshotTyped ==
    ASSUME NEW stores, NEW tables
    PROVE  SnapshotOf(stores, tables) \in [Vaults -> SUBSET Hosts]
BY DEF SnapshotOf

\* What create_named_vault and rename_vault write, typed.
LEMMA CreatedTyped ==
    ASSUME Typed, NEW v \in Vaults, NEW n \in Names
    PROVE  CreatedConfig(v, n) \in Config
BY DEF Typed, Config, CreatedConfig

LEMMA RenamedTyped ==
    ASSUME Typed, NEW v \in Vaults, NEW n \in Names
    PROVE  /\ RenameConfig(v, n) \in Config
           /\ Registered(RenameConfig(v, n)) = Registered(config)
<1>1. CASE config.entries[v] = None
    BY <1>1 DEF RenameConfig, Typed
<1>2. CASE config.entries[v] # None
    <2> DEFINE e == [config.entries EXCEPT ![v] = n]
    <2>1. RenameConfig(v, n) = [entries |-> e, open |-> config.open, default |-> config.default]
        BY <1>2 DEF RenameConfig, WithEntry, Typed, Config
    <2>2. /\ e \in [Vaults -> Names \cup {None}]
          /\ \A w \in Vaults : e[w] = IF w = v THEN n ELSE config.entries[w]
        BY DEF Typed, Config
    <2> HIDE DEF e
    <2>3. RenameConfig(v, n) \in Config
        BY <2>1, <2>2 DEF Typed, Config
    <2>4. \A w \in Vaults : e[w] # None <=> config.entries[w] # None
        BY <1>2, <2>2, NamesAssumption
    <2> QED
        BY <2>1, <2>3, <2>4 DEF Registered
<1> QED
    BY <1>1, <1>2

LEMMA NoConfigValid == NoConfig \in Config /\ Valid(NoConfig) /\ Registered(NoConfig) = {}
BY DEF NoConfig, Config, Valid, Registered

\* The index a starting process builds.
LEMMA StartedIndex ==
    ASSUME Typed, NEW opened, NEW unlocked, Start(opened, unlocked)
    PROVE  /\ index' \in Index /\ Consistent(index')
           /\ \A v \in Vaults, h \in Hosts :
                 index'.scope[<<v, h>>] = IF v \in unlocked THEN hosts[fileOf[v]][h] ELSE None
<1> DEFINE i == index'
<1>1. i = [scope |-> [x \in Vaults \X Hosts |->
                         IF x[1] \in unlocked THEN hosts[fileOf[x[1]]][x[2]] ELSE None],
           auth |-> [x \in Vaults \X Auths |->
                         IF x[1] \in unlocked THEN Users(hosts[fileOf[x[1]]], x[2]) ELSE {}]]
    BY DEF Start
<1>2. \A v \in Vaults : fileOf[v] \in Files /\ hosts[fileOf[v]] \in [Hosts -> Refs]
    BY DEF Typed
<1> HIDE DEF i
<1>3. \A v \in Vaults, h \in Hosts :
         i.scope[<<v, h>>] = IF v \in unlocked THEN hosts[fileOf[v]][h] ELSE None
    BY <1>1
<1>4. \A v \in Vaults, a \in Auths :
         i.auth[<<v, a>>] = IF v \in unlocked THEN Users(hosts[fileOf[v]], a) ELSE {}
    BY <1>1
<1>5. i.scope \in [Vaults \X Hosts -> Refs]
    BY <1>1, <1>2 DEF Refs
<1>6. i.auth \in [Vaults \X Auths -> SUBSET Hosts]
    BY <1>1 DEF Users
<1>7. i \in Index
    BY <1>1, <1>5, <1>6 DEF Index
<1>8. Consistent(i)
    <2> SUFFICES ASSUME NEW v \in Vaults, NEW a \in Auths, NEW h \in Hosts
                 PROVE  h \in i.auth[<<v, a>>] <=>
                            i.scope[<<v, h>>] # None /\ a \in i.scope[<<v, h>>]
        BY DEF Consistent
    <2>1. /\ i.scope[<<v, h>>] = IF v \in unlocked THEN hosts[fileOf[v]][h] ELSE None
          /\ i.auth[<<v, a>>] = IF v \in unlocked THEN Users(hosts[fileOf[v]], a) ELSE {}
        BY <1>3, <1>4
    <2> QED
        BY <2>1 DEF Users
<1> QED
    BY <1>3, <1>7, <1>8 DEF i

\* A failure is counted.
LEMMA FaultCounts ==
    ASSUME Typed, Fault
    PROVE  faults' \in Nat /\ faults' # 0
BY DEF Typed, Fault

---------------------------------------------------------------------------
\* Initially

LEMMA InitInv == Init => RegistryInv
<1> SUFFICES ASSUME Init PROVE RegistryInv
    OBVIOUS
<1>1. NoIndex \in Index /\ Consistent(NoIndex)
    <2>1. NoIndex.scope \in [Vaults \X Hosts -> Refs] /\ NoIndex.auth \in [Vaults \X Auths -> SUBSET Hosts]
        BY DEF NoIndex, Refs
    <2>2. \A v \in Vaults, h \in Hosts : NoIndex.scope[<<v, h>>] = None
        BY DEF NoIndex
    <2>3. \A v \in Vaults, a \in Auths : NoIndex.auth[<<v, a>>] = {}
        BY DEF NoIndex
    <2>4. NoIndex \in Index
        BY <2>1 DEF NoIndex, Index
    <2> QED
        BY <2>2, <2>3, <2>4 DEF Consistent
<1>2. hosts \in [Files -> [Hosts -> Refs]]
    BY DEF Init, NoHosts, Refs
<1>3. Typed
    BY <1>1, <1>2, NoConfigValid DEF Init, Typed, Files
<1>4. Managed = {} /\ Kept = {}
    BY NoConfigValid DEF Init, Managed, Kept
<1>5. Configured
    BY <1>4, NoConfigValid DEF Init, Configured
<1>6. Filed /\ InProgress
    BY <1>4 DEF Init, Filed, InProgress, Idle
<1>7. Indexed
    BY <1>1 DEF Init, Indexed, NoIndex
<1>8. Restartable /\ WindowsShowUnlockedOnly
    BY DEF Init, Restartable, WindowsShowUnlockedOnly
<1> QED
    BY <1>3, <1>5, <1>6, <1>7, <1>8 DEF RegistryInv

---------------------------------------------------------------------------
\* Every step keeps the invariant, part by part

LEMMA TypedStep == RegistryInv /\ Next => Typed'
<1> SUFFICES ASSUME RegistryInv, Next PROVE Typed'
    OBVIOUS
<1>0. Typed /\ Valid(saved) /\ Valid(config) /\ Consistent(index)
    BY DEF RegistryInv, Configured, Indexed
<1> USE DEF vars, disk, memory, history, Ready
<1>1. ASSUME NEW v \in Vaults, Migrate(v) PROVE Typed'
    <2>1. [entries |-> [config.entries EXCEPT ![v] = Personal], open |-> {v}, default |-> v] \in Config
        BY <1>0, NamesAssumption DEF Typed, Config
    <2> QED
        BY <1>0, <1>1, <2>1 DEF Typed, Migrate, Saved, Saves, Files
<1>2. ASSUME NEW v \in Vaults, OpenVault(v) \/ UnlockRefused(v) PROVE Typed'
    <2>1. WithOpen(config, v) \in Config
        BY <1>0, WithOpenValid DEF Typed
    <2>2. view' \in [Vaults -> SUBSET Hosts]
        BY <1>0, <1>2, SnapshotTyped DEF Typed, OpenVault, UnlockRefused, Publish
    <2> QED
        BY <1>0, <1>2, <2>1, <2>2 DEF Typed, OpenVault, UnlockRefused, Saved, Saves, Opened
<1>3. ASSUME NEW v \in Vaults, OpenUnsaved(v) PROVE Typed'
    BY <1>0, <1>3, FaultCounts DEF Typed, OpenUnsaved, Refused, Opened
<1>4. ASSUME NEW v \in Vaults, UnlockVault(v) PROVE Typed'
    <2>1. WithOpen(config, v) \in Config
        BY <1>0, WithOpenValid DEF Typed
    <2>2. RebuildVault(index, v, hosts[fileOf[v]]) \in Index
        BY <1>0, RebuildVaultIndex DEF Typed
    <2> QED
        BY <1>0, <1>4, <2>1, <2>2, SnapshotTyped DEF Typed, UnlockVault, Saved, Saves, Publish
<1>5. ASSUME NEW v \in Vaults, UnlockUnreported(v) PROVE Typed'
    <2>1. WithOpen(config, v) \in Config
        BY <1>0, WithOpenValid DEF Typed
    <2>2. index' \in Index
        BY <1>0, <1>5, RemoveVaultIndex DEF Typed, UnlockUnreported
    <2> QED
        BY <1>0, <1>5, <2>1, <2>2, FaultCounts DEF Typed, UnlockUnreported, Saves
<1>6. ASSUME NEW v \in Vaults, LockVault(v) PROVE Typed'
    <2>1. RemoveVault(index, v) \in Index
        BY <1>0, RemoveVaultIndex DEF Typed
    <2> QED
        BY <1>0, <1>6, <2>1, SnapshotTyped DEF Typed, LockVault, Publish
<1>7. ASSUME NEW v \in Vaults, CloseVault(v) \/ CloseUnsaved(v) PROVE Typed'
    <2>1. RemoveVault(index, v) \in Index
        BY <1>0, RemoveVaultIndex DEF Typed
    <2>2. saved' \in Config /\ config' \in Config /\ faults' \in Nat
        BY <1>0, <1>7, WithoutOpenValid, FaultCounts
           DEF Typed, CloseVault, CloseUnsaved, Saved, Saves, Refused
    <2>3. view' \in [Vaults -> SUBSET Hosts]
        BY <1>0, <1>7, SnapshotTyped DEF Typed, CloseVault, CloseUnsaved, Publish
    <2> QED
        BY <1>0, <1>7, <2>1, <2>2, <2>3 DEF Typed, CloseVault, CloseUnsaved, Closes
<1>8. ASSUME NEW v \in Vaults, SetDefaultTarget(v) PROVE Typed'
    <2>1. [config EXCEPT !.default = v] \in Config
        BY <1>0 DEF Typed, Config
    <2> QED
        BY <1>0, <1>8, <2>1, SnapshotTyped DEF Typed, SetDefaultTarget, Saved, Saves, Publish
<1>9. ASSUME NEW v \in Vaults, DeleteForgets(v) \/ DeleteUnsaved(v) PROVE Typed'
    <2>1. RemoveVault(index, v) \in Index
        BY <1>0, RemoveVaultIndex DEF Typed
    <2>2. saved' \in Config /\ config' \in Config /\ faults' \in Nat
        BY <1>0, <1>9, WithoutValid, FaultCounts
           DEF Typed, DeleteForgets, DeleteUnsaved, Saved, Saves, Refused
    <2>3. op' \in {Idle} \cup Creating \cup Deleting
        BY <1>0, <1>9 DEF Typed, DeleteForgets, DeleteUnsaved, Deleting
    <2> QED
        BY <1>0, <1>9, <2>1, <2>2, <2>3 DEF Typed, DeleteForgets, DeleteUnsaved, Forgets
<1>10. ASSUME NEW v \in Vaults, NEW n \in Names, CreateDatabase(v, n) \/ CreateFails(v, n)
       PROVE  Typed'
    <2>1. op' \in {Idle} \cup Creating \cup Deleting
        BY <1>0, <1>10 DEF Typed, CreateDatabase, CreateFails, Creating
    <2> QED
        BY <1>0, <1>10, <2>1, FaultCounts DEF Typed, CreateDatabase, CreateFails, Files
<1>11. ASSUME NEW v \in Vaults, NEW n \in Names, RenameVault(v, n) \/ RenameUnsaved(v, n)
       PROVE  Typed'
    <2>1. saved' \in Config /\ config' \in Config /\ faults' \in Nat
        BY <1>0, <1>11, RenamedTyped, FaultCounts
           DEF Typed, RenameVault, RenameUnsaved, Saved, Saves, Refused
    <2>2. view' \in [Vaults -> SUBSET Hosts]
        BY <1>0, <1>11, SnapshotTyped DEF Typed, RenameVault, RenameUnsaved, Publish
    <2> QED
        BY <1>0, <1>11, <2>1, <2>2 DEF Typed, RenameVault, RenameUnsaved, Renames
<1>12. ASSUME NEW v \in Vaults, NEW h \in Hosts, DeleteHost(v, h) PROVE Typed'
    <2>1. RemoveScope(index, v, h) \in Index
        BY <1>0, RemoveScopeIndex DEF Typed
    <2>2. hosts' \in [Files -> [Hosts -> Refs]]
        BY <1>0, <1>12 DEF Typed, DeleteHost, Refs
    <2> QED
        BY <1>0, <1>12, <2>1, <2>2, SnapshotTyped DEF Typed, DeleteHost, Publish
<1>13. ASSUME NEW v \in Vaults, NEW h \in Hosts, NEW refs \in SUBSET Auths,
              SaveHost(v, h, refs) \/ SaveHostUnreported(v, h, refs)
       PROVE  Typed'
    <2>1. index' \in Index
        BY <1>0, <1>13, UpsertScopeIndex DEF Typed, SaveHost, SaveHostUnreported
    <2>2. hosts' \in [Files -> [Hosts -> Refs]]
        BY <1>0, <1>13 DEF Typed, SaveHost, SaveHostUnreported, Refs
    <2>3. view' \in [Vaults -> SUBSET Hosts] /\ faults' \in Nat
        BY <1>0, <1>13, SnapshotTyped, FaultCounts DEF Typed, SaveHost, SaveHostUnreported, Publish
    <2> QED
        BY <1>0, <1>13, <2>1, <2>2, <2>3 DEF Typed, SaveHost, SaveHostUnreported
<1>14. ASSUME NEW opened \in SUBSET Vaults, NEW unlocked \in SUBSET Vaults, Start(opened, unlocked)
       PROVE  Typed'
    <2>1. index' \in Index
        BY <1>0, <1>14, StartedIndex
    <2>2. store' \in [Vaults -> {"none", "locked", "unlocked"}]
        BY <1>14 DEF Start, Loaded
    <2>3. faults' \in Nat /\ name' \in [Vaults -> Names \cup {None}]
        BY <1>0, <1>14, FaultCounts DEF Start, Typed, Config
    <2> QED
        BY <1>0, <1>14, <2>1, <2>2, <2>3, SnapshotTyped DEF Start, Typed
<1>15. CASE LoadDefaults
    BY <1>0, <1>15, NoConfigValid, FaultCounts DEF Typed, LoadDefaults
<1>16. CASE Stop
    <2>1. NoIndex \in Index
        BY DEF NoIndex, Index, Refs
    <2> QED
        BY <1>0, <1>16, <2>1 DEF Typed, Stop
<1>17. CASE CreateRegisters
    <2>1. op.vault \in Vaults /\ op.name \in Names
        BY <1>0, <1>17, CallParts DEF CreateRegisters
    <2>2. CreatedConfig(op.vault, op.name) \in Config
        BY <1>0, <2>1, CreatedTyped
    <2>3. RebuildVault(index, op.vault, hosts[op.vault]) \in Index
        BY <1>0, <2>1, RebuildVaultIndex DEF Typed, Files
    <2> QED
        BY <1>0, <1>17, <2>1, <2>2, <2>3, SnapshotTyped DEF Typed, CreateRegisters, Saved, Saves, Publish
<1>18. CASE CreateUndone
    BY <1>0, <1>18, FaultCounts DEF Typed, CreateUndone, Refused
<1>19. CASE DeleteUnlinks
    BY <1>0, <1>19, CallParts, SnapshotTyped DEF Typed, DeleteUnlinks, Publish
<1>20. CASE DeleteUnlinkFails
    BY <1>0, <1>20, FaultCounts DEF Typed, DeleteUnlinkFails
<1>21. CASE ResetConfig \/ UpdateConfig
    BY <1>0, <1>21, NoConfigValid DEF Typed, ResetConfig, UpdateConfig, Saved, Saves
<1> QED
    BY <1>1, <1>2, <1>3, <1>4, <1>5, <1>6, <1>7, <1>8, <1>9, <1>10, <1>11, <1>12, <1>13, <1>14,
       <1>15, <1>16, <1>17, <1>18, <1>19, <1>20, <1>21 DEF Next

LEMMA ConfiguredStep == RegistryInv /\ Next => Configured'
<1> SUFFICES ASSUME RegistryInv, Next PROVE Configured'
    OBVIOUS
<1>0. Typed /\ Configured
    BY DEF RegistryInv
<1>1. Valid(saved') /\ Valid(config')
    <2> USE <1>0, NoConfigValid DEF Configured, Saved, Saves, Refused, disk
    <2>1. ASSUME NEW v \in Vaults, NEW n \in Names,
                 CreateDatabase(v, n) \/ CreateFails(v, n) \/ RenameVault(v, n) \/ RenameUnsaved(v, n)
          PROVE  Valid(saved') /\ Valid(config')
        BY <2>1 DEF CreateDatabase, CreateFails, RenameVault, RenameUnsaved
    <2>2. ASSUME NEW v \in Vaults, NEW h \in Hosts, NEW refs \in SUBSET Auths,
                 DeleteHost(v, h) \/ SaveHost(v, h, refs) \/ SaveHostUnreported(v, h, refs)
          PROVE  Valid(saved') /\ Valid(config')
        BY <2>2 DEF DeleteHost, SaveHost, SaveHostUnreported
    <2>3. ASSUME NEW v \in Vaults, \/ Migrate(v) \/ OpenVault(v) \/ OpenUnsaved(v) \/ UnlockVault(v)
                                   \/ UnlockRefused(v) \/ UnlockUnreported(v) \/ LockVault(v)
          PROVE  Valid(saved') /\ Valid(config')
        BY <2>3 DEF Migrate, OpenVault, OpenUnsaved, UnlockVault, UnlockRefused, UnlockUnreported, LockVault
    <2>4. ASSUME NEW v \in Vaults, \/ CloseVault(v) \/ CloseUnsaved(v) \/ SetDefaultTarget(v)
                                   \/ DeleteForgets(v) \/ DeleteUnsaved(v)
          PROVE  Valid(saved') /\ Valid(config')
        BY <2>4 DEF CloseVault, CloseUnsaved, SetDefaultTarget, DeleteForgets, DeleteUnsaved
    <2>5. ASSUME NEW opened \in SUBSET Vaults, NEW unlocked \in SUBSET Vaults, Start(opened, unlocked)
          PROVE  Valid(saved') /\ Valid(config')
        BY <2>5 DEF Start
    <2>6. CASE \/ LoadDefaults \/ Stop \/ CreateRegisters \/ CreateUndone
               \/ DeleteUnlinks \/ DeleteUnlinkFails \/ ResetConfig \/ UpdateConfig
        BY <2>6 DEF LoadDefaults, Stop, CreateRegisters, CreateUndone, DeleteUnlinks, DeleteUnlinkFails,
                    ResetConfig, UpdateConfig
    <2> QED
        BY <2>1, <2>2, <2>3, <2>4, <2>5, <2>6 DEF Next

<1>2. "unreadable" \notin lost' => config' = saved'
    <2> USE <1>0 DEF Configured, Saved, Saves, Refused, disk, history
    <2>1. ASSUME NEW v \in Vaults, NEW n \in Names,
                 CreateDatabase(v, n) \/ CreateFails(v, n) \/ RenameVault(v, n) \/ RenameUnsaved(v, n)
          PROVE  "unreadable" \notin lost' => config' = saved'
        BY <2>1 DEF CreateDatabase, CreateFails, RenameVault, RenameUnsaved
    <2>2. ASSUME NEW v \in Vaults, NEW h \in Hosts, NEW refs \in SUBSET Auths,
                 DeleteHost(v, h) \/ SaveHost(v, h, refs) \/ SaveHostUnreported(v, h, refs)
          PROVE  "unreadable" \notin lost' => config' = saved'
        BY <2>2 DEF DeleteHost, SaveHost, SaveHostUnreported
    <2>3. ASSUME NEW v \in Vaults, \/ Migrate(v) \/ OpenVault(v) \/ OpenUnsaved(v) \/ UnlockVault(v)
                                   \/ UnlockRefused(v) \/ UnlockUnreported(v) \/ LockVault(v)
          PROVE  "unreadable" \notin lost' => config' = saved'
        <3>1. CASE Migrate(v) \/ OpenVault(v) \/ OpenUnsaved(v) \/ UnlockRefused(v)
            BY <3>1 DEF Migrate, OpenVault, OpenUnsaved, UnlockRefused
        <3>2. CASE UnlockVault(v) \/ UnlockUnreported(v) \/ LockVault(v)
            BY <3>2 DEF UnlockVault, UnlockUnreported, LockVault
        <3> QED
            BY <2>3, <3>1, <3>2
    <2>4. ASSUME NEW v \in Vaults, \/ CloseVault(v) \/ CloseUnsaved(v) \/ SetDefaultTarget(v)
                                   \/ DeleteForgets(v) \/ DeleteUnsaved(v)
          PROVE  "unreadable" \notin lost' => config' = saved'
        BY <2>4 DEF CloseVault, CloseUnsaved, Closes, SetDefaultTarget, DeleteForgets, DeleteUnsaved, Forgets
    <2>5. ASSUME NEW opened \in SUBSET Vaults, NEW unlocked \in SUBSET Vaults, Start(opened, unlocked)
          PROVE  "unreadable" \notin lost' => config' = saved'
        BY <2>5 DEF Start
    <2>6. CASE \/ LoadDefaults \/ Stop \/ CreateRegisters \/ CreateUndone
               \/ DeleteUnlinks \/ DeleteUnlinkFails \/ ResetConfig \/ UpdateConfig
        BY <2>6 DEF LoadDefaults, Stop, CreateRegisters, CreateUndone, DeleteUnlinks, DeleteUnlinkFails,
                    ResetConfig, UpdateConfig
    <2> QED
        BY <2>1, <2>2, <2>3, <2>4, <2>5, <2>6 DEF Next
<1>3. /\ \A w \in Vaults : store'[w] # "none" => name'[w] # None
      /\ ~up' => (\A w \in Vaults : name'[w] = None) /\ op' = Idle
    <2> DEFINE Goal == /\ \A w \in Vaults : store'[w] # "none" => name'[w] # None
                       /\ ~up' => (\A w \in Vaults : name'[w] = None) /\ op' = Idle
    <2>0. /\ \A w \in Vaults : store[w] # "none" => name[w] # None
          /\ ~up => (\A w \in Vaults : name[w] = None) /\ op = Idle
          /\ name \in [Vaults -> Names \cup {None}]
          /\ store \in [Vaults -> {"none", "locked", "unlocked"}]
        BY <1>0 DEF Configured, Typed, Managed
    <2> USE <2>0, NamesAssumption DEF memory, Ready
    <2>1. ASSUME NEW v \in Vaults, NEW n \in Names,
                 CreateDatabase(v, n) \/ CreateFails(v, n) \/ RenameVault(v, n) \/ RenameUnsaved(v, n)
          PROVE  Goal
        BY <2>1 DEF CreateDatabase, CreateFails, RenameVault, RenameUnsaved, Renames
    <2>2. ASSUME NEW v \in Vaults, NEW h \in Hosts, NEW refs \in SUBSET Auths,
                 DeleteHost(v, h) \/ SaveHost(v, h, refs) \/ SaveHostUnreported(v, h, refs)
          PROVE  Goal
        BY <2>2 DEF DeleteHost, SaveHost, SaveHostUnreported
    <2>3. ASSUME NEW v \in Vaults, \/ Migrate(v) \/ OpenVault(v) \/ OpenUnsaved(v) \/ UnlockVault(v)
                                   \/ UnlockRefused(v) \/ UnlockUnreported(v) \/ LockVault(v)
          PROVE  Goal
        BY <2>3 DEF Migrate, OpenVault, OpenUnsaved, UnlockVault, UnlockRefused, UnlockUnreported, LockVault,
                    Opened, Managed
    <2>4. ASSUME NEW v \in Vaults, \/ CloseVault(v) \/ CloseUnsaved(v) \/ SetDefaultTarget(v)
                                   \/ DeleteForgets(v) \/ DeleteUnsaved(v)
          PROVE  Goal
        BY <2>4 DEF CloseVault, CloseUnsaved, Closes, SetDefaultTarget, DeleteForgets, DeleteUnsaved, Forgets
    <2>5. ASSUME NEW opened \in SUBSET Vaults, NEW unlocked \in SUBSET Vaults, Start(opened, unlocked)
          PROVE  Goal
        <3>1. \A w \in opened : config.entries[w] # None
            BY <1>0, <2>5 DEF Start, Configured, Valid, Registered
        <3>2. \A w \in Vaults : store'[w] # "none" => w \in opened
            BY <2>5 DEF Start, Loaded
        <3> QED
            BY <2>5, <3>1, <3>2 DEF Start
    <2>6. CASE CreateRegisters
        BY <1>0, <2>6, CallParts DEF CreateRegisters
    <2>7. CASE \/ LoadDefaults \/ Stop \/ CreateUndone
               \/ DeleteUnlinks \/ DeleteUnlinkFails \/ ResetConfig \/ UpdateConfig
        BY <1>0, <2>7, CallParts DEF LoadDefaults, Stop, CreateUndone, DeleteUnlinks, DeleteUnlinkFails,
                    ResetConfig, UpdateConfig
    <2> QED
        BY <2>1, <2>2, <2>3, <2>4, <2>5, <2>6, <2>7 DEF Next
<1> QED
    BY <1>1, <1>2, <1>3 DEF Configured, Managed

\* A step that moves no file and leaves the known vaults as they are.
SameRegistry ==
    /\ UNCHANGED <<files, fileOf, unused, promised, gone, op>>
    /\ lost \subseteq lost'
    /\ \A v \in Vaults : name'[v] # None <=> name[v] # None
    /\ \/ UNCHANGED <<saved, config>>
       \/ saved' = config' /\ Registered(config') = Registered(config)

LEMMA SameRegistryFiled ==
    ASSUME RegistryInv, SameRegistry
    PROVE  Filed' /\ InProgress'
<1>0. Configured /\ Filed /\ InProgress
    BY DEF RegistryInv
<1>1. \A v \in Kept' : v \in Kept
    BY DEF SameRegistry, Kept, Managed
<1>2. lost' \subseteq {"refused"} => promised' \subseteq Registered(saved')
    BY <1>0 DEF SameRegistry, Configured, Filed
<1>3. Filed'
    BY <1>0, <1>1, <1>2 DEF Filed, SameRegistry
<1>4. InProgress'
    BY <1>0, <1>1 DEF InProgress, SameRegistry
<1> QED
    BY <1>3, <1>4

\* The steps of that kind.
LEMMA SameRegistrySteps ==
    ASSUME RegistryInv, NEW v \in Vaults
    PROVE  /\ OpenVault(v) \/ UnlockVault(v) \/ UnlockRefused(v) \/ UnlockUnreported(v) => SameRegistry
           /\ OpenUnsaved(v) \/ LockVault(v) \/ CloseUnsaved(v) => SameRegistry
           /\ CloseVault(v) \/ SetDefaultTarget(v) => SameRegistry
           /\ \A n \in Names : RenameVault(v, n) \/ RenameUnsaved(v, n) => SameRegistry
           /\ \A h \in Hosts : DeleteHost(v, h) => SameRegistry
           /\ \A h \in Hosts, refs \in SUBSET Auths :
                 SaveHost(v, h, refs) \/ SaveHostUnreported(v, h, refs) => SameRegistry
<1>0. Typed /\ config \in Config /\ Valid(config) /\ name \in [Vaults -> Names \cup {None}]
    BY DEF RegistryInv, Typed, Configured
<1> USE DEF history, disk, memory
<1>1. ASSUME OpenVault(v) \/ UnlockVault(v) \/ UnlockRefused(v) \/ UnlockUnreported(v)
      PROVE  SameRegistry
    <2>1. Registered(WithOpen(config, v)) = Registered(config)
        BY <1>0, WithOpenValid
    <2>2. saved' = WithOpen(config, v) /\ config' = WithOpen(config, v)
        BY <1>1 DEF OpenVault, UnlockVault, UnlockRefused, UnlockUnreported, Saved, Saves
    <2> QED
        BY <1>1, <2>1, <2>2 DEF OpenVault, UnlockVault, UnlockRefused, UnlockUnreported, SameRegistry
<1>2. ASSUME OpenUnsaved(v) \/ LockVault(v) \/ CloseUnsaved(v) PROVE SameRegistry
    BY <1>2 DEF OpenUnsaved, LockVault, CloseUnsaved, Closes, Refused, SameRegistry
<1>3. ASSUME CloseVault(v) PROVE SameRegistry
    <2>1. Registered(WithoutOpen(config, v)) = Registered(config)
        BY <1>0, WithoutOpenValid
    <2> QED
        BY <1>3, <2>1 DEF CloseVault, Closes, Saved, Saves, SameRegistry
<1>4. ASSUME SetDefaultTarget(v) PROVE SameRegistry
    <2>1. Registered([config EXCEPT !.default = v]) = Registered(config)
        BY <1>0 DEF Config, Registered
    <2> QED
        BY <1>4, <2>1 DEF SetDefaultTarget, Saved, Saves, SameRegistry
<1>5. ASSUME NEW n \in Names, RenameVault(v, n) \/ RenameUnsaved(v, n) PROVE SameRegistry
    <2>1. Registered(RenameConfig(v, n)) = Registered(config)
        BY <1>0, RenamedTyped
    <2>2. \A w \in Vaults : name'[w] # None <=> name[w] # None
        BY <1>0, <1>5, NamesAssumption DEF RenameVault, RenameUnsaved, Renames, Managed
    <2>3. \/ UNCHANGED <<saved, config>>
          \/ saved' = config' /\ Registered(config') = Registered(config)
        BY <1>5, <2>1 DEF RenameVault, RenameUnsaved, Saved, Saves, Refused
    <2> QED
        BY <1>5, <2>2, <2>3 DEF RenameVault, RenameUnsaved, Renames, SameRegistry
<1>6. ASSUME NEW h \in Hosts, DeleteHost(v, h) PROVE SameRegistry
    BY <1>6 DEF DeleteHost, SameRegistry
<1>7. ASSUME NEW h \in Hosts, NEW refs \in SUBSET Auths,
             SaveHost(v, h, refs) \/ SaveHostUnreported(v, h, refs)
      PROVE  SameRegistry
    BY <1>7 DEF SaveHost, SaveHostUnreported, SameRegistry
<1> QED
    BY <1>1, <1>2, <1>3, <1>4, <1>5, <1>6, <1>7

LEMMA FiledStep == RegistryInv /\ Next => Filed' /\ InProgress'
<1> SUFFICES ASSUME RegistryInv, Next PROVE Filed' /\ InProgress'
    OBVIOUS
<1>0. Typed /\ Configured /\ Filed /\ InProgress
    BY DEF RegistryInv
<1>1. name \in [Vaults -> Names \cup {None}] /\ config \in Config /\ Valid(config)
    BY <1>0 DEF Typed, Configured
<1> USE DEF history, disk, memory, Ready
<1>2. CASE UpdateConfig
    BY <1>2, SameRegistryFiled DEF UpdateConfig, Saved, Saves, SameRegistry
<1>3. ASSUME NEW v \in Vaults, Migrate(v) PROVE Filed' /\ InProgress'
    <2>1. /\ v \in unused /\ unused' = unused \ {v} /\ Legacy \in files
          /\ fileOf' = [fileOf EXCEPT ![v] = Legacy]
          /\ saved' = config'
          /\ config' = [entries |-> [config.entries EXCEPT ![v] = Personal], open |-> {v}, default |-> v]
          /\ UNCHANGED <<files, name, op, promised, gone, lost>>
        BY <1>3 DEF Migrate, NeedsMigration, Saved, Saves
    <2>2. \A w \in Vaults : config.entries[w] = None /\ name[w] = None
        BY <1>0, <1>3 DEF Migrate, NeedsMigration, Registered, Configured, Managed
    <2>3. \A w \in Kept' : w = v
        BY <1>1, <2>1, <2>2 DEF Kept, Registered, Managed, Config
    <2>4. v \notin promised /\ v \notin gone /\ Legacy \in files'
        BY <1>0, <2>1 DEF Filed
    <2>5. \A w \in Vaults : fileOf'[w] = IF w = v THEN Legacy ELSE fileOf[w]
        BY <1>0, <2>1 DEF Typed
    <2>6. lost' \subseteq {"refused"} => promised' = {}
        BY <1>0, <2>1, <2>2 DEF Configured, Filed, Registered, Typed
    <2>7. Filed'
        BY <1>0, <2>1, <2>3, <2>4, <2>5, <2>6 DEF Filed, Typed
    <2>8. op' = Idle
        BY <1>0, <1>3 DEF Configured, Migrate
    <2> QED
        BY <2>7, <2>8 DEF InProgress, Idle
<1>4. ASSUME NEW v \in Vaults, DeleteForgets(v) PROVE Filed' /\ InProgress'
    <2>1. v \in Kept /\ op' = [call |-> "delete", vault |-> v, name |-> None]
        BY <1>4 DEF DeleteForgets, Forgets, Kept
    <2>2. /\ saved' = Without(config, v) /\ config' = Without(config, v)
          /\ Registered(Without(config, v)) = Registered(config) \ {v}
        BY <1>1, <1>4, WithoutValid DEF DeleteForgets, Saved, Saves
    <2>3. \A w \in Kept' : w \in Kept /\ w # v
        BY <1>1, <1>4, <2>2 DEF DeleteForgets, Forgets, Kept, Managed
    <2>4. promised' = promised \ {v} /\ UNCHANGED <<files, fileOf, unused, gone, lost>>
        BY <1>4 DEF DeleteForgets, Forgets
    <2>5. lost' \subseteq {"refused"} => promised' \subseteq Registered(saved')
        BY <1>0, <2>2, <2>4 DEF Configured, Filed
    <2>6. Filed'
        BY <1>0, <2>3, <2>4, <2>5 DEF Filed
    <2>7. InProgress'
        BY <1>0, <2>1, <2>3, <2>4 DEF InProgress, Filed
    <2> QED
        BY <2>6, <2>7
<1>5. ASSUME NEW v \in Vaults, DeleteUnsaved(v) PROVE Filed' /\ InProgress'
    <2>1. \A w \in Kept' : w \in Kept
        BY <1>1, <1>5 DEF DeleteUnsaved, Forgets, Refused, Kept, Managed
    <2>2. promised' = promised \ {v} /\ UNCHANGED <<saved, files, fileOf, unused, gone, lost, op>>
        BY <1>5 DEF DeleteUnsaved, Forgets, Refused
    <2> QED
        BY <1>0, <2>1, <2>2 DEF Filed, InProgress
<1>6. ASSUME NEW v \in Vaults, NEW n \in Names, CreateDatabase(v, n) PROVE Filed' /\ InProgress'
    <2>1. /\ v \in unused /\ unused' = unused \ {v} /\ files' = files \cup {v}
          /\ op' = [call |-> "create", vault |-> v, name |-> n]
          /\ UNCHANGED <<saved, config, name, fileOf, promised, gone, lost>>
        BY <1>6 DEF CreateDatabase
    <2>2. Kept' = Kept
        BY <2>1 DEF Kept, Managed
    <2>3. Filed'
        BY <1>0, <2>1, <2>2, IdsAssumption DEF Filed, Typed
    <2>4. InProgress'
        BY <1>0, <2>1, <2>2 DEF InProgress, Filed
    <2> QED
        BY <2>3, <2>4
<1>7. ASSUME NEW v \in Vaults, NEW n \in Names, CreateFails(v, n) PROVE Filed' /\ InProgress'
    <2>1. /\ v \in unused /\ unused' = unused \ {v} /\ files' \in {files, files \cup {v}}
          /\ op' = Idle
          /\ UNCHANGED <<saved, config, name, fileOf, promised, gone, lost>>
        BY <1>7 DEF CreateFails
    <2>2. Kept' = Kept
        BY <2>1 DEF Kept, Managed
    <2>3. Filed'
        BY <1>0, <2>1, <2>2, IdsAssumption DEF Filed, Typed
    <2> QED
        BY <2>1, <2>3 DEF InProgress, Idle
<1>8. ASSUME NEW opened \in SUBSET Vaults, NEW unlocked \in SUBSET Vaults, Start(opened, unlocked)
      PROVE  Filed' /\ InProgress'
    <2>1. \A w \in Kept' : w \in Kept
        BY <1>8 DEF Start, Kept, Managed, Registered
    <2> QED
        BY <1>0, <1>8, <2>1 DEF Start, Filed, InProgress
<1>9. CASE LoadDefaults
    <2>1. \A w \in Kept' : w \in Kept
        BY <1>9, NoConfigValid DEF LoadDefaults, Kept, Managed
    <2> QED
        BY <1>0, <1>9, <2>1 DEF LoadDefaults, Filed, InProgress
<1>10. CASE Stop
    <2>1. \A w \in Kept' : w \in Kept
        BY <1>10 DEF Stop, Kept, Managed
    <2> QED
        BY <1>0, <1>10, <2>1 DEF Stop, Filed, InProgress, Idle
<1>11. CASE CreateRegisters
    <2> DEFINE v == op.vault
               c == CreatedConfig(v, op.name)
    <2>1. v \in Vaults /\ op.name \in Names
        BY <1>0, <1>11, CallParts DEF CreateRegisters
    <2>2. /\ v \notin Kept /\ v \notin unused /\ v \notin promised /\ v \notin gone
          /\ fileOf[v] = v /\ v \in files
        BY <1>0, <1>11 DEF InProgress, CreateRegisters
    <2>3. /\ saved' = c /\ config' = c
          /\ name' = [name EXCEPT ![v] = op.name]
          /\ promised' = promised \cup {v} /\ op' = Idle
          /\ UNCHANGED <<files, fileOf, unused, gone, lost>>
        BY <1>11 DEF CreateRegisters, Saved, Saves
    <2>4. Registered(c) = Registered(config) \cup {v}
        BY <1>1, <2>1, NamesAssumption DEF CreatedConfig, Registered, Config
    <2> HIDE DEF v, c
    <2>5. \A w \in Kept' : w = v \/ w \in Kept
        BY <1>1, <2>1, <2>3, <2>4 DEF Kept, Managed
    <2>6. \A w \in Kept : fileOf[w] # v
        BY <1>0, <2>1, <2>2, IdsAssumption DEF Filed, Kept, Managed, Registered
    <2>7. lost' \subseteq {"refused"} => promised' \subseteq Registered(saved')
        BY <1>0, <2>3, <2>4 DEF Configured, Filed
    <2>8. Filed'
        BY <1>0, <2>2, <2>3, <2>5, <2>6, <2>7 DEF Filed
    <2> QED
        BY <2>3, <2>8 DEF InProgress, Idle
<1>12. CASE CreateUndone
    <2>1. /\ files' = files \ {op.vault} /\ op' = Idle
          /\ UNCHANGED <<saved, config, name, fileOf, unused, promised, gone, lost>>
        BY <1>12 DEF CreateUndone, Refused
    <2>2. op.vault \in Vaults /\ op.vault \notin Kept /\ op.vault \notin promised
        BY <1>0, <1>12, CallParts DEF InProgress, CreateUndone
    <2>3. Kept' = Kept
        BY <2>1 DEF Kept, Managed
    <2>4. \A w \in Kept : fileOf[w] # op.vault
        BY <1>0, <2>2, IdsAssumption DEF Filed, Kept, Managed, Registered
    <2>5. Filed'
        BY <1>0, <2>1, <2>2, <2>3, <2>4 DEF Filed
    <2> QED
        BY <2>1, <2>5 DEF InProgress, Idle
<1>13. CASE DeleteUnlinks
    <2>1. /\ files' = files \ {fileOf[op.vault]} /\ op' = Idle /\ gone' = gone \cup {op.vault}
          /\ UNCHANGED <<saved, config, name, fileOf, unused, promised, lost>>
        BY <1>13 DEF DeleteUnlinks
    <2>2. /\ op.vault \in Vaults /\ op.vault \notin Kept /\ op.vault \notin unused /\ op.vault \notin promised
          /\ \A w \in Kept : fileOf[w] # fileOf[op.vault]
        BY <1>0, <1>13, CallParts DEF InProgress, DeleteUnlinks
    <2>3. Kept' = Kept
        BY <2>1 DEF Kept, Managed
    <2>4. \A w \in promised : w # fileOf[op.vault]
        <3>1. fileOf[op.vault] = op.vault \/ fileOf[op.vault] = Legacy
            BY <1>0, <2>2 DEF Filed
        <3>2. \A w \in promised : w \in Vaults
            BY <1>0 DEF Typed
        <3> QED
            BY <2>2, <3>1, <3>2, IdsAssumption
    <2>5. Filed'
        BY <1>0, <2>1, <2>2, <2>3, <2>4 DEF Filed
    <2> QED
        BY <2>1, <2>5 DEF InProgress, Idle
<1>14. CASE DeleteUnlinkFails
    <2>1. Kept' = Kept
        BY <1>14 DEF DeleteUnlinkFails, Kept, Managed
    <2> QED
        BY <1>0, <1>14, <2>1 DEF DeleteUnlinkFails, Filed, InProgress, Idle
<1>15. CASE ResetConfig
    <2>1. \A w \in Kept' : w \in Kept
        BY <1>15, NoConfigValid DEF ResetConfig, Saved, Saves, Kept, Managed
    <2>2. ~(lost' \subseteq {"refused"})
        BY <1>15 DEF ResetConfig
    <2> QED
        BY <1>0, <1>15, <2>1, <2>2 DEF ResetConfig, Filed, InProgress
<1>16. ASSUME NEW v \in Vaults, \/ OpenVault(v) \/ OpenUnsaved(v)
                                \/ UnlockVault(v) \/ UnlockRefused(v) \/ UnlockUnreported(v)
                                \/ LockVault(v) \/ CloseVault(v) \/ CloseUnsaved(v) \/ SetDefaultTarget(v)
       PROVE  Filed' /\ InProgress'
    BY <1>16, SameRegistrySteps, SameRegistryFiled
<1>17. ASSUME NEW v \in Vaults, NEW n \in Names, RenameVault(v, n) \/ RenameUnsaved(v, n)
       PROVE  Filed' /\ InProgress'
    BY <1>17, SameRegistrySteps, SameRegistryFiled
<1>18. ASSUME NEW v \in Vaults, NEW h \in Hosts, NEW refs \in SUBSET Auths,
              DeleteHost(v, h) \/ SaveHost(v, h, refs) \/ SaveHostUnreported(v, h, refs)
       PROVE  Filed' /\ InProgress'
    BY <1>18, SameRegistrySteps, SameRegistryFiled
<1> QED
    BY <1>2, <1>3, <1>4, <1>5, <1>6, <1>7, <1>8, <1>9, <1>10, <1>11, <1>12, <1>13, <1>14, <1>15,
       <1>16, <1>17, <1>18 DEF Next

\* The vaults of the index: no step but the calls on a vault touches it, and a
\* call touches only the scopes and the database of its own vault.
LEMMA IndexedStep == RegistryInv /\ Next => Indexed'
<1> SUFFICES ASSUME RegistryInv, Next PROVE Indexed'
    OBVIOUS
<1>0. Typed /\ Configured /\ Filed /\ Indexed /\ Typed'
    BY TypedStep DEF RegistryInv
<1>1. /\ index \in Index /\ Consistent(index)
      /\ store \in [Vaults -> {"none", "locked", "unlocked"}]
      /\ hosts \in [Files -> [Hosts -> Refs]] /\ fileOf \in [Vaults -> Files]
      /\ faults \in Nat
    BY <1>0 DEF Typed, Indexed
<1>2. \A v, w \in Vaults : store[v] # "none" /\ store[w] # "none" /\ fileOf[v] = fileOf[w] => v = w
    BY <1>0 DEF Configured, Filed, Kept, Managed
<1> DEFINE Exact == \A w \in Vaults, h \in Hosts :
                       /\ store'[w] # "unlocked" => index'.scope[<<w, h>>] = None
                       /\ faults' = 0 /\ store'[w] = "unlocked" =>
                             index'.scope[<<w, h>>] = hosts'[fileOf'[w]][h]
<1>3. ASSUME Consistent(index'), Exact PROVE Indexed'
    BY <1>3 DEF Indexed, Consistent
<1>4. \A w \in Vaults, h \in Hosts :
         /\ store[w] # "unlocked" => index.scope[<<w, h>>] = None
         /\ faults = 0 /\ store[w] = "unlocked" => index.scope[<<w, h>>] = hosts[fileOf[w]][h]
    BY <1>0 DEF Indexed
<1> USE DEF history, disk, memory, Ready
<1>5. ASSUME UNCHANGED <<index, hosts, fileOf>>, faults' = 0 => faults = 0,
             \A w \in Vaults : store'[w] = "unlocked" <=> store[w] = "unlocked"
      PROVE  Indexed'
    BY <1>1, <1>3, <1>4, <1>5
<1>6. Fault => faults' # 0
    BY <1>0, FaultCounts
<1>7. ASSUME NEW v \in Vaults, Migrate(v) PROVE Indexed'
    <2>1. \A w \in Vaults : store[w] = "none"
        BY <1>0, <1>7 DEF Migrate, Configured, Managed
    <2> QED
        BY <1>1, <1>3, <1>4, <1>7, <2>1 DEF Migrate
<1>8. ASSUME NEW v \in Vaults, OpenVault(v) \/ OpenUnsaved(v) \/ UnlockRefused(v) PROVE Indexed'
    <2>1. \A w \in Vaults : store'[w] = "unlocked" <=> store[w] = "unlocked"
        BY <1>1, <1>8 DEF OpenVault, OpenUnsaved, UnlockRefused, Opened
    <2>2. UNCHANGED <<index, hosts, fileOf>> /\ (faults' = 0 => faults = 0)
        BY <1>6, <1>8 DEF OpenVault, OpenUnsaved, UnlockRefused, Saved, Refused
    <2> QED
        BY <1>5, <2>1, <2>2
<1>9. ASSUME NEW v \in Vaults, UnlockVault(v) PROVE Indexed'
    <2>1. /\ index' = RebuildVault(index, v, hosts[fileOf[v]])
          /\ store' = [store EXCEPT ![v] = "unlocked"]
          /\ UNCHANGED <<hosts, fileOf, faults>>
        BY <1>9 DEF UnlockVault, Saved
    <2>2. hosts[fileOf[v]] \in [Hosts -> Refs]
        BY <1>1
    <2>3. /\ Consistent(index')
          /\ \A w \in Vaults, h \in Hosts :
                index'.scope[<<w, h>>] = IF w = v THEN hosts[fileOf[v]][h] ELSE index.scope[<<w, h>>]
        BY <1>1, <2>1, <2>2, RebuildVaultIndex
    <2> QED
        BY <1>1, <1>3, <1>4, <2>1, <2>3
<1>10. ASSUME NEW v \in Vaults, UnlockUnreported(v) PROVE Indexed'
    <2>1. /\ Consistent(index')
          /\ \A w \in Vaults, h \in Hosts : w # v => index'.scope[<<w, h>>] = index.scope[<<w, h>>]
        BY <1>1, <1>10, RemoveVaultIndex DEF UnlockUnreported
    <2>2. faults' # 0 /\ store' = [store EXCEPT ![v] = "unlocked"]
        BY <1>6, <1>10 DEF UnlockUnreported
    <2> QED
        BY <1>1, <1>3, <1>4, <2>1, <2>2
<1>11. ASSUME NEW v \in Vaults, index' = RemoveVault(index, v), UNCHANGED <<hosts, fileOf>>,
              faults' = 0 => faults = 0,
              NEW s \in {"none", "locked"}, store' = [store EXCEPT ![v] = s]
       PROVE  Indexed'
    <2>1. /\ Consistent(index')
          /\ \A w \in Vaults, h \in Hosts :
                index'.scope[<<w, h>>] = IF w = v THEN None ELSE index.scope[<<w, h>>]
        BY <1>1, <1>11, RemoveVaultIndex
    <2> QED
        BY <1>1, <1>3, <1>4, <1>11, <2>1
<1>12. ASSUME NEW v \in Vaults, LockVault(v) PROVE Indexed'
    BY <1>11, <1>12 DEF LockVault
<1>13. ASSUME NEW v \in Vaults, CloseVault(v) \/ CloseUnsaved(v) PROVE Indexed'
    <2>1. faults' = 0 => faults = 0
        BY <1>6, <1>13 DEF CloseVault, CloseUnsaved, Saved, Refused
    <2> QED
        BY <1>11, <1>13, <2>1 DEF CloseVault, CloseUnsaved, Closes
<1>14. ASSUME NEW v \in Vaults, DeleteForgets(v) \/ DeleteUnsaved(v) PROVE Indexed'
    <2>1. faults' = 0 => faults = 0
        BY <1>6, <1>14 DEF DeleteForgets, DeleteUnsaved, Saved, Refused
    <2> QED
        BY <1>11, <1>14, <2>1 DEF DeleteForgets, DeleteUnsaved, Forgets
<1>15. ASSUME NEW v \in Vaults, SetDefaultTarget(v) PROVE Indexed'
    BY <1>5, <1>15 DEF SetDefaultTarget, Saved
<1>16. ASSUME NEW v \in Vaults, NEW n \in Names, CreateDatabase(v, n) \/ CreateFails(v, n)
       PROVE  Indexed'
    BY <1>5, <1>6, <1>16 DEF CreateDatabase, CreateFails
<1>17. ASSUME NEW v \in Vaults, NEW n \in Names, RenameVault(v, n) \/ RenameUnsaved(v, n)
       PROVE  Indexed'
    BY <1>5, <1>6, <1>17 DEF RenameVault, RenameUnsaved, Renames, Saved, Refused
<1>18. ASSUME NEW v \in Vaults, NEW g \in Hosts, DeleteHost(v, g) PROVE Indexed'
    <2>1. /\ store[v] # "none" /\ hosts' = [hosts EXCEPT ![fileOf[v]][g] = None]
          /\ index' = RemoveScope(index, v, g) /\ UNCHANGED <<fileOf, store, faults>>
        BY <1>18 DEF DeleteHost
    <2>2. /\ Consistent(index')
          /\ \A w \in Vaults, h \in Hosts :
                index'.scope[<<w, h>>] = IF w = v /\ h = g THEN None ELSE index.scope[<<w, h>>]
        BY <1>1, <2>1, RemoveScopeIndex
    <2>3. \A w \in Vaults, h \in Hosts :
             hosts'[fileOf[w]][h] = IF fileOf[w] = fileOf[v] /\ h = g THEN None ELSE hosts[fileOf[w]][h]
        BY <1>1, <2>1
    <2>4. \A w \in Vaults : store[w] # "none" /\ fileOf[w] = fileOf[v] => w = v
        BY <1>2, <2>1
    <2> QED
        BY <1>3, <1>4, <2>1, <2>2, <2>3, <2>4
<1>19. ASSUME NEW v \in Vaults, NEW g \in Hosts, NEW refs \in SUBSET Auths, SaveHost(v, g, refs)
       PROVE  Indexed'
    <2>1. /\ store[v] = "unlocked" /\ hosts' = [hosts EXCEPT ![fileOf[v]][g] = refs]
          /\ index' = UpsertScope(index, v, g, refs) /\ UNCHANGED <<fileOf, store, faults>>
        BY <1>19 DEF SaveHost
    <2>2. /\ Consistent(index')
          /\ \A w \in Vaults, h \in Hosts :
                index'.scope[<<w, h>>] = IF w = v /\ h = g THEN refs ELSE index.scope[<<w, h>>]
        BY <1>1, <2>1, UpsertScopeIndex
    <2>3. \A w \in Vaults, h \in Hosts :
             hosts'[fileOf[w]][h] = IF fileOf[w] = fileOf[v] /\ h = g THEN refs ELSE hosts[fileOf[w]][h]
        BY <1>1, <2>1
    <2>4. \A w \in Vaults : store[w] # "none" /\ fileOf[w] = fileOf[v] => w = v
        BY <1>2, <2>1
    <2> QED
        BY <1>3, <1>4, <2>1, <2>2, <2>3, <2>4
<1>20. ASSUME NEW v \in Vaults, NEW g \in Hosts, NEW refs \in SUBSET Auths,
              SaveHostUnreported(v, g, refs)
       PROVE  Indexed'
    BY <1>1, <1>3, <1>4, <1>6, <1>20 DEF SaveHostUnreported
<1>21. ASSUME NEW opened \in SUBSET Vaults, NEW unlocked \in SUBSET Vaults, Start(opened, unlocked)
       PROVE  Indexed'
    <2>1. /\ Consistent(index')
          /\ \A w \in Vaults, h \in Hosts :
                index'.scope[<<w, h>>] = IF w \in unlocked THEN hosts[fileOf[w]][h] ELSE None
        BY <1>0, <1>21, StartedIndex
    <2>2. \A w \in Vaults : store'[w] = "unlocked" <=> w \in unlocked
        BY <1>21 DEF Start, Loaded
    <2>3. UNCHANGED <<hosts, fileOf>>
        BY <1>21 DEF Start
    <2> QED
        BY <1>3, <2>1, <2>2, <2>3
<1>22. CASE Stop
    <2>1. index' = NoIndex /\ store' = [v \in Vaults |-> "none"]
        BY <1>22 DEF Stop
    <2>2. \A v \in Vaults, h \in Hosts : NoIndex.scope[<<v, h>>] = None
        BY DEF NoIndex
    <2>3. \A v \in Vaults, a \in Auths : NoIndex.auth[<<v, a>>] = {}
        BY DEF NoIndex
    <2>4. Consistent(NoIndex)
        BY <2>2, <2>3 DEF Consistent
    <2> QED
        BY <1>3, <2>1, <2>2, <2>4
<1>23. CASE CreateRegisters
    <2>1. op.vault \in Vaults /\ fileOf[op.vault] = op.vault
        BY <1>0, <1>23, CallParts DEF CreateRegisters, RegistryInv, InProgress
    <2>2. /\ index' = RebuildVault(index, op.vault, hosts[op.vault])
          /\ store' = [store EXCEPT ![op.vault] = "unlocked"]
          /\ UNCHANGED <<hosts, fileOf, faults>>
        BY <1>23 DEF CreateRegisters, Saved
    <2>3. hosts[op.vault] \in [Hosts -> Refs]
        BY <1>1, <2>1 DEF Files
    <2>4. /\ Consistent(index')
          /\ \A w \in Vaults, h \in Hosts :
                index'.scope[<<w, h>>] = IF w = op.vault THEN hosts[op.vault][h] ELSE index.scope[<<w, h>>]
        BY <1>1, <2>1, <2>2, <2>3, RebuildVaultIndex
    <2> QED
        BY <1>1, <1>3, <1>4, <2>1, <2>2, <2>4
<1>24. CASE \/ LoadDefaults \/ CreateUndone \/ DeleteUnlinks \/ DeleteUnlinkFails
            \/ ResetConfig \/ UpdateConfig
    BY <1>5, <1>6, <1>24 DEF LoadDefaults, CreateUndone, Refused, DeleteUnlinks, DeleteUnlinkFails,
                             ResetConfig, UpdateConfig, Saved
<1> QED
    BY <1>7, <1>8, <1>9, <1>10, <1>12, <1>13, <1>14, <1>15, <1>16, <1>17, <1>18, <1>19, <1>20,
       <1>21, <1>22, <1>23, <1>24 DEF Next

\* Without a fault the controller and the config move together: what the
\* config would refuse of a managed vault is a name.
LEMMA RestartableStep == RegistryInv /\ Next => Restartable'
<1> SUFFICES ASSUME RegistryInv, Next, up', faults' = 0, lost' = {}
             PROVE  name' = saved'.entries /\ saved'.open = {v \in Vaults : store'[v] # "none"}
    BY DEF Restartable
<1> DEFINE Goal == name' = saved'.entries /\ saved'.open = {v \in Vaults : store'[v] # "none"}
<1>0. Typed /\ Configured /\ Restartable
    BY DEF RegistryInv
<1>1. ~Fault
    BY <1>0, FaultCounts
<1>2. /\ store \in [Vaults -> {"none", "locked", "unlocked"}] /\ name \in [Vaults -> Names \cup {None}]
      /\ config \in Config /\ Valid(config)
    BY <1>0 DEF Typed, Configured
<1>3. ASSUME up, faults' = faults, lost' = lost
      PROVE  /\ saved = config /\ name = config.entries
             /\ config.open = {v \in Vaults : store[v] # "none"}
    BY <1>0, <1>3 DEF Restartable, Configured
<1>4. /\ config.open \in SUBSET Vaults /\ config.entries \in [Vaults -> Names \cup {None}]
      /\ config = [entries |-> config.entries, open |-> config.open, default |-> config.default]
    BY <1>2 DEF Config
<1> USE DEF history, disk, memory, Ready
<1>5. ASSUME NEW v \in Vaults, OpenVault(v) \/ UnlockVault(v) \/ UnlockRefused(v) PROVE Goal
    <2>1. /\ saved = config /\ name = config.entries
          /\ config.open = {w \in Vaults : store[w] # "none"}
        BY <1>3, <1>5 DEF OpenVault, UnlockVault, UnlockRefused, Saved
    <2>2. saved' = [entries |-> config.entries, open |-> config.open \cup {v}, default |-> config.default]
        BY <1>4, <1>5 DEF OpenVault, UnlockVault, UnlockRefused, Saved, Saves, WithOpen
    <2>3. name' = name /\ \A w \in Vaults : store'[w] # "none" <=> store[w] # "none" \/ w = v
        BY <1>2, <1>5 DEF OpenVault, UnlockVault, UnlockRefused, Opened
    <2> QED
        BY <2>1, <2>2, <2>3
<1>6. ASSUME NEW v \in Vaults, OpenUnsaved(v) PROVE FALSE
    <2>1. name = config.entries /\ name[v] # None
        BY <1>1, <1>3, <1>6 DEF OpenUnsaved, Refused, Managed
    <2>2. Valid(WithOpen(config, v))
        BY <1>2, <2>1, WithOpenValid
    <2> QED
        BY <1>1, <1>6, <2>2 DEF OpenUnsaved, Refused
<1>7. ASSUME NEW v \in Vaults, UnlockUnreported(v) PROVE FALSE
    BY <1>1, <1>7 DEF UnlockUnreported
<1>8. ASSUME NEW v \in Vaults, LockVault(v) PROVE Goal
    <2>1. \A w \in Vaults : store'[w] # "none" <=> store[w] # "none"
        BY <1>2, <1>8 DEF LockVault
    <2> QED
        BY <1>3, <1>8, <2>1 DEF LockVault
<1>9. ASSUME NEW v \in Vaults, CloseVault(v) PROVE Goal
    <2>1. name = config.entries /\ config.open = {w \in Vaults : store[w] # "none"}
        BY <1>3, <1>9 DEF CloseVault, Closes, Saved
    <2>2. saved' = [entries |-> config.entries, open |-> config.open \ {v}, default |-> config.default]
        BY <1>4, <1>9 DEF CloseVault, Saved, Saves, WithoutOpen
    <2>3. name' = name /\ \A w \in Vaults : store'[w] # "none" <=> store[w] # "none" /\ w # v
        BY <1>2, <1>9 DEF CloseVault, Closes
    <2> QED
        BY <2>1, <2>2, <2>3
<1>10. ASSUME NEW v \in Vaults, CloseUnsaved(v) \/ DeleteUnsaved(v) PROVE FALSE
    <2>1. Valid(WithoutOpen(config, v)) /\ Valid(Without(config, v))
        BY <1>2, WithoutOpenValid, WithoutValid
    <2> QED
        BY <1>1, <1>10, <2>1 DEF CloseUnsaved, DeleteUnsaved, Refused
<1>11. ASSUME NEW v \in Vaults, SetDefaultTarget(v) PROVE Goal
    <2>1. saved' = [entries |-> config.entries, open |-> config.open, default |-> v]
        BY <1>4, <1>11 DEF SetDefaultTarget, Saved, Saves
    <2> QED
        BY <1>3, <1>11, <2>1 DEF SetDefaultTarget, Saved
<1>12. ASSUME NEW v \in Vaults, DeleteForgets(v) PROVE Goal
    <2>1. name = config.entries /\ config.open = {w \in Vaults : store[w] # "none"}
        BY <1>3, <1>12 DEF DeleteForgets, Forgets, Saved
    <2>2. saved'.entries = [config.entries EXCEPT ![v] = None] /\ saved'.open = config.open \ {v}
        BY <1>12 DEF DeleteForgets, Saved, Saves, Without
    <2>3. /\ name' = [name EXCEPT ![v] = None]
          /\ \A w \in Vaults : store'[w] # "none" <=> store[w] # "none" /\ w # v
        BY <1>2, <1>12 DEF DeleteForgets, Forgets
    <2> QED
        BY <2>1, <2>2, <2>3
<1>13. ASSUME NEW v \in Vaults, NEW n \in Names, CreateDatabase(v, n) PROVE Goal
    BY <1>3, <1>13 DEF CreateDatabase
<1>14. ASSUME NEW v \in Vaults, NEW n \in Names, CreateFails(v, n) PROVE FALSE
    BY <1>1, <1>14 DEF CreateFails
<1>15. ASSUME NEW v \in Vaults, NEW n \in Names, RenameVault(v, n) PROVE Goal
    <2>1. name = config.entries /\ config.open = {w \in Vaults : store[w] # "none"} /\ name[v] # None
        BY <1>3, <1>15 DEF RenameVault, Renames, Saved, Managed
    <2>2. saved' = [entries |-> [config.entries EXCEPT ![v] = n],
                    open |-> config.open, default |-> config.default]
        BY <1>4, <1>15, <2>1 DEF RenameVault, RenameConfig, WithEntry, Saved, Saves
    <2>3. name' = [name EXCEPT ![v] = n] /\ store' = store
        BY <1>15 DEF RenameVault, Renames
    <2> QED
        BY <2>1, <2>2, <2>3
<1>16. ASSUME NEW v \in Vaults, NEW n \in Names, RenameUnsaved(v, n) PROVE FALSE
    BY <1>1, <1>16 DEF RenameUnsaved, Refused
<1>17. ASSUME NEW v \in Vaults, NEW h \in Hosts, NEW refs \in SUBSET Auths,
              DeleteHost(v, h) \/ SaveHost(v, h, refs)
       PROVE  Goal
    BY <1>3, <1>17 DEF DeleteHost, SaveHost
<1>18. ASSUME NEW v \in Vaults, NEW h \in Hosts, NEW refs \in SUBSET Auths,
              SaveHostUnreported(v, h, refs)
       PROVE  FALSE
    BY <1>1, <1>18 DEF SaveHostUnreported
<1>19. ASSUME NEW opened \in SUBSET Vaults, NEW unlocked \in SUBSET Vaults, Start(opened, unlocked)
       PROVE  Goal
    <2>1. saved = config /\ saved' = saved /\ name' = config.entries /\ opened = config.open
        BY <1>0, <1>1, <1>19 DEF Start, Configured
    <2>2. \A w \in Vaults : store'[w] # "none" <=> w \in opened
        BY <1>19 DEF Start, Loaded
    <2> QED
        BY <1>4, <2>1, <2>2
<1>20. ASSUME LoadDefaults \/ Stop \/ DeleteUnlinkFails \/ ResetConfig PROVE FALSE
    BY <1>0, <1>1, <1>20 DEF LoadDefaults, Stop, DeleteUnlinkFails, ResetConfig, Configured
<1>21. CASE CreateRegisters
    <2>1. op.vault \in Vaults /\ up
        BY <1>0, <1>21, CallParts DEF CreateRegisters, Configured
    <2>2. name = config.entries /\ config.open = {w \in Vaults : store[w] # "none"}
        BY <1>3, <1>21, <2>1 DEF CreateRegisters, Saved
    <2>3. /\ saved'.entries = [config.entries EXCEPT ![op.vault] = op.name]
          /\ saved'.open = config.open \cup {op.vault}
        BY <1>21 DEF CreateRegisters, Saved, Saves, CreatedConfig
    <2>4. /\ name' = [name EXCEPT ![op.vault] = op.name]
          /\ \A w \in Vaults : store'[w] # "none" <=> store[w] # "none" \/ w = op.vault
        BY <1>2, <1>21 DEF CreateRegisters
    <2> QED
        BY <2>1, <2>2, <2>3, <2>4
<1>22. CASE CreateUndone \/ DeleteUnlinks
    <2>1. up
        BY <1>0, <1>22, CallParts DEF CreateUndone, DeleteUnlinks, Configured
    <2> QED
        BY <1>1, <1>3, <1>22, <2>1 DEF CreateUndone, DeleteUnlinks, Refused
<1>23. CASE UpdateConfig
    BY <1>3, <1>23 DEF UpdateConfig, Saved, Saves
<1>24. ASSUME NEW v \in Vaults, Migrate(v) PROVE FALSE
    BY <1>24 DEF Migrate
<1> QED
    BY <1>5, <1>6, <1>7, <1>8, <1>9, <1>10, <1>11, <1>12, <1>13, <1>14, <1>15, <1>16, <1>17, <1>18,
       <1>19, <1>20, <1>21, <1>22, <1>23, <1>24 DEF Next

\* A published snapshot shows hosts of unlocked vaults; the calls that publish
\* nothing lock nothing.
LEMMA WindowsStep == RegistryInv /\ Next => WindowsShowUnlockedOnly'
<1> SUFFICES ASSUME RegistryInv, Next, faults' = 0
             PROVE  \A w \in Vaults :
                        /\ view'[w] # {} => store'[w] = "unlocked"
                        /\ view'[w] \subseteq {h \in Hosts : hosts'[fileOf'[w]][h] # None}
    BY DEF WindowsShowUnlockedOnly
<1> DEFINE Goal == \A w \in Vaults :
                      /\ view'[w] # {} => store'[w] = "unlocked"
                      /\ view'[w] \subseteq {h \in Hosts : hosts'[fileOf'[w]][h] # None}
<1>0. Typed /\ Configured /\ WindowsShowUnlockedOnly
    BY DEF RegistryInv
<1>1. ~Fault
    BY <1>0, FaultCounts
<1>2. store \in [Vaults -> {"none", "locked", "unlocked"}] /\ config \in Config /\ Valid(config)
    BY <1>0 DEF Typed, Configured
<1>3. ASSUME view' = SnapshotOf(store', hosts'), UNCHANGED fileOf PROVE Goal
    BY <1>3 DEF SnapshotOf
<1>4. ASSUME UNCHANGED <<view, hosts, fileOf, faults>>,
             \A w \in Vaults : store[w] = "unlocked" => store'[w] = "unlocked"
      PROVE  Goal
    BY <1>0, <1>4 DEF WindowsShowUnlockedOnly
<1> USE DEF history, disk, memory, Publish
<1>5. ASSUME NEW v \in Vaults, Migrate(v) PROVE Goal
    <2>1. \A w \in Vaults : view[w] = {}
        BY <1>0, <1>5 DEF Migrate, Saved, Configured, Managed, WindowsShowUnlockedOnly
    <2> QED
        BY <1>5, <2>1 DEF Migrate
<1>6. ASSUME NEW v \in Vaults, \/ OpenVault(v) \/ UnlockVault(v) \/ LockVault(v) \/ CloseVault(v)
                               \/ SetDefaultTarget(v)
      PROVE  Goal
    BY <1>3, <1>6 DEF OpenVault, UnlockVault, LockVault, CloseVault, Closes, SetDefaultTarget
<1>7. ASSUME NEW v \in Vaults, OpenUnsaved(v) \/ UnlockRefused(v) PROVE Goal
    <2>1. \A w \in Vaults : store[w] = "unlocked" => store'[w] = "unlocked"
        BY <1>2, <1>7 DEF OpenUnsaved, UnlockRefused, Opened
    <2> QED
        BY <1>1, <1>4, <1>7, <2>1 DEF OpenUnsaved, UnlockRefused, Refused, Saved
<1>8. ASSUME NEW v \in Vaults, UnlockUnreported(v) PROVE FALSE
    BY <1>1, <1>8 DEF UnlockUnreported
<1>9. ASSUME NEW v \in Vaults, CloseUnsaved(v) \/ DeleteUnsaved(v) PROVE FALSE
    <2>1. Valid(WithoutOpen(config, v)) /\ Valid(Without(config, v))
        BY <1>2, WithoutOpenValid, WithoutValid
    <2> QED
        BY <1>1, <1>9, <2>1 DEF CloseUnsaved, DeleteUnsaved, Refused
<1>10. ASSUME NEW v \in Vaults, DeleteForgets(v) PROVE Goal
    <2>1. \A w \in Vaults : store[w] = "unlocked" => store'[w] = "unlocked"
        BY <1>2, <1>10 DEF DeleteForgets, Forgets
    <2> QED
        BY <1>4, <1>10, <2>1 DEF DeleteForgets, Forgets, Saved
<1>11. ASSUME NEW v \in Vaults, NEW n \in Names, CreateDatabase(v, n) PROVE Goal
    BY <1>4, <1>11 DEF CreateDatabase
<1>12. ASSUME NEW v \in Vaults, NEW n \in Names, CreateFails(v, n) PROVE FALSE
    BY <1>1, <1>12 DEF CreateFails
<1>13. ASSUME NEW v \in Vaults, NEW n \in Names, RenameVault(v, n) PROVE Goal
    BY <1>3, <1>13 DEF RenameVault, Renames
<1>14. ASSUME NEW v \in Vaults, NEW n \in Names, RenameUnsaved(v, n) PROVE Goal
    BY <1>1, <1>4, <1>14 DEF RenameUnsaved, Renames, Refused
<1>15. ASSUME NEW v \in Vaults, NEW h \in Hosts, NEW refs \in SUBSET Auths,
              DeleteHost(v, h) \/ SaveHost(v, h, refs)
       PROVE  Goal
    BY <1>3, <1>15 DEF DeleteHost, SaveHost
<1>16. ASSUME NEW v \in Vaults, NEW h \in Hosts, NEW refs \in SUBSET Auths,
              SaveHostUnreported(v, h, refs)
       PROVE  FALSE
    BY <1>1, <1>16 DEF SaveHostUnreported
<1>17. ASSUME NEW opened \in SUBSET Vaults, NEW unlocked \in SUBSET Vaults, Start(opened, unlocked)
       PROVE  Goal
    <2>1. view' = SnapshotOf(store', hosts') /\ UNCHANGED fileOf
        BY <1>17 DEF Start
    <2> QED
        BY <1>3, <2>1
<1>18. CASE Stop
    BY <1>18 DEF Stop
<1>19. CASE CreateRegisters \/ DeleteUnlinks
    BY <1>3, <1>19 DEF CreateRegisters, DeleteUnlinks
<1>20. CASE CreateUndone \/ ResetConfig \/ UpdateConfig
    BY <1>1, <1>4, <1>20 DEF CreateUndone, ResetConfig, UpdateConfig, Refused, Saved
<1>21. ASSUME LoadDefaults \/ DeleteUnlinkFails PROVE FALSE
    BY <1>1, <1>21 DEF LoadDefaults, DeleteUnlinkFails
<1> QED
    BY <1>5, <1>6, <1>7, <1>8, <1>9, <1>10, <1>11, <1>12, <1>13, <1>14, <1>15, <1>16, <1>17,
       <1>18, <1>19, <1>20, <1>21 DEF Next

---------------------------------------------------------------------------
\* The theorems

\* RegistryInv holds in every reachable state of the registry.
THEOREM RegistryInvariant == Spec => []RegistryInv
<1>1. RegistryInv /\ [Next]_vars => RegistryInv'
    <2>1. RegistryInv /\ Next => RegistryInv'
        BY TypedStep, ConfiguredStep, FiledStep, IndexedStep, RestartableStep, WindowsStep DEF RegistryInv
    <2>2. RegistryInv /\ UNCHANGED vars => RegistryInv'
        BY DEF RegistryInv, vars, disk, memory, history, Typed, Configured, Filed, InProgress, Indexed,
               Restartable, WindowsShowUnlockedOnly, Kept, Managed, Consistent
    <2> QED
        BY <2>1, <2>2
<1> QED
    BY <1>1, InitInv, PTL DEF Spec

\* RegistrySound for any number of vaults, stops and disk faults: a vault whose
\* creation was confirmed stays registered with its database until it is
\* deleted, a registered vault has its database, and a deleted one never comes
\* back (create_named_vault, delete_vault_permanently, load_managed_vaults,
\* migrate_legacy_vault_registry).
THEOREM RegistryIsSound == Spec => []RegistrySound
<1>1. RegistryInv => RegistrySound
    <2> SUFFICES ASSUME RegistryInv PROVE RegistrySound
        OBVIOUS
    <2>1. Typed /\ Filed
        BY DEF RegistryInv
    <2>2. TypeOK
        BY <2>1, CallParts DEF Typed, TypeOK, Config, Index, Creating, Deleting, Idle
    <2>3. RegisteredHasFile
        BY <2>1 DEF Filed, RegisteredHasFile, Kept
    <2>4. RegistryKeepsPromises
        BY <2>1 DEF Typed, Filed, RegistryKeepsPromises, Kept, Registered, Managed
    <2> QED
        BY <2>2, <2>3, <2>4 DEF RegistrySound
<1> QED
    BY <1>1, RegistryInvariant, PTL

\* RestartKeepsRegistry: without a fault, a reset or a refused name, config.toml
\* says exactly which vaults the controller manages and holds open, whatever
\* calls led there, so that a restart brings them back.
THEOREM RestartFindsTheRegistry == Spec => []RestartKeepsRegistry
<1>1. RegistryInv => RestartKeepsRegistry
    BY DEF RegistryInv, Restartable, RestartKeepsRegistry, Ready
<1> QED
    BY <1>1, RegistryInvariant, PTL

\* IndexIsExact: auth_reference_index lists hosts of unlocked vaults only and,
\* without a fault, exactly the hosts whose auth_order names the key.  It rests
\* on no two open vaults sharing a database.
THEOREM ReferenceIndexIsExact == Spec => []IndexIsExact
<1>1. RegistryInv => IndexIsExact
    <2> SUFFICES ASSUME RegistryInv, NEW v \in Vaults, NEW a \in Auths
                 PROVE  /\ index.auth[<<v, a>>] # {} => store[v] = "unlocked"
                        /\ faults = 0 /\ store[v] = "unlocked" =>
                              index.auth[<<v, a>>] = Users(hosts[fileOf[v]], a)
        BY DEF IndexIsExact
    <2>1. index.auth[<<v, a>>] \in SUBSET Hosts
        BY IndexFields DEF RegistryInv, Typed
    <2>2. \A h \in Hosts : /\ h \in index.auth[<<v, a>>] <=>
                                 index.scope[<<v, h>>] # None /\ a \in index.scope[<<v, h>>]
                           /\ store[v] # "unlocked" => index.scope[<<v, h>>] = None
                           /\ faults = 0 /\ store[v] = "unlocked" =>
                                 index.scope[<<v, h>>] = hosts[fileOf[v]][h]
        BY DEF RegistryInv, Indexed, Consistent
    <2> QED
        BY <2>1, <2>2 DEF Users
<1> QED
    BY <1>1, RegistryInvariant, PTL

\* WindowsShowUnlockedOnly: without a fault no window shows a host of a vault
\* that is locked, closed or deleted, nor a deleted host.
THEOREM LockedVaultsAreHidden == Spec => []WindowsShowUnlockedOnly
<1>1. RegistryInv => WindowsShowUnlockedOnly
    BY DEF RegistryInv
<1> QED
    BY <1>1, RegistryInvariant, PTL

=============================================================================
