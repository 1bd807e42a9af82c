---------------------------- MODULE VaultRegistry ----------------------------
(***************************************************************************)
(* The vaults the application manages (crates/seance-core/src/lib.rs) and *)
(* the registry of them in config.toml (crates/seance-config).            *)
(*                                                                         *)
(* The controller keeps an entry and perhaps an open VaultStore for each  *)
(* vault, an index from keys and credentials to the hosts that use them,  *)
(* and publishes a snapshot to the windows after a call that succeeds.    *)
(* Its mutex serialises calls; a call that touches the disk twice is two  *)
(* steps, because the process can die in between.  The config file is     *)
(* replaced atomically.                                                   *)
(*                                                                         *)
(* Names stand for what eq_ignore_ascii_case tells apart; Lower maps those *)
(* that to_lowercase makes equal to one.  Timestamps, sort orders and the *)
(* other settings of the file are left out.                               *)
(***************************************************************************)
EXTENDS Integers, FiniteSets

CONSTANTS Vaults,     \* bound: vault ids generated in a behaviour
          Names,      \* vault names
          Lower,      \* to_lowercase of each name
          Personal,   \* the name a migrated vault gets
          Hosts,      \* host ids, the same in every vault
          Auths,      \* ids of keys and credentials hosts refer to
          Legacy,     \* the database file vault.sqlite
          MaxStops,   \* bound: times the process ends
          MaxFaults,  \* bound: failing disk operations
          None        \* absent

ASSUME NamesAssumption == Personal \in Names /\ None \notin Names /\ Lower \in [Names -> Names]
ASSUME IdsAssumption == None \notin Vaults /\ Legacy \notin Vaults
ASSUME RefsAssumption == \A refs \in SUBSET Auths : refs # None
ASSUME FaultsAssumption == MaxStops \in Nat /\ MaxFaults \in Nat

VARIABLES
    saved,     \* config.toml, its vaults: entries, open_vault_ids, default_target_vault_id
    config,    \* the same in the ConfigStore; while the process is down, what it will load
    files,     \* vault databases on disk
    fileOf,    \* db_file of each vault id
    hosts,     \* by file and host: the ids its auth_order names, or None
    up,        \* the process runs
    name,      \* entry name by vault in memory, None when there is no entry
    store,     \* "none", "locked" or "unlocked"
    index,     \* auth_reference_index
    view,      \* hosts by vault that the windows show: the last snapshot published
    op,        \* the call in progress between two disk operations
    unused,    \* vault ids not generated yet
    promised,  \* vaults whose creation was confirmed and whose deletion was not begun
    gone,      \* vaults whose deletion was confirmed
    lost,      \* why config and registry may differ: "reset", "unreadable", "refused"
    stops, faults

disk == <<saved, config, files, fileOf, hosts>>
memory == <<name, store, index, view>>
history == <<unused, promised, gone, lost, stops>>
vars == <<disk, up, memory, op, history, faults>>

Files == Vaults \cup {Legacy}
Idle == [call |-> "idle", vault |-> None, name |-> None]
NoConfig == [entries |-> [v \in Vaults |-> None], open |-> {}, default |-> None]
NoIndex == [scope |-> [x \in Vaults \X Hosts |-> None], auth |-> [x \in Vaults \X Auths |-> {}]]
NoHosts == [h \in Hosts |-> None]

\* A fresh installation, or one of a version with a single vault.
Init ==
    /\ saved = NoConfig /\ config = NoConfig
    /\ fileOf = [v \in Vaults |-> v]
    /\ \/ files = {} /\ hosts = [f \in Files |-> NoHosts]
       \/ /\ files = {Legacy}
          /\ \E refs \in SUBSET Auths :
                hosts = [f \in Files |-> IF f = Legacy THEN [h \in Hosts |-> refs] ELSE NoHosts]
    /\ up = FALSE
    /\ name = [v \in Vaults |-> None]
    /\ store = [v \in Vaults |-> "none"]
    /\ index = NoIndex
    /\ view = [v \in Vaults |-> {}]
    /\ op = Idle
    /\ unused = Vaults /\ promised = {} /\ gone = {} /\ lost = {}
    /\ stops = 0 /\ faults = 0

---------------------------------------------------------------------------
\* The config store

Registered(c) == {v \in Vaults : c.entries[v] # None}

\* AppConfig::validate, the part about vaults.
Valid(c) ==
    /\ \A v, w \in Registered(c) : Lower[c.entries[v]] = Lower[c.entries[w]] => v = w
    /\ c.open \subseteq Registered(c)
    /\ c.default \in Registered(c) \cup {None}

Fault == faults < MaxFaults /\ faults' = faults + 1

\* ConfigStore::update: validated, written to disk, then kept ...
Saves(c) == Valid(c) /\ saved' = c /\ config' = c
Saved(c) == Saves(c) /\ UNCHANGED faults

\* ... or an error that leaves both as they were.
Refused(c) ==
    /\ UNCHANGED <<saved, config>>
    /\ (~Valid(c) /\ UNCHANGED faults) \/ Fault

WithEntry(c, v, n) == [c EXCEPT !.entries[v] = n]
WithOpen(c, v) == [c EXCEPT !.open = @ \cup {v}]

\* Mutant: a closed vault stays listed as open.
StillOpen(c, v) == c

WithoutOpen(c, v) == [c EXCEPT !.open = @ \ {v}]

\* Mutant: the entry is kept.
WithoutReferences(c, v) ==
    [entries |-> c.entries, open |-> c.open \ {v},
     default |-> IF c.default = v THEN None ELSE c.default]

Without(c, v) ==
    [entries |-> [c.entries EXCEPT ![v] = None],
     open |-> c.open \ {v},
     default |-> IF c.default = v THEN None ELSE c.default]

---------------------------------------------------------------------------
\* The index of hosts by key and credential

\* Mutant: a host is forgotten but stays in the lists of its keys.
ForgetScope(ix, v, h) == [ix EXCEPT !.scope[<<v, h>>] = None]

\* remove_host_auth_reference_by_scope
RemoveScope(ix, v, h) ==
    IF ix.scope[<<v, h>>] = None THEN ix
    ELSE [scope |-> [ix.scope EXCEPT ![<<v, h>>] = None],
          auth |-> [x \in DOMAIN ix.auth |->
                       IF x[1] = v /\ x[2] \in ix.scope[<<v, h>>] THEN ix.auth[x] \ {h}
                       ELSE ix.auth[x]]]

\* upsert_host_auth_reference_summary
UpsertScope(ix, v, h, refs) ==
    LET r == RemoveScope(ix, v, h)
    IN  [scope |-> [r.scope EXCEPT ![<<v, h>>] = refs],
         auth |-> [x \in DOMAIN r.auth |->
                      IF x[1] = v /\ x[2] \in refs THEN r.auth[x] \cup {h} ELSE r.auth[x]]]

\* remove_vault_auth_reference_index: every scope of the vault.
RemoveVault(ix, v) ==
    [scope |-> [x \in DOMAIN ix.scope |-> IF x[1] = v THEN None ELSE ix.scope[x]],
     auth |-> [x \in DOMAIN ix.auth |->
                  IF x[1] = v
                  THEN ix.auth[x] \ {h \in Hosts : /\ ix.scope[<<v, h>>] # None
                                                   /\ x[2] \in ix.scope[<<v, h>>]}
                  ELSE ix.auth[x]]]

Users(table, a) == {h \in Hosts : table[h] # None /\ a \in table[h]}

\* rebuild_vault_auth_reference_index of an unlocked vault with these hosts.
RebuildVault(ix, v, table) ==
    LET r == RemoveVault(ix, v)
    IN  [scope |-> [x \in DOMAIN r.scope |-> IF x[1] = v THEN table[x[2]] ELSE r.scope[x]],
         auth |-> [x \in DOMAIN r.auth |->
                      IF x[1] = v THEN r.auth[x] \cup Users(table, x[2]) ELSE r.auth[x]]]

\* vault_ui_snapshot: the hosts of the unlocked vaults.
SnapshotOf(stores, tables) ==
    [v \in Vaults |-> IF stores[v] = "unlocked" THEN {h \in Hosts : tables[fileOf[v]][h] # None}
                      ELSE {}]

Publish == view' = SnapshotOf(store', hosts')

---------------------------------------------------------------------------
\* Starting: AppContext::open and bootstrap

\* The config cannot be read, parsed or validated: the process goes on with
\* defaults and leaves the file as it is.
LoadDefaults ==
    /\ ~up /\ config # NoConfig
    /\ Fault
    /\ config' = NoConfig
    /\ lost' = lost \cup {"unreadable"}
    /\ UNCHANGED <<saved, files, fileOf, hosts, up, memory, op, unused, promised, gone, stops>>

\* migrate_legacy_vault_registry
NeedsMigration == Registered(config) = {} /\ Legacy \in files

Migrate(v) ==
    /\ ~up /\ NeedsMigration
    /\ v \in unused
    /\ unused' = unused \ {v}
    /\ fileOf' = [fileOf EXCEPT ![v] = Legacy]
    /\ Saved([entries |-> [config.entries EXCEPT ![v] = Personal], open |-> {v}, default |-> v])
    /\ UNCHANGED <<files, hosts, up, memory, op, promised, gone, lost, stops>>

Loaded(opened, unlocked) ==
    [v \in Vaults |-> IF v \in unlocked THEN "unlocked"
                      ELSE IF v \in opened THEN "locked" ELSE "none"]

\* load_managed_vaults opens what the config lists as open; the device unlocks
\* some of it, the index is built and a window gets the snapshot.
Start(opened, unlocked) ==
    /\ ~up /\ ~NeedsMigration
    /\ up' = TRUE
    /\ opened \subseteq config.open /\ unlocked \subseteq opened
    /\ \/ opened = config.open /\ UNCHANGED faults
       \/ opened # config.open /\ Fault
    /\ name' = config.entries
    /\ store' = Loaded(opened, unlocked)
    /\ index' = [scope |-> [x \in Vaults \X Hosts |->
                               IF x[1] \in unlocked THEN hosts[fileOf[x[1]]][x[2]] ELSE None],
                 auth |-> [x \in Vaults \X Auths |->
                               IF x[1] \in unlocked THEN Users(hosts[fileOf[x[1]]], x[2]) ELSE {}]]
    /\ view' = SnapshotOf(store', hosts)
    /\ UNCHANGED <<disk, op, history>>

\* The process ends, between calls or in one.
Stop ==
    /\ up /\ stops < MaxStops
    /\ stops' = stops + 1
    /\ up' = FALSE
    /\ name' = [v \in Vaults |-> None]
    /\ store' = [v \in Vaults |-> "none"]
    /\ index' = NoIndex
    /\ view' = [v \in Vaults |-> {}]
    /\ op' = Idle
    /\ config' = saved
    /\ UNCHANGED <<saved, files, fileOf, hosts, unused, promised, gone, lost, faults>>

---------------------------------------------------------------------------
\* create_named_vault

Ready == up /\ op = Idle
Managed == {v \in Vaults : name[v] # None}

\* The database is created and initialised.
CreateDatabase(v, n) ==
    /\ Ready /\ v \in unused
    /\ \A w \in Managed : name[w] # n
    /\ unused' = unused \ {v}
    /\ files' = files \cup {v}
    /\ op' = [call |-> "create", vault |-> v, name |-> n]
    /\ UNCHANGED <<saved, config, fileOf, hosts, up, memory, promised, gone, lost, stops, faults>>

\* The same with an error, which may leave the file behind.
CreateFails(v, n) ==
    /\ Ready /\ v \in unused
    /\ \A w \in Managed : name[w] # n
    /\ Fault
    /\ unused' = unused \ {v}
    /\ files' \in {files, files \cup {v}}
    /\ UNCHANGED <<saved, config, fileOf, hosts, up, memory, op, promised, gone, lost, stops>>

CreatedConfig(v, n) ==
    [entries |-> [config.entries EXCEPT ![v] = n],
     open |-> config.open \cup {v},
     default |-> IF config.default = None THEN v ELSE config.default]

\* The config lists it, then the controller holds it, open and unlocked.
CreateRegisters ==
    LET v == op.vault
    IN  /\ op.call = "create"
        /\ Saved(CreatedConfig(v, op.name))
        /\ name' = [name EXCEPT ![v] = op.name]
        /\ store' = [store EXCEPT ![v] = "unlocked"]
        /\ index' = RebuildVault(index, v, hosts[v])
        /\ op' = Idle
        /\ promised' = promised \cup {v}
        /\ UNCHANGED <<files, fileOf, hosts, up, unused, gone, lost, stops>>
        /\ Publish

\* The config cannot be saved: the database is removed and the call fails.
CreateUndone ==
    /\ op.call = "create"
    /\ Refused(CreatedConfig(op.vault, op.name))
    /\ files' = files \ {op.vault}
    /\ op' = Idle
    /\ UNCHANGED <<fileOf, hosts, up, memory, history>>

---------------------------------------------------------------------------
\* Calls on a vault

\* rename_vault changes the entry in memory first; a config without the entry
\* is saved as it is.
RenameConfig(v, n) == IF config.entries[v] = None THEN config ELSE WithEntry(config, v, n)

Renames(v, n) ==
    /\ Ready /\ v \in Managed
    /\ \A w \in Managed \ {v} : name[w] # n
    /\ name' = [name EXCEPT ![v] = n]
    /\ UNCHANGED <<files, fileOf, hosts, up, store, index, op, unused, promised, gone, stops>>

RenameVault(v, n) ==
    /\ Renames(v, n)
    /\ Saved(RenameConfig(v, n))
    /\ UNCHANGED lost
    /\ Publish

\* A failed write, or another vault has the name but for case outside ASCII.
RenameUnsaved(v, n) ==
    /\ Renames(v, n)
    /\ Refused(RenameConfig(v, n))
    /\ lost' = lost \cup (IF Valid(RenameConfig(v, n)) THEN {} ELSE {"refused"})
    /\ UNCHANGED view

\* open_vault: the store is opened and the config lists the vault as open.
Opened(v) == [store EXCEPT ![v] = IF @ = "none" THEN "locked" ELSE @]

OpenVault(v) ==
    /\ Ready /\ v \in Managed
    /\ Saved(WithOpen(config, v))
    /\ store' = Opened(v)
    /\ UNCHANGED <<files, fileOf, hosts, up, name, index, op, history>>
    /\ Publish

\* The same with an error from the config: the store stays open, and unlocking,
\* which opens first, fails.
OpenUnsaved(v) ==
    /\ Ready /\ v \in Managed
    /\ v \notin config.open
    /\ Refused(WithOpen(config, v))
    /\ store' = Opened(v)
    /\ UNCHANGED <<files, fileOf, hosts, up, name, index, view, op, history>>

\* unlock_vault and try_unlock_vault_with_device when the key is right.
UnlockVault(v) ==
    /\ Ready /\ v \in Managed
    /\ Saved(WithOpen(config, v))
    /\ store' = [store EXCEPT ![v] = "unlocked"]
    /\ index' = RebuildVault(index, v, hosts[fileOf[v]])
    /\ UNCHANGED <<files, fileOf, hosts, up, name, op, history>>
    /\ Publish

\* The key is wrong: the vault has been opened, and nothing is published.
UnlockRefused(v) ==
    /\ Ready /\ v \in Managed
    /\ Saved(WithOpen(config, v))
    /\ store' = Opened(v)
    /\ UNCHANGED <<files, fileOf, hosts, up, name, index, view, op, history>>

\* The key is right and a later statement of the unlock fails, before the index
\* is touched or after the vault is taken out of it.
UnlockUnreported(v) ==
    /\ Ready /\ v \in Managed
    /\ Fault
    /\ Saves(WithOpen(config, v))
    /\ store' = [store EXCEPT ![v] = "unlocked"]
    /\ index' \in {index, RemoveVault(index, v)}
    /\ UNCHANGED <<files, fileOf, hosts, up, name, view, op, history>>

\* Mutant: the windows are not told.
LockUnpublished(v) ==
    /\ Ready /\ store[v] # "none"
    /\ store' = [store EXCEPT ![v] = "locked"]
    /\ index' = RemoveVault(index, v)
    /\ UNCHANGED <<disk, up, name, view, op, history, faults>>

LockVault(v) ==
    /\ Ready /\ store[v] # "none"
    /\ store' = [store EXCEPT ![v] = "locked"]
    /\ index' = RemoveVault(index, v)
    /\ UNCHANGED <<disk, up, name, op, history, faults>>
    /\ Publish

\* close_vault drops the store and the index, then tells the config.
Closes(v) ==
    /\ Ready /\ v \in Managed
    /\ store' = [store EXCEPT ![v] = "none"]
    /\ index' = RemoveVault(index, v)
    /\ UNCHANGED <<files, fileOf, hosts, up, name, op, history>>

CloseVault(v) ==
    /\ Closes(v)
    /\ Saved(WithoutOpen(config, v))
    /\ Publish

CloseUnsaved(v) ==
    /\ Closes(v)
    /\ Refused(WithoutOpen(config, v))
    /\ UNCHANGED view

SetDefaultTarget(v) ==
    /\ Ready /\ v \in Managed
    /\ Saved([config EXCEPT !.default = v])
    /\ UNCHANGED <<files, fileOf, hosts, up, name, store, index, op, history>>
    /\ Publish

---------------------------------------------------------------------------
\* delete_vault_permanently refuses an unlocked vault, forgets it, tells the
\* config and removes the file.

Forgets(v) ==
    /\ Ready /\ v \in Managed /\ store[v] # "unlocked"
    /\ name' = [name EXCEPT ![v] = None]
    /\ store' = [store EXCEPT ![v] = "none"]
    /\ index' = RemoveVault(index, v)
    /\ promised' = promised \ {v}
    /\ UNCHANGED <<fileOf, hosts, up, view, unused, gone, lost, stops>>

DeleteForgets(v) ==
    /\ Forgets(v)
    /\ Saved(Without(config, v))
    /\ op' = [call |-> "delete", vault |-> v, name |-> None]
    /\ UNCHANGED files

DeleteUnsaved(v) ==
    /\ Forgets(v)
    /\ Refused(Without(config, v))
    /\ UNCHANGED <<files, op>>

DeleteUnlinks ==
    /\ op.call = "delete"
    /\ files' = files \ {fileOf[op.vault]}
    /\ op' = Idle
    /\ gone' = gone \cup {op.vault}
    /\ UNCHANGED <<saved, config, fileOf, hosts, up, name, store, index, unused, promised, lost,
                   stops, faults>>
    /\ Publish

\* The file cannot be removed: the call fails, and the vault is forgotten.
DeleteUnlinkFails ==
    /\ op.call = "delete"
    /\ Fault
    /\ op' = Idle
    /\ UNCHANGED <<disk, up, memory, history>>

---------------------------------------------------------------------------
\* Hosts

\* save_host needs the master key.
SaveHost(v, h, refs) ==
    /\ Ready /\ store[v] = "unlocked"
    /\ hosts' = [hosts EXCEPT ![fileOf[v]][h] = refs]
    /\ index' = UpsertScope(index, v, h, refs)
    /\ UNCHANGED <<saved, config, files, fileOf, up, name, store, op, history, faults>>
    /\ Publish

\* The host is stored and cannot be read back: the call fails.
SaveHostUnreported(v, h, refs) ==
    /\ Ready /\ store[v] = "unlocked"
    /\ Fault
    /\ hosts' = [hosts EXCEPT ![fileOf[v]][h] = refs]
    /\ UNCHANGED <<saved, config, files, fileOf, up, memory, op, history>>

\* delete_host needs it only to read port forwards, of which there are none.
DeleteHost(v, h) ==
    /\ Ready /\ store[v] # "none"
    /\ hosts[fileOf[v]][h] # None
    /\ hosts' = [hosts EXCEPT ![fileOf[v]][h] = None]
    /\ index' = RemoveScope(index, v, h)
    /\ UNCHANGED <<saved, config, files, fileOf, up, name, store, op, history, faults>>
    /\ Publish

---------------------------------------------------------------------------
\* reset_config_to_defaults replaces the whole config, vault registry included.
ResetConfig ==
    /\ Ready
    /\ Saved(NoConfig)
    /\ lost' = lost \cup {"reset"}
    /\ UNCHANGED <<files, fileOf, hosts, up, memory, op, unused, promised, gone, stops>>

\* update_config for any other setting writes the registry as it is.
UpdateConfig ==
    /\ Ready
    /\ Saved(config)
    /\ UNCHANGED <<files, fileOf, hosts, up, memory, op, history>>

Next ==
    \/ \E v \in Vaults :
          \/ Migrate(v)
          \/ OpenVault(v) \/ OpenUnsaved(v)
          \/ UnlockVault(v) \/ UnlockRefused(v) \/ UnlockUnreported(v)
          \/ LockVault(v)
          \/ CloseVault(v) \/ CloseUnsaved(v)
          \/ SetDefaultTarget(v)
          \/ DeleteForgets(v) \/ DeleteUnsaved(v)
          \/ \E n \in Names : CreateDatabase(v, n) \/ CreateFails(v, n) \/ RenameVault(v, n) \/ RenameUnsaved(v, n)
          \/ \E h \in Hosts :
                \/ DeleteHost(v, h)
                \/ \E refs \in SUBSET Auths : SaveHost(v, h, refs) \/ SaveHostUnreported(v, h, refs)
    \/ \E opened, unlocked \in SUBSET Vaults : Start(opened, unlocked)
    \/ LoadDefaults \/ Stop
    \/ CreateRegisters \/ CreateUndone
    \/ DeleteUnlinks \/ DeleteUnlinkFails
    \/ ResetConfig \/ UpdateConfig

Spec == Init /\ [][Next]_vars

---------------------------------------------------------------------------
\* Properties

Refs == (SUBSET Auths) \cup {None}

\* Disk and memory are in one of their states.
TypeOK ==
    /\ \A c \in {saved, config} :
          /\ c.entries \in [Vaults -> Names \cup {None}]
          /\ c.open \subseteq Vaults /\ c.default \in Vaults \cup {None}
    /\ files \subseteq Files
    /\ fileOf \in [Vaults -> Files]
    /\ hosts \in [Files -> [Hosts -> Refs]]
    /\ name \in [Vaults -> Names \cup {None}]
    /\ store \in [Vaults -> {"none", "locked", "unlocked"}]
    /\ index.scope \in [Vaults \X Hosts -> Refs]
    /\ index.auth \in [Vaults \X Auths -> SUBSET Hosts]
    /\ view \in [Vaults -> SUBSET Hosts]
    /\ op.call \in {"idle", "create", "delete"}

\* A vault whose creation was confirmed is still registered and on disk until
\* it is deleted, and one whose deletion was confirmed never comes back,
\* whatever fails or dies in between.  Resetting the settings, and saving one
\* after the file could not be read, are another matter.
RegistryKeepsPromises ==
    /\ \A v \in promised : /\ fileOf[v] \in files
                            /\ lost \subseteq {"refused"} => saved.entries[v] # None
    /\ \A v \in gone : saved.entries[v] = None /\ name[v] = None /\ fileOf[v] \notin files

\* A registered vault has its database: VaultStore::open would create an empty
\* one in its place.
RegisteredHasFile == \A v \in Registered(saved) : fileOf[v] \in files

\* The registry on disk keeps what was confirmed and points at databases that
\* exist, in well-typed states, through faults, stops and half-done deletions.
RegistrySound == TypeOK /\ RegisteredHasFile /\ RegistryKeepsPromises

\* Between calls, unless a disk operation failed, the settings were reset or a
\* name was refused, a restart brings back the vaults the controller manages
\* and opens the same ones.
RestartKeepsRegistry ==
    Ready /\ faults = 0 /\ lost = {} =>
        name = saved.entries /\ saved.open = {v \in Vaults : store[v] # "none"}

\* The hosts a key or credential is shown to be used by are hosts of unlocked
\* vaults and, unless a statement failed, exactly those that refer to it.
IndexIsExact ==
    \A v \in Vaults, a \in Auths :
        LET listed == index.auth[<<v, a>>]
        IN  /\ listed # {} => store[v] = "unlocked"
            /\ faults = 0 /\ store[v] = "unlocked" => listed = Users(hosts[fileOf[v]], a)

\* "Vault locked. Decrypted records were cleared from memory.": unless a disk
\* operation failed, the windows show no host of a vault that is not unlocked
\* and none that was deleted.
WindowsShowUnlockedOnly ==
    faults = 0 =>
        \A v \in Vaults :
            /\ view[v] # {} => store[v] = "unlocked"
            /\ view[v] \subseteq {h \in Hosts : hosts[fileOf[v]][h] # None}

=============================================================================
