----------------------------- MODULE SecureEditors -----------------------------
(* The secure workspace of one window (crates/seance-ui/src/secure, tunnels.rs,  *)
(* forms.rs and the vault part of workspace.rs): the lists it shows, the host,   *)
(* tunnel and credential editors, the confirm dialog, the key import dialog and  *)
(* the new-host wizard, over the records of VaultRecords, which other windows of *)
(* the application change at the same time. Texts are left out: an edited draft  *)
(* is one that passes its validation (a save that fails it changes nothing), the *)
(* wizard is the host editor with a save that also connects, and the key import  *)
(* dialog may have captured any vault as its target.                             *)
(* `ui` is the window's state, a handler is a function from ui to ui. Nothing in *)
(* the overlays occludes the panels, so clicks reach them under a dialog; keys   *)
(* do not.                                                                       *)
EXTENDS VaultRecords

CONSTANTS Encrypted,     (* keys whose private half needs a passphrase             *)
          Stored,        (* the records the vault files hold when the window opens *)
          DefaultVault,  (* config.vaults.default_target_vault_id                  *)
          MaxChanges     (* bound: changes made to the records                     *)

(* VaultUiSnapshot: the lists a window shows.                                      *)
Snapshots ==
  [hosts : SUBSET HostIds, creds : SUBSET CredIds, keys : SUBSET KeyIds,
   tunnels : SUBSET TunnelIds, unlocked : SUBSET Vaults]

ASSUME EditorsAssumption ==
  /\ Encrypted \subseteq KeyIds /\ DefaultVault \in Vaults /\ Endpoints # {}
  /\ None \notin Snapshots
  /\ MaxAuth > 0 /\ MaxChanges \in Nat

(* The files were written by the operations of VaultRecords.                       *)
ASSUME StoredAssumption ==
  /\ RecordsTyped(Stored.hosts, Stored.creds, Stored.keys, Stored.tunnels)
  /\ Resolve(Stored.hosts, Stored.creds, Stored.keys, Stored.tunnels)
  /\ Distinct(Stored.tunnels)

VARIABLES ui,        (* this window                                                *)
          deleted,   (* ids of records that were deleted                           *)
          changes    (* changes made to the records so far                         *)

vars == <<recVars, ui, deleted, changes>>

Sections == {"hosts", "tunnels", "credentials", "keys"}
Origins == {"standalone", "hostauth"}
StoredIds == DOMAIN hosts \union creds \union keys \union DOMAIN tunnels

(* The lists the backend returns: records of unlocked vaults, and port forwards    *)
(* only with a host that loads.                                                    *)
OfUnlocked(S, us) == {x \in S : VaultOf[x] \in us}
ListHosts(hs, us) == OfUnlocked(DOMAIN hs, us)
ListCredentials(cs, us) == OfUnlocked(cs, us)
ListKeys(ks, us) == OfUnlocked(ks, us)
ListPortForwards(ts, hs, us) == {t \in OfUnlocked(DOMAIN ts, us) : ts[t].host \in DOMAIN hs}

(* vault_ui_snapshot                                                               *)
ListVault(hs, cs, ks, ts, us) ==
  [hosts |-> ListHosts(hs, us), creds |-> ListCredentials(cs, us), keys |-> ListKeys(ks, us),
   tunnels |-> ListPortForwards(ts, hs, us), unlocked |-> us]

Listed == ListVault(hosts, creds, keys, tunnels, unlocked)
ListedNext == ListVault(hosts', creds', keys', tunnels', unlocked')

-----------------------------------------------------------------------------
(* Drafts and pending actions (forms.rs)                                           *)
BlankHost(v) == [vault |-> v, id |-> None, auth |-> <<>>, dirty |-> FALSE]
HostOf(h) == [vault |-> VaultOf[h], id |-> h, auth |-> hosts[h], dirty |-> FALSE]
BlankCredential(v, o) ==
  [vault |-> v, id |-> None, origin |-> o, dirty |-> FALSE]
CredentialOf(c, o) ==
  [vault |-> VaultOf[c], id |-> c, origin |-> o, dirty |-> FALSE]
BlankTunnel(h, ep) ==
  [vault |-> VaultOf[h], id |-> None, host |-> h, ep |-> ep, dirty |-> FALSE]
TunnelOf(t) ==
  [vault |-> VaultOf[t], id |-> t, host |-> tunnels[t].host, ep |-> tunnels[t].ep,
   dirty |-> FALSE]

(* PendingAction: what the discard dialog remembers until it is confirmed.         *)
Pending(kind, arg, origin) == [kind |-> kind, arg |-> arg, origin |-> origin]
CloseWorkspace == Pending("close", None, "standalone")
SwitchSection(s) == Pending(s, None, "standalone")
OpenHost(h) == Pending("host", h, "standalone")
OpenTunnel(t) == Pending("tunnel", t, "standalone")
OpenTunnelFor(h) == Pending("newtunnel", h, "standalone")
OpenCredential(c, o) == Pending("credential", c, o)

Discard(p) == [kind |-> "discard", pending |-> p, host |-> None]
Blocked(h) == [kind |-> "blocked", pending |-> CloseWorkspace, host |-> h]

IsDirty(d) == d # None /\ d.dirty
Unsaved(u) == IsDirty(u.host) \/ IsDirty(u.tunnel) \/ IsDirty(u.cred)

-----------------------------------------------------------------------------
(* apply_vault_snapshot: new lists, then every draft is reconciled. The draft of a *)
(* vault that is no longer unlocked closes; the draft of a record that is no       *)
(* longer stored loses its id, so that saving it makes a new record.               *)
Reconcile(d, l, ids) ==
  IF d = None \/ d.vault \notin l.unlocked THEN None
  ELSE IF d.id = None \/ d.id \in ids THEN d
  ELSE [d EXCEPT !.id = None, !.dirty = TRUE]

(* Mutant: the draft keeps the id of the deleted record.                           *)
ApplySnapshotKeepsIds(u, l) ==
  LET keep(d) == IF d = None \/ d.vault \notin l.unlocked THEN None ELSE d
  IN  [u EXCEPT !.list = l, !.host = keep(@), !.tunnel = keep(@), !.cred = keep(@)]

ApplySnapshot(u, l) ==
  [u EXCEPT !.list = l,
            !.host = Reconcile(@, l, l.hosts),
            !.tunnel = Reconcile(@, l, l.tunnels),
            !.cred = Reconcile(@, l, l.creds)]

(* default_target_vault_id: the configured vault, else the first unlocked one.     *)
DefaultTarget(l) ==
  IF DefaultVault \in l.unlocked THEN DefaultVault
  ELSE IF l.unlocked = {} THEN None ELSE CHOOSE v \in l.unlocked : TRUE

(* open_secure_workspace: drafts stay as they are.                                 *)
OpenSecure(u, s) == [u EXCEPT !.view = s, !.dialog = None]

(* activate_host_draft: refresh_vault_cache and refresh_saved_hosts reload the     *)
(* lists without reconciling; without an unlocked vault a blank draft is refused   *)
(* before the other editors are closed.                                            *)
ActivateHost(u, h) ==
  LET shown == [u EXCEPT !.view = "hosts", !.list = Listed]
      target == DefaultTarget(Listed)
      loads == h \in DOMAIN hosts /\ VaultOf[h] \in unlocked
  IN  IF h = None /\ target = None THEN shown
      ELSE [shown EXCEPT !.tunnel = None, !.cred = None, !.dialog = None,
                         !.host = IF h = None THEN BlankHost(target)
                                  ELSE IF loads THEN HostOf(h) ELSE None]

(* activate_credential_draft: the host draft stays open behind the editor; l is    *)
(* what the lists are reloaded with.                                               *)
ActivateCredential(u, c, o, l) ==
  LET shown == [u EXCEPT !.view = "credentials",
                         !.list = [l EXCEPT !.hosts = u.list.hosts],
                         !.slot = IF o = "standalone" THEN 0 ELSE @]
      target == IF o = "hostauth" /\ u.host # None THEN u.host.vault
                ELSE DefaultTarget(l)
      loads == c \in creds /\ VaultOf[c] \in unlocked
  IN  IF c = None /\ target = None THEN shown
      ELSE [shown EXCEPT !.tunnel = None, !.dialog = None,
                         !.cred = IF c = None THEN BlankCredential(target, o)
                                  ELSE IF loads THEN CredentialOf(c, o) ELSE None]

(* activate_tunnel_draft: the other editors close first; a new rule for a host the *)
(* lists do not show is refused after that.                                        *)
ActivateTunnel(u, t) ==
  [u EXCEPT !.view = "tunnels", !.list = Listed,
            !.host = None, !.cred = None, !.dialog = None,
            !.tunnel = IF t \in DOMAIN tunnels /\ VaultOf[t] \in unlocked
                       THEN TunnelOf(t) ELSE None]

ActivateTunnelFor(u, h, ep) ==
  LET shown == [u EXCEPT !.view = "tunnels", !.list = Listed,
                         !.host = None, !.cred = None]
  IN  IF h \notin Listed.hosts THEN shown
      ELSE [shown EXCEPT !.tunnel = BlankTunnel(h, ep), !.dialog = None]

FirstEndpoint == CHOOSE ep \in Endpoints : TRUE

(* apply_pending_action                                                            *)
Apply(u, p) ==
  LET v == [u EXCEPT !.dialog = None]
      clear == [v EXCEPT !.host = None, !.tunnel = None, !.cred = None,
                         !.slot = 0]
  IN  CASE p.kind = "close" -> [clear EXCEPT !.view = "terminal"]
        [] p.kind \in Sections -> [clear EXCEPT !.view = p.kind]
        [] p.kind = "host" -> ActivateHost(v, p.arg)
        [] p.kind = "tunnel" -> ActivateTunnel(v, p.arg)
        [] p.kind = "newtunnel" -> ActivateTunnelFor(v, p.arg, FirstEndpoint)
        [] p.kind = "credential" -> ActivateCredential(v, p.arg, p.origin, Listed)

(* request_pending_action                                                          *)
Request(u, p) == IF Unsaved(u) THEN [u EXCEPT !.dialog = Discard(p)] ELSE Apply(u, p)

-----------------------------------------------------------------------------
Init ==
  /\ hosts = Stored.hosts /\ creds = Stored.creds
  /\ keys = Stored.keys /\ tunnels = Stored.tunnels
  /\ unlocked = Vaults
  /\ deleted = {} /\ changes = 0
  /\ ui = [view |-> "terminal", dialog |-> None, host |-> None, tunnel |-> None,
           cred |-> None, slot |-> 0, snap |-> None, list |-> Listed]

(* A handler that touches only this window.                                        *)
Show(u) == ui' = u /\ UNCHANGED <<recVars, deleted, changes>>

(* The bookkeeping of every change to the records.                                 *)
Counted ==
  /\ changes < MaxChanges /\ changes' = changes + 1
  /\ deleted' = deleted \union (StoredIds \ StoredIds')

(* publish_vault_update queues a snapshot for every window; refresh_vault_ui       *)
(* applies the same one at once in the window that made the change, so the queued  *)
(* copy has nothing left to do there.                                              *)
Published(u) == [u EXCEPT !.snap = ListedNext]
Refreshed(u) == [ApplySnapshot(u, ListedNext) EXCEPT !.snap = None]

(* schedule_vault_watcher: takes the newest queued snapshot and applies it.        *)
VaultWatcher ==
  /\ ui.snap # None
  /\ Show([ApplySnapshot(ui, ui.snap) EXCEPT !.snap = None])

(* A new record gets a random id.                                                  *)
Unused(S, v) == In(S, v) \ (StoredIds \union deleted)
IdFor(d, S) == IF d.id # None THEN {d.id}
               ELSE IF Unused(S, d.vault) = {} THEN {}
               ELSE {CHOOSE x \in Unused(S, d.vault) : TRUE}

On(s) == ui.view = s
InSecure == ui.view \in Sections
Keyboard == InSecure /\ ui.dialog = None

-----------------------------------------------------------------------------
(* Navigation: the header, the sidebar's vault panel, the palette's commands that  *)
(* open a section or an editor, and the dialog's two buttons.                      *)
CloseSecureWorkspace == InSecure /\ Show(Request(ui, CloseWorkspace))

SwitchTab(s) == InSecure /\ Show(Request(ui, SwitchSection(s)))

OpenVaultPanel(s) == Show(OpenSecure(ui, s))

PaletteCredential(c) ==
  Show(ActivateCredential(OpenSecure(ui, "credentials"), c, "standalone", Listed))

OpenHostTunnelSettings(h) == Show(ActivateHost(ui, h))

CancelConfirmDialog == ui.dialog # None /\ Show([ui EXCEPT !.dialog = None])

ConfirmDialogPrimary ==
  /\ ui.dialog # None
  /\ Show(IF ui.dialog.kind = "discard" THEN Apply(ui, ui.dialog.pending)
          ELSE ActivateHost(OpenSecure(ui, "hosts"), ui.dialog.host))

-----------------------------------------------------------------------------
(* The host editor, its authentication builder and the wizard                      *)
BeginAddHost == ui.list.unlocked # {} /\ Show(ActivateHost(ui, None))

BeginNewHostWizard == Show(ActivateHost(OpenSecure(ui, "hosts"), None))

(* A list row and the palette edit a listed host, "+ new host" and "discard" open  *)
(* a blank one.                                                                    *)
RequestHost(h) == Show(Request(ui, OpenHost(h)))

EditHostField == Keyboard /\ ui.host # None /\ Show([ui EXCEPT !.host.dirty = TRUE])

Edited(d) == d # None /\ (d.dirty \/ d.id # None)

(* save_host_draft, from the button, enter or the save key; the wizard's "save +   *)
(* connect" also leaves for the terminal.                                          *)
SaveHostDraft(connect) ==
  /\ Edited(ui.host) /\ ui.host.auth # <<>>
  /\ On("hosts") \/ (Keyboard /\ ~connect)
  /\ \E id \in IdFor(ui.host, HostIds) :
       /\ StoreHost(ui.host.vault, id, ui.host.auth)
       /\ Counted
       /\ ui' = [Refreshed(ui) EXCEPT !.host.id = id, !.host.dirty = FALSE,
                                      !.view = IF connect THEN "terminal" ELSE @]

(* host_wizard_save after a refused save: a draft of a saved host connects with    *)
(* what is stored and leaves its edits behind.                                     *)
ConnectAfterRefusedSave ==
  /\ On("hosts") /\ ui.host # None /\ ui.host.id # None
  /\ Show([ui EXCEPT !.view = "terminal"])

EditingAuth == On("hosts") /\ ui.host # None
WithAuth(u, auth) == [u EXCEPT !.host.auth = auth, !.host.dirty = TRUE]
Pushed(u, a) == WithAuth(u, Append(u.host.auth, a))

AddAuth(a) ==
  /\ EditingAuth /\ Len(ui.host.auth) < MaxAuth
  /\ Show(Pushed(ui, a))

AddAuthPassword(c) == c \in In(ui.list.creds, ui.host.vault) /\ AddAuth(Password(c))
AddAuthKey(k) == k \in In(ui.list.keys, ui.host.vault) /\ AddAuth(PrivateKey(k, None))

(* remove_auth_item; move_auth_item swaps an item with its neighbour.              *)
Removed(auth, i) == SubSeq(auth, 1, i - 1) \o SubSeq(auth, i + 1, Len(auth))
Swapped(auth, i) == [auth EXCEPT ![i] = auth[i + 1], ![i + 1] = auth[i]]

RearrangeAuth ==
  LET auth == ui.host.auth
  IN  \E new \in {Removed(auth, i) : i \in DOMAIN auth}
            \union {Swapped(auth, i) : i \in 1..(Len(auth) - 1)} :
        Show(WithAuth(ui, new))

WithPassphrase(u, i, c) ==
  [u EXCEPT !.host.auth = [@ EXCEPT ![i].cred = c], !.host.dirty = TRUE]

SetAuthPassphrase(i, c) ==
  /\ i \in DOMAIN ui.host.auth /\ ui.host.auth[i].key # None
  /\ c \in In(ui.list.creds, ui.host.vault) \union {None}
  /\ Show(WithPassphrase(ui, i, c))

HostAuthBuilder ==
  /\ EditingAuth
  /\ \/ \E c \in CredIds : AddAuthPassword(c)
     \/ \E k \in KeyIds : AddAuthKey(k)
     \/ RearrangeAuth
     \/ \E i \in 1..MaxAuth, c \in CredIds \union {None} : SetAuthPassphrase(i, c)

OpenQuickCreateCredential ==
  EditingAuth /\ Show(Request([ui EXCEPT !.slot = 0], OpenCredential(None, "hostauth")))

DeleteSavedHost(h) ==
  /\ h \in ui.list.hosts
  /\ DeleteHost(VaultOf[h], h) /\ Counted
  /\ ui' = Refreshed(ui)

-----------------------------------------------------------------------------
(* The credential editor                                                           *)
RequestCredential(c) == On("credentials") /\ Show(Request(ui, OpenCredential(c, "standalone")))

EditCredentialField ==
  Keyboard /\ ui.cred # None /\ Show([ui EXCEPT !.cred.dirty = TRUE])

(* The credential a host editor asked for goes to the key that waits for its       *)
(* passphrase, and becomes a password method when no key waits.                    *)
Waits(u) == u.slot \in DOMAIN u.host.auth /\ u.host.auth[u.slot].key # None

AttachSaved(u, c) ==
  LET v == [u EXCEPT !.cred = None, !.view = "hosts"]
      taken == [v EXCEPT !.slot = 0]
  IN  IF u.host = None \/ u.host.vault # VaultOf[c] THEN v
      ELSE IF Waits(u) THEN WithPassphrase(taken, u.slot, c) ELSE Pushed(taken, Password(c))

SaveCredentialDraft ==
  /\ Edited(ui.cred)
  /\ On("credentials") \/ (Keyboard /\ ui.host = None /\ ui.tunnel = None)
  /\ ui.cred.origin = "hostauth" /\ ui.host # None =>
       Waits(ui) \/ Len(ui.host.auth) < MaxAuth
  /\ \E id \in IdFor(ui.cred, CredIds) :
       /\ StoreCredential(ui.cred.vault, id)
       /\ Counted
       /\ ui' = IF ui.cred.origin = "hostauth" THEN AttachSaved(Refreshed(ui), id)
                ELSE [Refreshed(ui) EXCEPT !.cred.id = id, !.cred.dirty = FALSE]

(* host_references_for_credential and host_references_for_key: of hosts that load. *)
Referencing(field, id) ==
  {h \in DOMAIN hosts : /\ VaultOf[h] = VaultOf[id] /\ VaultOf[h] \in unlocked
                        /\ \E i \in DOMAIN hosts[h] : hosts[h][i][field] = id}

(* attempt_delete_credential and attempt_delete_private_key, from the editor or    *)
(* the palette: a referenced record opens the blocked dialog.                      *)
AttemptDelete(field, id, Delete(_, _)) ==
  IF Referencing(field, id) # {}
  THEN \E h \in Referencing(field, id) : Show([ui EXCEPT !.dialog = Blocked(h)])
  ELSE Delete(VaultOf[id], id) /\ Counted /\ ui' = Refreshed(ui)

AttemptDeleteCredential(c) == c \in ui.list.creds /\ AttemptDelete("cred", c, DeleteCredential)

(* ensure_host_draft_for_vault: the windows an attach button may act on. Without a *)
(* draft in the vault it loads a listed host over whatever is open.                *)
HostDraftFor(v) ==
  IF ui.host # None /\ ui.host.vault = v THEN {ui}
  ELSE {ActivateHost(ui, h) : h \in In(ui.list.hosts, v)}

EditingSavedCredential == On("credentials") /\ ui.cred # None /\ ui.cred.id # None

AttachCredentialPassword ==
  /\ EditingSavedCredential
  /\ \E u \in HostDraftFor(ui.cred.vault) :
       /\ u.host # None => Len(u.host.auth) < MaxAuth
       /\ Show(IF u.host = None THEN u
               ELSE [Pushed(u, Password(ui.cred.id)) EXCEPT !.view = "hosts"])

(* The selected key of the order, or its first one.                                *)
AttachCredentialPassphrase ==
  /\ EditingSavedCredential
  /\ \E u \in HostDraftFor(ui.cred.vault) :
       LET slots == IF u.host = None THEN {}
                    ELSE {i \in DOMAIN u.host.auth : u.host.auth[i].key # None}
       IN  IF slots = {} THEN Show(u)
           ELSE \E i \in slots :
             Show([WithPassphrase(u, i, ui.cred.id) EXCEPT !.view = "hosts"])

-----------------------------------------------------------------------------
(* Keys                                                                            *)
KeyTarget == IF ui.host # None THEN ui.host.vault ELSE DefaultTarget(ui.list)

(* The end of attach_key_to_host and of on_private_key_created: an encrypted key   *)
(* waits for the credential editor to supply its passphrase.                       *)
AttachKey(u, k, l) ==
  LET v == [Pushed(u, PrivateKey(k, None)) EXCEPT !.view = "hosts"]
  IN  IF k \notin Encrypted THEN v
      ELSE ActivateCredential([v EXCEPT !.slot = Len(v.host.auth)], None, "hostauth", l)

OnPrivateKeyCreated(u, k) ==
  LET r == Refreshed(u)
  IN  IF r.host # None /\ r.host.vault = VaultOf[k] THEN AttachKey(r, k, ListedNext) ELSE r

RoomForKeys(v, n) == ui.host # None /\ ui.host.vault = v => Len(ui.host.auth) + n <= MaxAuth

(* generate_ed25519_key_for_secure and generate_rsa_key_for_secure, from a panel   *)
(* or, with the keys section opened first, from the palette.                       *)
GenerateKey(palette) ==
  /\ palette \/ On("keys") \/ EditingAuth
  /\ KeyTarget # None /\ RoomForKeys(KeyTarget, 1)
  /\ \E k \in Unused(KeyIds, KeyTarget) \ Encrypted :
       /\ StoreKeys(KeyTarget, {k})
       /\ Counted
       /\ ui' = OnPrivateKeyCreated(IF palette THEN OpenSecure(ui, "keys") ELSE ui, k)

(* import_pasted_key and import_discovered_candidate store one key,                *)
(* import_selected_path_keys any number of them.                                   *)
ImportKeys(v) ==
  /\ InSecure
  /\ \E k, l \in Unused(KeyIds, v) :
       /\ RoomForKeys(v, Cardinality({k, l}))
       /\ StoreKeys(v, {k, l})
       /\ Counted
       /\ ui' = IF k = l THEN OnPrivateKeyCreated(ui, k)
                ELSE OnPrivateKeyCreated(OnPrivateKeyCreated(ui, k), l)

(* A later file cannot be read: the keys before it are stored, and nobody is told. *)
ImportKeysFails(v) ==
  /\ InSecure
  /\ \E k \in Unused(KeyIds, v) : StoreKeys(v, {k})
  /\ Counted
  /\ UNCHANGED ui

AttachKeyToHost(k) ==
  /\ On("keys") /\ k \in ui.list.keys
  /\ \E u \in HostDraftFor(VaultOf[k]) :
       /\ u.host # None => Len(u.host.auth) < MaxAuth
       /\ Show(IF u.host = None THEN u ELSE AttachKey(u, k, Listed))

AttemptDeletePrivateKey(k) == k \in ui.list.keys /\ AttemptDelete("key", k, DeleteKey)

-----------------------------------------------------------------------------
(* The tunnel editor                                                               *)
(* From the tunnel list, the host editor's tunnel section or the palette.          *)
BeginAddTunnel(h) == h \in ui.list.hosts /\ Show(Request(ui, OpenTunnelFor(h)))
BeginEditTunnel(t) == t \in ui.list.tunnels /\ Show(Request(ui, OpenTunnel(t)))

EditTunnelField(ep) ==
  /\ ui.tunnel # None /\ (Keyboard \/ On("tunnels"))
  /\ Show([ui EXCEPT !.tunnel.ep = ep, !.tunnel.dirty = TRUE])

SaveTunnelDraft ==
  /\ Edited(ui.tunnel)
  /\ On("tunnels") \/ (Keyboard /\ ui.host = None)
  /\ \E id \in IdFor(ui.tunnel, TunnelIds) :
       /\ StoreTunnel(ui.tunnel.vault, id, ui.tunnel.host, ui.tunnel.ep)
       /\ Counted
       /\ ui' = [Refreshed(ui) EXCEPT !.tunnel.id = id, !.tunnel.dirty = FALSE]

DeleteSavedTunnel ==
  /\ On("tunnels") /\ ui.tunnel # None /\ ui.tunnel.id # None
  /\ DeleteTunnel(ui.tunnel.vault, ui.tunnel.id)
  /\ Counted
  /\ ui' = Refreshed(ui)

-----------------------------------------------------------------------------
(* Locking, unlocking and the other windows                                        *)
LockVault ==
  /\ Lock(ui.list.unlocked \intersect unlocked)
  /\ Counted
  /\ ui' = [Refreshed(ui) EXCEPT !.dialog = None, !.view = "terminal"]

LockNamedVault(v) == Lock({v}) /\ Counted /\ ui' = Refreshed(ui)

UnlockVault(v) == Unlock(v) /\ Counted /\ ui' = Refreshed(ui)

(* Any record operation of another window: this one hears of it by a snapshot.     *)
(* Bound: the hosts it saves have one password.                                    *)
OtherWindow ==
  /\ \/ \E h \in HostIds \ deleted, c \in CredIds : StoreHost(VaultOf[h], h, <<Password(c)>>)
     \/ \E h \in HostIds : DeleteHost(VaultOf[h], h)
     \/ \E c \in CredIds \ deleted : StoreCredential(VaultOf[c], c)
     \/ \E c \in CredIds : DeleteCredential(VaultOf[c], c)
     \/ \E k \in KeyIds \ deleted : StoreKeys(VaultOf[k], {k})
     \/ \E k \in KeyIds : DeleteKey(VaultOf[k], k)
     \/ \E t \in TunnelIds \ deleted, h \in HostIds, ep \in Endpoints :
          StoreTunnel(VaultOf[t], t, h, ep)
     \/ \E t \in TunnelIds : DeleteTunnel(VaultOf[t], t)
     \/ \E v \in Vaults : Lock({v}) \/ Unlock(v)
  /\ Counted
  /\ ui' = Published(ui)

Navigate ==
  \/ CloseSecureWorkspace \/ CancelConfirmDialog \/ ConfirmDialogPrimary
  \/ \E s \in Sections : SwitchTab(s)
  \/ \E s \in {"credentials", "tunnels"} : OpenVaultPanel(s)
  \/ \E c \in ui.list.creds \union {None} : PaletteCredential(c)
  \/ \E h \in ui.list.hosts : OpenHostTunnelSettings(h)

(* The rows and buttons of the lists, and the palette's commands that do the same. *)
ListPanel ==
  \/ BeginNewHostWizard
  \/ \E h \in ui.list.hosts \union {None} : RequestHost(h)
  \/ \E c \in ui.list.creds \union {None} : RequestCredential(c)
  \/ \E palette \in BOOLEAN : GenerateKey(palette)
  \/ \E v \in Vaults : ImportKeys(v) \/ ImportKeysFails(v)

TunnelList ==
  \/ \E h \in HostIds : BeginAddTunnel(h)
  \/ \E t \in TunnelIds : BeginEditTunnel(t)

HostEditor ==
  \/ BeginAddHost \/ EditHostField \/ ConnectAfterRefusedSave
  \/ \E connect \in BOOLEAN : SaveHostDraft(connect)
  \/ HostAuthBuilder \/ OpenQuickCreateCredential
  \/ \E h \in HostIds : DeleteSavedHost(h)

CredentialEditor ==
  \/ EditCredentialField \/ SaveCredentialDraft
  \/ \E c \in CredIds : AttemptDeleteCredential(c)
  \/ AttachCredentialPassword \/ AttachCredentialPassphrase

KeyPanel ==
  \E k \in KeyIds : AttachKeyToHost(k) \/ AttemptDeletePrivateKey(k)

TunnelEditor ==
  \/ \E ep \in Endpoints : EditTunnelField(ep)
  \/ SaveTunnelDraft \/ DeleteSavedTunnel

Next ==
  \/ Navigate \/ ListPanel \/ TunnelList
  \/ HostEditor \/ CredentialEditor \/ KeyPanel \/ TunnelEditor
  \/ LockVault \/ \E v \in Vaults : LockNamedVault(v) \/ UnlockVault(v)
  \/ OtherWindow \/ VaultWatcher

Spec == Init /\ [][Next]_vars

-----------------------------------------------------------------------------
(* The variables have their types; a draft is of a known vault and holds an order. *)
TypeOK ==
  /\ RecTypeOK
  /\ deleted \subseteq HostIds \union CredIds \union KeyIds \union TunnelIds
  /\ changes \in 0..MaxChanges
  /\ ui.view \in Sections \union {"terminal"}
  /\ ui.slot \in 0..MaxAuth
  /\ ui.host # None => ui.host.vault \in Vaults /\ ui.host.auth \in AuthOrders

Quiet == ui.snap = None

(* Once the snapshots have been taken, no editor holds the id of a record that is  *)
(* gone and none is open on a locked vault, whichever window deleted or locked it  *)
(* and whatever was being edited: a save then makes a new record instead of        *)
(* bringing a deleted one back (the three reconcile_*_draft_after_vault_snapshot). *)
DraftsFollowRecords ==
  Quiet =>
    /\ \A d \in {ui.host, ui.tunnel, ui.cred} \ {None} : d.vault \in unlocked
    /\ ui.host # None => ui.host.id \in DOMAIN hosts \union {None}
    /\ ui.tunnel # None => ui.tunnel.id \in DOMAIN tunnels \union {None}
    /\ ui.cred # None => ui.cred.id \in creds \union {None}

(* Once the snapshots have been taken, the lists show what the vaults hold; only a *)
(* key stored by an import that failed later may be missing.                       *)
ListsAreCurrent ==
  Quiet => /\ [ui.list EXCEPT !.keys = {}] = [Listed EXCEPT !.keys = {}]
           /\ ui.list.keys \subseteq Listed.keys

(* Enter and the save key try the host editor, then the tunnel editor: a tunnel    *)
(* editor is never open with another one, so they save the tunnel the user sees.   *)
TunnelEditorAlone == ui.tunnel # None => ui.host = None /\ ui.cred = None

(* The editors of a window keep up with the records, in well-typed states, through *)
(* deletions and locks by itself and by other windows.                             *)
EditorsFollowRecords == TypeOK /\ DraftsFollowRecords /\ ListsAreCurrent /\ TunnelEditorAlone
=============================================================================
