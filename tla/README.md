# Verification of Séance

Séance is a desktop terminal and SSH client with an encrypted vault of hosts,
keys and credentials, and a hosted service that synchronises vaults between
devices. This directory models the parts of it whose correctness depends on
interleavings, failures, restarts and long sequences of events, checks them with
TLC on small instances and proves the central ones with TLAPS for every instance.

`PROJECT.json` lists components, runs, mutants, the source lines each
definition models, findings, hazards and theorems. To repeat a run:
`tlc -config VaultAuthority.cfg MCVaultAuthority`; to repeat the proofs
of a module: `tlapm SyncReplicasProofs.tla`, and so for each of the eight
`…Proofs.tla`.

## 1. The system

| Part | State | Operations | What is hard |
|---|---|---|---|
| **Commit authority** (`services/seance-sync`: `index.ts`, `durable/vault-authority.ts`, `lib/db.ts`) | D1 rows (vault, commits, idempotency ledger, replicas, snapshot manifests), R2 objects | POST commits, PUT snapshot | the vault row is read by the Worker before the Durable Object runs; every await interleaves; retries; failures between R2 and D1 |
| **Bootstrap and pull** (same service) | the device's cursor | GET bootstrap, GET commits | three reads of one answer with writers in between; page limits; which snapshot covers what |
| **Vault record merge** (`seance-vault`) | records and tombstones, logical clock, header | store, delete, export/apply delta, export/apply snapshot | equal clocks, statement-by-statement writes without a transaction |
| **Vault keys** (`seance-vault`) | header, recovery bundle, enrollment, OS key store, master key in memory | create, unlock by passphrase or device, rotate, enroll, lock | key store and database change in separate steps that can each fail |
| **Vault records** (`seance-vault`) | hosts, credentials, private keys, port forwards | save, delete, generate, import | references that must resolve over any sequence of edits |
| **Vault registry and controller** (`seance-core`, `seance-config`) | config.toml, database files, entries, open stores, auth reference index, last published snapshot | create, rename, open, close, unlock, lock, delete, default target, save/delete host, reset, restart, migration | two durable places that must agree; memory changed before a save that can fail; publication only on success |
| **Secure workspace** (`seance-ui/src/secure`, `tunnels.rs`, `forms.rs`) | drafts, dirty flags, lists, dialogs of a window | edit, save, delete, attach, import, wizard | another window deletes or locks what is being edited |
| **Port forwards** (`seance-ssh`: `tunnel.rs`, `manager.rs`) | snapshots, cancel handles, tasks, connections, subscribers | start, stop, task life cycle, connection accounting, broadcast | tasks outlive the id they were started for |
| **Session workers** (`seance-terminal`: `local.rs`, `state.rs`, `turns.rs`; `seance-ssh`: `backend.rs`; `seance-core/session_logs.rs`) | command channel, output channel, emulator, published viewport, turns, transcript queue and file | input, resize, scroll, copy, exit, record | what is written and what is published can part; output in flight at exit; queues at their limit |
| **Terminal pane** (`seance-ui`: `sessions.rs`, `frame_pacer.rs`, `surface.rs`, `workspace_scroll.rs`, `terminal_*.rs`) | active session, surface, pacer, scheduled closures, gestures, geometry | publish, repaint, defer, scroll, drag, select, switch, resize | closures scheduled for a session that is no longer shown; repaints that are coalesced away |
| **Remote sessions** (`seance-ssh`: `manager.rs`, `sftp.rs`; `seance-ui`: `connect.rs`, `sftp.rs`) | connect tasks, attempt tracker, SFTP map, session order, browser | connect, cancel, time out, complete, close, browse, delete, rename, mkdir | late results against cancel, timeout and close |
| **Windows** (`seance-ui`: `app.rs`, `workspace.rs`, `palette.rs`, `settings.rs`, `vault.rs`; `seance-updater`) | window registry, lifecycle policy, overlays, text inputs, settings, update state | open, close, type, submit, page, save, check, install | keys and texts that reach the wrong place; views of shared state that stay stale; threads that publish over one another |
| Single instance (`seance-platform`, `seance-app`) | lock file, socket | acquire or notify, serve | second start while the first is starting or ending |
| Accounts and memberships (sync service) | magic links, sessions, memberships | sign in, refresh, revoke, create vault, invite | several statements without a transaction |

The controller runs behind one mutex (`AppControllerHandle::with_lock`); windows
call it and receive snapshots through channels. It starts SSH sessions and
tunnels, whose tasks run on their own threads and take none of that mutex. It
opens `VaultStore`s; a vault store merges what the hosted service delivers. A
session worker publishes a viewport and posts one token; the window's watcher
turns tokens into repaints. The client that calls the service is not in the
repository: the models take it from `docs/VAULT-SYNC-PROTOCOL.md` and say so.

Correctness, per part: the hosted stream is a dense append-only log that accepts
every upload exactly once and answers truthfully; a device holds everything up to
its cursor and reaches the head; replicas that received the same deltas agree and
never go back; a confirmed passphrase keeps opening the vault; registry
and files agree across restarts and windows show no record of a locked vault; no
record names one that is gone, and no editor holds one; a running tunnel can be
stopped and a stopped one ends and disappears; what a shell writes is shown, what
a user sends is applied once; a gesture ends on the session it began on; a
cancelled connect never opens; typed secrets go where they are seen to go and are
wiped; windows converge to the saved settings and the real vault.

## 2. Modules

| Module | Models | Properties and proofs |
|---|---|---|
| `CommitLog` | abstract: what a device is promised about its uploads | refined by `VaultAuthority` |
| `VaultAuthority` | write side of the service, one step per await | invariants, `ImplementsCommitLog` |
| `SyncReplicas` | `VaultAuthority` with readers and devices | completeness, liveness |
| `SyncReplicasProofs` | | `VaultAuthority` and its refinement; cursors, by the writers' invariant |
| `TunnelRegistry` | port forwards | invariants, `StoppedEnds` |
| `TunnelRegistryProofs` | | both invariants |
| `VaultReplicas` | record merge on several devices | convergence, no regression |
| `VaultUnlock` | keys of one vault | unlock guarantees |
| `VaultProofs` | | all six properties of both |
| `VaultRegistry` | controller, config and files | registry, index and view agreement |
| `VaultRegistryProofs` | | all four invariants |
| `VaultRecords` | record API of the open vaults | `RefsResolve`, `UniqueListenEndpoints` |
| `SecureEditors` | editors of a window over `VaultRecords` | drafts and lists follow records |
| `SecureEditorsProofs` | | records and editors, for all constants |
| `TerminalSession` | local and SSH session worker, reader, transcript writer, callers | accounting, exit, liveness |
| `TerminalView` | terminal pane of a window | gestures, closures, repaint |
| `TerminalProofs` | | the safety properties of both |
| `RemoteSessions` | connect tasks, tracker, sessions, SFTP browser | cancel and timeout races |
| `RemoteSessionsProofs` | | both invariants |
| `TextEdit` | caret and selection of text fields (operators) | used by `WorkspaceShell` |
| `UpdateManager` | updater threads and subscribers | used by `WorkspaceShell` |
| `WorkspaceShell` | windows, overlays, settings, with `TextEdit` and `UpdateManager` | agreement, dialogs, palette |
| `WorkspaceShellProofs` | | its safety properties |
| `MC…` | constants, symmetry and what may be combined, for TLC | |

**VaultAuthority.** A slot is one request in flight. `PostCommit` reads the vault
row, as `index.ts` does before it calls the Durable Object; the handler then
validates, reads the ledger, puts the object in R2, runs the D1 batch (commit,
ledger, replica and vault row in one transaction) and broadcasts the hint.
A delta it refuses is answered with 500, because the `HttpError` thrown inside the
Durable Object has no error boundary there, so the client tries again
(`RejectCommit`). `PutSnapshot` is the Worker's own handler. `Fail` ends a request at any await: a
crash, a failed call or a lost answer. Bodies are abstracted to device, key,
clocks and number of records; R2 keys contain a fresh UUID, so an object is
identified by its sequence number and upload.

**SyncReplicas.** Adds `GET /bootstrap` (row, manifest, tail: three steps) and
`GET /commits` (row, page: two steps) and a device that stores cursor and content.

**TunnelRegistry.** One task per start; registry locks are steps of their own, so
a task runs between the steps of a controller call. Connections have their own
tasks and may outlive the tunnel. The SSH handle is behind a lock: a connection of a
local forward holds it while it asks the server for a channel, and a stopped task
needs it to disconnect (`HandleFree`, `ConnLocks`, `TaskLocks`). A broadcast copies under one lock and sends
under another.

**VaultReplicas.** Each SQL statement is a step, because none of these calls uses a
transaction; a crash between two loses what is in memory. A record version is
clock, time and nonce, the parts `record_precedence` compares. Deltas reach the
other devices through a stream in order, which is what `CommitLog` promises.

**VaultUnlock.** SQL statements and key store calls are steps that can fail; wrapped
keys are represented by the passphrase or device key that opens them. The warning
about a failed enrollment is a statement of its own, whose error the code drops
(`Persist`). Four ghosts record what was promised: the passphrase confirmed last, those
asked for since, a rotation cut short between its two statements (`torn`) and an
enrollment that nobody was told of (`unnoticed`).

**VaultRegistry.** Calls are atomic under the mutex except where they touch the disk
twice (create, delete). `saved` is the file, `config` what the `ConfigStore` holds;
they differ only after `LoadDefaults`, the fallback for an unreadable file. A name
stands for what `eq_ignore_ascii_case` tells apart, while `validate` compares
`to_lowercase`; `Lower` keeps that difference. `view` is the last snapshot sent to
the windows.

**VaultRecords, SecureEditors.** A host is its list of authentication references, a
port forward its host and endpoint; other fields pass validation or the call
changes nothing. `SecureEditors` is one window's state and every handler that
changes it, composed with the record calls; `OtherWindow` is any record call made
elsewhere, after which a snapshot waits until `VaultWatcher` takes it. The window's
own queued snapshot is merged into the refresh it does anyway. The wizard is the
host editor with a save that connects; its step number and all texts are left out,
the import dialog may target any vault, and hosts saved elsewhere have one password.

**TerminalSession.** One turn of the worker loop is a few steps, separated where the
reader, the child or a caller can come in between: drain and commands, a write to the
shell, the second drain, its refresh, the poll of the child, the final drain, the last
refresh. A write (`StartWrite`, `Written`) takes as long as the other side likes. Every
refresh may fail, which puts an error in place of the screen (`RefreshFails`), and so
may every write of the transcript, which ends its writer (`WriterDies`). A chunk of
output is one row of scrollback, a switch of screens or, for a shell that redraws, no
row at all; text is its length. The SSH worker is the other value of `kind`.

**TerminalView.** The window is a record and each method an operator on it; a
deferred closure is an element of a queue with a flag saying whether its epoch is
still the current one. The viewport has one row with a link. Another window appears
through what it does to shared sessions (resize, close, take the notifications).

**RemoteSessions.** A connect task is polled under a biased select: cancellation
first, then the next await. `Complete` is the whole completion handler on the main
thread. The server's directories are two sets of names that another client changes.

**WorkspaceShell.** Handlers are atomic (one UI thread); the channels to a window hold
their newest value, because watchers drain them. Updater threads publish in two
steps, state and sends. Left out: message texts, toasts, the keep-sessions toggle and
the terminal section of the settings (written like the window section), and every
vault but one. A behaviour is in one *scope* (typing, settings and vault, or
updates), chosen at the start, which enables that group of user events only; what
runs by itself is enabled in every scope. The scopes share the windows' state, so
what they leave out is a mixture of, say, typing with updates within four events.

## 3. Runs

A property named here is often the conjunction of the parts in brackets, each stated
and commented on its own in the module; the type invariant is one of the parts.

| Run | Shows |
|---|---|
| `commits` | Two handlers, four uploads (one malformed, two from one device), one snapshot, one failure, unlimited retries. Stream dense (`StreamDense`), each upload once (`AcceptedOnce`), no row without object (`NoPartialCommit`), acknowledgements true (`AckedIsCommitted`), head, hints and replica rows true (`EffectsFollowCommit`: `HeadCoversCommits`, `HintsFollowCommit`, `ReplicaIsNewestCommit`), refinement of `CommitLog`. |
| `replicas` | One reader, two devices that contend for the head, an upload with too many records that is retried for ever, and a snapshot or a failure at any await: a device holds everything up to its cursor (`CursorsSound`: `CursorComplete`) and reaches the head (`ReplicasCatchUp`), and every well-formed upload is answered in the end (`EveryUploadAnswered`). |
| `tunnels` | Stops at any moment of two starts of one id, the second as a remote forward, or of one start with two connections that want the handle too: a running tunnel can be stopped (`RunningIsStoppable`), what is shown is real (`ViewIsHonest`: `NoPhantomConnections`, `NoGhostTunnel`), and a stopped task ends and cleans up unless the server never answers (`StoppedEnds`). |
| `vault` | *Records:* two devices write and delete one record at equal or different times, one crash: agreement when quiet, whatever crashed (`QuiescentAgreement`), and without a crash clocks in order (`ClocksInOrder`: `ClockCoversRecords`, `StreamNeverOutOfOrder`) and no record that goes back (`RecordsNeverRegress`). *Keys:* three deaths, at any point or none, and three failures: a confirmed passphrase, or one that a later rotation was asked for, opens the vault unless that rotation was torn (`AckedPassphraseOpens`); an offered device unlock works unless an enrollment was cut short between its two stores or could not even store its warning (`DeviceUnlockHonest`); and a passphrase unlock in which nothing fails leaves one that works (`PassphraseUnlockReenrolls`). |
| `vault_registry` | Two vaults (one perhaps migrated), two restarts, one failing disk operation: promises about created and deleted vaults (`RegistrySound`: `RegistryKeepsPromises`, `RegisteredHasFile`), a restart restores memory (`RestartKeepsRegistry`), the auth index is exact (`IndexIsExact`), windows show unlocked vaults only (`WindowsShowUnlockedOnly`). |
| `secure_editors` | Two vaults, one with a host, an encrypted key, its passphrase and a port forward; two record changes by either window among any number of UI events: references resolve (`RefsResolve`), endpoints are unique (`UniqueListenEndpoints`), the editors follow (`EditorsFollowRecords`: `DraftsFollowRecords`, `ListsAreCurrent`, `TunnelEditorAlone`). |
| `terminal_session` | Three events, each a chunk of output, on its way at any point when the shell exits, or one of at most two commands; queue and file of one event each, a copy request that may time out, refreshes and writes that may fail: nothing is lost or doubled unseen (`SessionAccounted`: `CommandsAccounted`, `NoSilentOutput`, `TranscriptAccounted`, `TurnTextBounded`), and what the reader of a local shell had delivered when the exit was seen is on the screen that shows the exit (`ExitAfterDrain`). |
| `terminal_liveness` | A shell that may stop reading or never stop writing: a local session whose handle is gone ends (`ClosedLocalEnds`) and output is shown (`OutputShown`), unless the worker hangs on the shell. |
| `terminal_view` | Two sessions, two user events, one publication at any point of a repaint: gestures and closures belong to the session shown (`WindowSound`: `GesturesFollowSession`, `FlagsHaveClosures`), a window at rest is current (`SettledWindow`: `SettledIsCurrent`, `SelectedHasGeometry`), and it keeps catching up (`OutputPainted`). |
| `remote_sessions` | Two hosts, two attempts, four events: tracker, sessions and SFTP map fit together (`AttemptsSettle`: `TrackerConsistent`, `CancelledNeverShown`, `FailureLeavesNoSftp`, `SessionsHaveSftp`), the browser acts in the directory it shows (`ListingIsOfPath`), attempts end (`AttemptsEnd`). |
| `workspace_shell` | Two windows in the scopes above: windows agree with registry, settings and vault (`WindowsAgree`: `RegistryExact`, `SettledShowsSaved`, `SettledShowsVault`), typing is safe (`DialogSafe`: `SecretsWiped`, `TypingGoesToHighlight`, `TopmostGetsKeys`), the palette is right (`PaletteSound`: `PaletteCaretInQuery`, `PaletteListsMatches`, `PagingMoves`), the last close follows the saved settings (`LastCloseFollowsSettings`), a check ends on screen (`CheckingEnds`). |
| `vault_modal` | Refuted: the vault dialog calls a complete form incomplete (`IncompleteIsTrue`), because `submit_vault_modal` sets `busy` before `can_submit`, which refuses while busy. README.md sends users to that dialog to re-enroll a device. |

The conditions in some properties (`faults = 0`, `crashes = 0`, `torn`, `unnoticed`,
`skipped`, `bumped`, `missed`) mark exactly where the code gives no guarantee;
section 5 describes what happens there.

`vault` is one run about two halves that share no state: a behaviour is about the
records or about the keys. `replicas` and `tunnels` bound, in their MC module, what may
be combined (no failure with a snapshot, no second start with a second connection). Both
bounds disable only steps that are under no fairness, so they make no fair behaviour
unfair.

**Bounds.** Two slots suffice for every pairwise race of handlers, and the theorems
remove the bound. Four uploads give a retry, a racing duplicate, a refused body
and a second commit of one device. A second start is the least number for which
tasks share an id. Two devices and one record are the least for a conflict;
`MaxClock` and `MaxStream` allow an edit on each side and its exchange. Two
restarts allow a failure, a recovery and a second failure. Two record changes
(`MaxChanges`) let one window delete what another edits, and one id of each kind is
unused at the start, so that something can be created. A second command is the least
that ends a scroll batch; a third chunk is the least with one drained, one delivered and
one not; one chunk without a row (`Flood`) that comes again and again keeps a channel
from being empty. Two connections are the least that can pass a handle on without the
task that waits for it. Two attempts are the least for which one overtakes another;
four events open the browser, a prompt and confirm it. Two windows are the least for
stale settings; two letters and `MaxText = 2` give every kind of match in the palette.
Several initial states (sessions already open, palette already shown) keep the number
of events small. Every bound is a named constant checked in a guard.

**Fairness.** Handlers in the service are weakly fair: the runtime continues a
request once its await completes. Clients retry an unanswered upload, as the
protocol document requires, and devices keep pulling. A retry is strongly fair,
because the slots are a bound of the model which the service does not have: another
upload's retry must not keep one out for ever. In
`TunnelRegistry` a task's own steps (including the poll of its stop channel) and its
broadcasts are weakly fair, and a task that waits for the SSH handle gets it (strong
fairness: tokio's mutex serves in order). What waits for the server is
not fair: connecting, authenticating, opening a channel, cancelling a forward,
disconnecting, traffic. In `TerminalSession` the worker and the reader thread are
scheduled and a drain that has a deadline ends at it; writes to the shell, the shell
itself, callers, timeouts and the transcript writer owe nothing. In `TerminalView` the
main thread runs its closures, redraws a dirty window, runs watchers and lets delays
pass. In `RemoteSessions` the runtime polls a task that is
cancelled or whose `CONNECT_TIMEOUT` passed, and delivers its result; the server may
never answer. In `WorkspaceShell` ready tasks run, and a check's requests have a
timeout; an installer may run for ever. All other runs check safety only.

**Deadlock** is not checked: each system may stop when its bounded inputs are used up.

## 4. Proofs

`SyncReplicasProofs` is first about `VaultAuthority`, for every set of slots and uploads
and every number of snapshots and failures. Assumptions: `UploadsAssumption` (there is an upload, its
fields are numbers, device and key determine the body) and `BoundsAssumption`.

- `TypeCorrect`: types, by one step per action.
- `StreamIsDense`, `UploadsAcceptedOnce`, `HeadCoversEveryCommit`,
  `NoCommitIsPartial`, `AnswersAreTrue`, `EffectsAreTrue`: the safety invariants of
  `commits`.
- `StreamIsAppendOnly`: accepted commits are never rewritten (`AppendOnly`).
- `AuthorityImplementsCommitLog`: the refinement.

The safety properties are not inductive alone. `Inv` adds `RowsAreOld` (the row a
handler holds is at most the current one in sequence number and clock) and
`HandlersOnTrack` (what each stage has checked and stored already). The argument:
only the batch changes the stream (`OnlyBatchCommits`); it succeeds only if its
primary key is free; its key is the handler's old head plus one; the stream is
dense and the old head is at most the current one, so the key is free only if the
row is still current (`BatchAtHead`). Density, clocks, replica rows and the
refinement follow.

`SyncReplicasProofs` then adds any number of reading devices and any limits of tail and
page (`LimitsAssumption`: at least one). Readers write none of the service's tables,
so a step of theirs is a stutter of `VaultAuthority` (`ReadersLeaveWritersAlone`, a
refinement by projection) and `Inv` holds beside them. `ReadersInv` adds that no row or
cursor a reader holds is beyond the head and that a bootstrap's manifest was written.
Since commits are dense and a page is the interval after a position
(`CommitsAfterSeqInterval`), a device holds all up to its cursor (`CursorsAreSound`,
with the two exceptions of the property: a manifest of an older export and a cut
tail) and every commit of a page has its object (`ReadsFindTheirObjects`).

`SecureEditorsProofs` proves the records and the editors over them, for every set of
vaults, ids, endpoints and bounds. `RecordsAssumption` tells the ids of the four kinds
apart from `None` and gives each to one vault; `EditorsAssumption` says the same of
snapshots and that there is an endpoint to listen on and room for one authentication
method; `StoredAssumption` says that the files a vault starts from were written by the
record API: well typed, with references that resolve and distinct endpoints.
`RecordRefsResolve` and `RecordEndpointsUnique` state the two record properties of
`RecSpec`, in which any window may make any record call at any time; they are
inductive with the types. Saving checks what the new record refers to, deleting checks
that nobody refers to it, and a locked vault refuses both: the proof needs that the
deletion check reads every host of the vault, passphrases of keys included.

`WindowsUseTheRecordApi` shows, handler by handler, that the secure workspace reaches
the records by at most one such call per step, with arguments the API allows; both
record properties therefore hold under the windows too (`EditedRecordsStayWhole`).
`OpenEditorsFollowRecords` states `EditorsFollowRecords`. It is not inductive alone:
between a change made by another window and the watcher's refresh the drafts and lists
are stale. `EditorsInv` says that the window is in step with the records, or that the
queued snapshot is and will bring it in step; it also says more than the property, as
a draft's record must be a listed one, a tunnel draft is never open beside another,
and an authentication order stays within `MaxAuth`. The last conjunct found that the guard of
`SaveCredentialDraft` did not keep the bound for orders longer than one, which the
run's bounds cannot show; the guard is now `Waits`, the same condition as in
`AttachSaved`.

`VaultProofs` is about the records and the keys of a vault. For `VaultReplicas` it holds
for any devices, records, times and clocks, from `BoundsAssumption` (times, nonces and bounds are numbers; the creator is a device).
Lemmas first: `Precedes` is a total order on versions, and a merge keeps the newest.
`ReplicaClocksInOrder` and `ReplicaRecordsNeverRegress` are about behaviours without a
crash. Their invariant, `ReplicasInv`, says what covers a device's records during a
call, when the header's clock does not (the clock the call will end with), and that
what a delta starts from, an earlier one of the stream ended with: otherwise a device
might refuse it. `ReplicasAgreeWhenQuiet` holds whatever crashes and uses none of that:
`AgreementInv` says that a device holds every version of the deltas it applied or a
newer one, that it holds nothing that is neither in the stream nor still to be
exported, and the same of a delta, an edit or a snapshot half way. Two quiet devices
then hold, for each record, a version of the stream that all others precede.

For `VaultUnlock` it holds for any passphrases and device keys and any number of
crashes and failures (`KeysAssumption`, `FaultsAssumption`). `UnlockInv` says, for each
statement before which `create_vault`, `rotate` or `enroll` can stop, what database and
key store hold. `ConfirmedPassphraseOpens`: the bundle is that of the confirmed
passphrase or of one a rotation was asked for, up to the DELETE and from the INSERT on;
a rotation that stops between the two is `torn` for good, because no later one gets past
the missing bundle. `OfferedUnlockIsHonest`: between calls the key store and the row agree,
or a warning is stored, or the enrollment is `unnoticed`; a stored warning is taken back
only by a device unlock that worked or an enrollment that rewrote both.
`UninterruptedEnrollmentWorks` needs nothing of what came before.

`VaultRegistryProofs` holds for any vaults, names, hosts and keys (assumptions: `None`
and the legacy file are none of them, the default name is a name). Its theorems are the
four invariants of `vault_registry`. The heart of `RegistryInv` is that the vaults
*kept* by the config on disk, the config in memory or the controller, which drift apart
after a failing save, all have their file, share none, and are neither deleted nor
unused (`Filed`), and that the vault of a create or delete in progress is kept by none
of them (`InProgress`): a deletion therefore never takes a file somebody points at. The
index invariant is that both directions of the index agree, not only that the scope
side equals the records; without it removing a host leaves its references behind.

`TunnelRegistryProofs` holds for any ids, tasks and connections (`NoneAssumption`,
`MaxConnsAssumption`). A task acts on snapshot and handle by id, so a task of an earlier
start can touch those of a later one. `TunnelInv` therefore ties what is shown to those
who can still take it away: a tunnel shown as starting or running has a task that will
report its end or a call about to start one (`Backed`). The count of connections needs
that only finitely many were accepted (`Counted`) and that a task that was not started
has none.

`RemoteSessionsProofs` holds for any finite set of hosts and any number of attempts,
authentication methods and events (`HostsAssumption`, `BoundsAssumption`).
`SettleInv` adds to the tracker's consistency that an awaited attempt was started, not
cancelled and, while the window is open, not delivered (`Tracked`), that a listed
session comes from a delivered success that was not cancelled, and is listed once
(`Listed`), and where the SFTP entry is at each end of an attempt (`Stored`). So cancel
and delivery exclude each other, whichever comes first. For the browser, each handler
takes a sound one to a sound one: the entries are those of its path, and the row is one
of them.

`TerminalProofs` is about the two terminal modules. For `TerminalSession` it assumes that
the bounds are numbers (`BoundsAssumption`, `CapacityAssumption`, `TextAssumption`) and
the scroll commands integers (`ScrollAssumption`). `NothingIsLost` states
`SessionAccounted`; `SessionInv` adds types, places of the worker's loop and what is still
under way (`OutputInv`). A batch is applied by a function recursive in its length: what
it does to the offset and to the commands is proved by the least number of commands for
which it fails (`UpTo`), since `compact_scroll_command_burst` merges neighbours of a queue
of any length. The transcript's sum counts what the writer holds and what was lost with
it. `ExitWaitsForOutput` states `ExitAfterDrain`: the exit of a local shell is published by
the last refresh only (`ExitIsFinal`). When the exit is seen the channel holds `owed`
chunks; each chunk drained takes one off, what the reader adds comes behind them, and so
the drain that finds the channel empty has taken them all (`DrainInv`), whatever arrives
before the refresh. `owed` is a ghost: no guard reads it.

For `TerminalView` it assumes finitely many ids with a first session (`IdsAssumption`),
bounds that are numbers (`PaneBoundsAssumption`) and the screens of the module
(`ScreensAssumption`). `PaneInv` has two halves. Of the window alone (`WindowInv`): each
of the four flags is set exactly when one closure of its kind and epoch is queued
(`One`), and the gestures belong to the active session; each method of the window is a
lemma about any window, so a handler's lemma composes those of the methods it calls. Of
window and sessions: a surface row that is not the newest has a smaller revision
(`RowsInv`), a window with nothing scheduled has painted what it was told of (`Shown`),
and the session the user selected has the geometry last applied (`Told`).
`GesturesEndWhereTheyBegan` and `SettledWindowIsRight` follow. `RowsInv` is where the two
exceptions of `SettledIsCurrent` come from: without them it is not inductive.

`WorkspaceShellProofs` holds for any windows, labels, hints, chords, scenarios, lengths of
text and visible rows. Assumptions: labels and hints are sequences of characters
(`LabelsAssumption`), a text may hold the suggested name (`TextsAssumption`), a row is
visible (`SpanAssumption`), a vault is absent, locked or unlocked at the start
(`ScopesAssumption`). Three parts:

- *Algorithms.* `Retained`, `FuzzyScore`, `Rows` and `Ranked` work through a sequence as
  the loops of the code do. `Recursion` gives what a step of such a function is, and `UpTo`
  carries a claim from each prefix to the next. `FuzzyIs`: the greedy search finds a match exactly
  if the query is a subsequence, because the place it takes is never after that of any
  other match. `RankedIs`: sorting by counting those before an entry loses none.
  `RowsIs`, `PagesMove`: items keep their order among the headings, so a page down lands
  on a later item, or on the last one. `ApplyKeyIs`: every key leaves the caret inside the
  text it leaves.
- *One window.* `Workspaces` says what a window can be: the palette's caret is in its
  query, a closed dialog holds no text, only the create form has a second field. Each
  operator takes such a window to such a window (`ShowModalIs`, `TypeInModalIs`, ...).
- *The application.* `ShellInv` adds that whatever waits in a channel is the saved
  settings themselves, and that a window without a waiting vault snapshot shows the vault
  as it is. `publish_config_update` and `SetVault` keep that because they write to every
  open window's channel under one lock; a window opened later starts from a snapshot taken
  in the same handler that registers it.

`WindowsStayAgreed`, `DialogStaysSafe` and `PaletteStaysSound` follow, and
`LastCloseIsAsSaved` because the policy is always that of the saved settings
(`OnlyCloseShrinks`: nothing else takes a window away). `DialogSafe` needs the shape of the
form only: which handler opened the dialog does not matter, since every edit is preceded
by `sync_vault_modal_text_input`.

The inductive invariants were checked with TLC before they were proved, on the
instances of the runs and on larger ones (three devices, two crashes, three attempts).
That is how the condition of `StreamNeverOutOfOrder` was found, which needs three
devices to matter (section 5).

Only model-checked: liveness, which needs fairness and `ENABLED`: `EveryUploadAnswered`,
`ReplicasCatchUp`, `StoppedEnds`, `OutputShown`, `ClosedLocalEnds`, `AttemptsEnd`,
`OutputPainted`, `CheckingEnds`. Every other property of a passing run is proved.

## 5. Observed while modelling, without a run of their own

Synchronisation service

- `stream_seq` comes from a row the Worker read before it called the Durable Object,
  and the object's awaits let two appends run at once: one of them fails on the primary
  key with a 500 and has to be retried. docs/VAULT-SYNC-ARCHITECTURE.md:31 calls the
  object one that "serializes commit acceptance".
- A delta refused with 400 or 413 inside the Durable Object reaches the client as 500
  (`vault-authority.ts:46`, `index.ts:379`, `http.ts:56`), so it is retried for ever;
  docs/VAULT-SYNC-PROTOCOL.md:388-389 says "reject".
- PUT /snapshot records the snapshot at the head of the row, even if it was exported
  before (`index.ts:343`): a device that bootstraps from it never receives the commits
  in between. `CursorComplete` leaves such manifests out.
- Bootstrap cuts its tail at 200 commits and returns the head as cursor.
- An answer from the ledger carries the cursor of the row just read, not of the
  first answer.
- Two requests can consume one magic link (`db.ts:126`), two refreshes of one token
  both succeed and one client keeps a dead token (`db.ts:215`), and a vault can be
  left without its owner's membership (`db.ts:304`).

Vault

- A death or failure between the two statements of `insert_recovery_bundle`
  (`storage.rs:184`) leaves a vault without a recovery bundle: no passphrase opens it
  any more, only a device that is enrolled. `AckedPassphraseOpens` calls it `torn`.
- An enrollment that replaced the key store's key and then neither rewrote its row nor
  stored its warning leaves device unlock offered; trying it stores the warning
  (`lib.rs:1119`).
- `create_vault` that fails after the header row leaves a vault that can be neither
  created nor unlocked (`lib.rs:304`).
- After a crash between the records of a delta and its cursor (`lib.rs:553`), the next
  local edit gets a clock below that of the record it replaces.
- A crash after `bump_logical_clock` leaves a clock that no delta names. If a snapshot
  is exported then, a device that bootstraps from it uploads from that clock, and one
  that came from an older snapshot has to refuse the delta as out of order until it
  bootstraps again.
- A crash inside `apply_snapshot` leaves a header that makes the next attempt fail.
- "Settings reset to defaults." also empties the vault registry (`core/lib.rs:1087`).
- After a config that cannot be read, the first setting saved overwrites the
  registry in the file.
- A rename refused by the config leaves the new name in memory until restart.

Secure workspace

- Some commands drop unsaved edits without the discard dialog: adding a host, the
  new-host wizard, the palette's credential commands, a host's tunnel settings, and the
  primary button of the blocked-deletion dialog.
- The save key saves the hidden host draft when a credential editor opened from it is
  on screen.
- `pending_passphrase_auth_index` is not adjusted when authentication items move.
- A save between another window's deletion and the vault watcher re-creates the record
  under its old id, although the text says "Saving will create a new record."
- A batch import that fails midway stores the earlier keys without telling any window.

Terminal sessions

- Output read in the turn of a redundant resize stays unseen until something else is
  refreshed, because `continue` skips the refresh (`local.rs:368`).
- The second drain has no budget (`local.rs:421`): a shell that always has the next
  chunk ready keeps the worker from refreshing and from taking commands, although
  publish_budget.rs:2-4 has both backends refresh after each budget.
- Output that the reader delivers after the last drain, or that is still in the PTY when
  the child's exit is seen, may be missed.
- A shell that does not read its input holds the worker in `write_input_bytes`
  (`local.rs:541`): its output is no longer shown and closing the session does not end it.
- After a failing refresh the worker goes on as if the frame had been shown.
- A transcript writer that fails takes its queue with it, uncounted; the user is not told.
- An SSH worker whose handle is dropped stays connected until the remote closes; an
  EOF before the exit status loses the status; a failing resize ends the session.
- PageDown reports the bottom even when it is not reached.
- Events discarded after truncation are not counted as dropped; two sessions with one
  title that start in one second share a transcript directory (`session_logs.rs:83`).
- A turn that fills its limit exactly gets no truncation marker.

Terminal pane

- Restoring links adds one to a row's revision, which can equal the revision the
  worker publishes next; `set_error` publishes the revision of the row it replaces.
  Both leave an old row on screen until the next change.
- `close_session` hands over to another session without resizing it.
- Notifications of a session go to the first window that watched it only.
- A scrollbar drag is not ended by a switch of sessions.

Remote sessions and port forwards

- The SFTP prompts act on the row selected when they are confirmed, not on the entry
  they named (`sftp.rs:232`).
- A cancel that arrives after the task resolved drops a successful result: worker and
  SFTP session leak. So does closing the window, and closing a session keeps its SFTP
  entry (`manager.rs:284`).
- Closing the session of the open browser leaves the SFTP surface selected and empty.
- SFTP calls run on the UI thread under the controller's mutex: a server that hangs
  blocks every window.
- An invalid private key ends authentication instead of trying the next method.
- A tunnel restarted while its first task ends loses its snapshot to that task's
  clean-up; it stays stoppable but unseen ("The live runtime remains visible until it
  stops.", tunnels.rs:841).
- A stop is not seen while a tunnel connects or authenticates (`tunnel.rs:238`).
- Two broadcasts can be sent in the other order, leaving a window with an older
  tunnel list until the next change.

Windows

- Settings handlers write a whole section from the window's copy of the config; two
  windows can lose each other's change.
- The window count stays too high after a window failed to open.
- `cx.on_release` in `app.rs` is dropped at once, so the registry is cleaned by
  `retain_open_windows` only, and watchers of a closed window run for ever.
- A window that subscribes while a check's result is being sent may show "Checking"
  until the next publication; a check started during a download publishes over it; two
  installs can start.
- In the palette, Enter uses the unclamped index after the list has shrunk.

## 6. Not modelled

Layout, themes and painting, escape-sequence encoding, the Ghostty emulator, the
SSH protocol, cryptographic algorithms, serialization, logging and release tooling
are data conversion or external. The platform shells only bind to the desktop.
The single-instance hand-over depends on what the operating system does with lock and
socket. The accounts of the service are a plain sequence of statements per request;
their hazards are listed in section 5. `PROJECT.json` gives the reason for each part.

## 7. Plan

1. `SyncAccounts`: magic links, refresh rotation, vault creation and membership.
2. `SingleInstance`: lock, socket and the second start.
3. `WorkspaceShell` with mixed scopes, once the palette's data is smaller.
