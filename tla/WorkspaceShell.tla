--------------------------- MODULE WorkspaceShell ---------------------------
(***************************************************************************)
(* The application around the terminals: the windows and their registry,   *)
(* the settings they share, and what lies over a window's content (the     *)
(* command palette, the vault dialog, the confirmation dialog).            *)
(*                                                                         *)
(* Everything here runs on the interface's thread, one handler at a time,  *)
(* except the updater's threads (UpdateManager).  Settings, vault status   *)
(* and update states reach a window through a channel whose watcher drains *)
(* it and applies the newest value, so each channel is its newest value.   *)
(* The watchers of a closed window run on but change nothing any more.     *)
(*                                                                         *)
(* One vault stands for all: none, locked or unlocked.  Its name, sessions *)
(* and records, and the texts of messages, are left out.                   *)
(***************************************************************************)
EXTENDS Integers, UpdateManager, TextEdit, SequencesExt, FiniteSets

CONSTANTS Chars,      \* the characters that can be typed
          MaxText,    \* the longest text
          Label,      \* per palette entry, its label as a sequence of Chars
          Hint,       \* per palette entry, its hint
          Span,       \* the rows of the palette that are visible at once
          Chord,      \* per command, its built-in chord
          Override,   \* per command, the chord in the file, "none" or "off"
          Custom,     \* the further <<chord, command>> pairs in the file
          Scopes      \* the scenarios that are explored, see scope

VARIABLES open,       \* the open windows
          ordered,    \* WorkspaceWindowRegistry.ordered, newest first
          count,      \* WindowRegistry.open_windows of the controller
          failed,     \* ghost: how many windows failed to open
          app,        \* "shown", "hidden" or "quit"
          quitting,   \* quit_requested
          joining,    \* the window being set up, and its first action
          store,      \* the saved settings
          policy,     \* AppController.lifecycle_policy
          cq,         \* per window, the newest settings in its channel
          keymap,     \* the key bindings that are installed
          kq,         \* the newest settings in the key bindings' channel
          vault,      \* the vault: "none", "locked" or "unlocked"
          vq,         \* per window, whether its vault channel holds a snapshot
          win,        \* per window, its SeanceWorkspace
          events,     \* how many user events there have been
          scope       \* the scenario: how many windows are opened, and how many
                      \* events of which kind the user causes

avars == <<open, ordered, count, failed, app, quitting, joining>>
cvars == <<store, policy, cq, keymap, kq>>
vvars == <<vault, vq>>
vars == <<avars, cvars, vvars, win, events, scope, uvars>>

(* A suggested name is one character, and a text holds at least that.       *)
ASSUME TextsAssumption == "a" \in Chars /\ MaxText \in Nat \ {0}
ASSUME SpanAssumption == Span \in Nat \ {0}

(* A behaviour starts from a vault that is there or not, locked or unlocked. *)
VaultStates == {"none", "locked", "unlocked"}
ASSUME ScopesAssumption == \A s \in Scopes : s.vaults \subseteq VaultStates

(* The entries of the palette have a label and a hint. *)
Entries == {"new", "unlock", "lock", "panel", "theme", "prefs", "check", "install"}
ASSUME LabelsAssumption ==
    \A a \in Entries : {Label[a], Hint[a]} \subseteq Seq(Chars \cup {" "})

-----------------------------------------------------------------------------
(* Settings                                                                *)

Commands == DOMAIN Chord
Themes == {"t1", "t2"}
Config == [keep : BOOLEAN, hide : BOOLEAN, auto : BOOLEAN, theme : Themes,
           binds : {"file", "builtin"}]
DefaultConfig == [keep |-> TRUE, hide |-> TRUE, auto |-> TRUE, theme |-> "t1",
                  binds |-> "builtin"]
FileConfig == [DefaultConfig EXCEPT !.binds = "file"]
NoConfig == [DefaultConfig EXCEPT !.binds = "none"]

(* LifecyclePolicy::from: what closing the last window does. *)
PolicyOf(c) == IF c.keep /\ c.hide THEN "hidden" ELSE "quit"

(* resolve_effective_keymap: an override's chord, no chord for a command    *)
(* that is off, the built-in chord otherwise, and the custom pairs.         *)
EffectiveKeymap(c) ==
    LET Over(m) == IF c.binds = "file" THEN Override[m] ELSE "none"
        Bound == {m \in Commands : Over(m) # "off"}
    IN {<<IF Over(m) = "none" THEN Chord[m] ELSE Over(m), m>> : m \in Bound}
         \cup (IF c.binds = "file" THEN Custom ELSE {})

(* publish_config_update: the settings go to every window's channel and to  *)
(* the key bindings' channel, under the controller's lock.                  *)
PublishConfig(c) ==
    /\ cq' = [w \in Windows |-> IF w \in open THEN c ELSE cq[w]]
    /\ kq' = c

(* Mutant: the lifecycle is left as it was at the start. *)
UpdateKeepsPolicy(c) ==
    \/ /\ store' = c
       /\ PublishConfig(c)
       /\ UNCHANGED <<policy, keymap>>
    \/ UNCHANGED cvars

(* update_config: the settings are validated and written, and only then     *)
(* stored, applied to the lifecycle and published; a failed write leaves    *)
(* everything as it was and the panel shows the error.                      *)
UpdateConfig(c) ==
    \/ /\ store' = c
       /\ policy' = PolicyOf(c)
       /\ PublishConfig(c)
       /\ UNCHANGED keymap
    \/ UNCHANGED cvars

(* reset_config_to_defaults. *)
ResetConfig ==
    \/ /\ store' = DefaultConfig
       /\ policy' = PolicyOf(DefaultConfig)
       /\ PublishConfig(DefaultConfig)
       /\ UNCHANGED keymap
    \/ UNCHANGED cvars

-----------------------------------------------------------------------------
(* The command palette                                                     *)

ClosedPalette == [open |-> FALSE, query |-> <<>>, sel |-> 0, ed |-> Caret(0)]

(* toggle_palette. *)
Toggled(p) == IF p.open THEN ClosedPalette ELSE [ClosedPalette EXCEPT !.open = TRUE]

(* close_palette. *)
Closed(p) == ClosedPalette

(* The groups of the entries, in the order of build_items. *)
Group(a) ==
    CASE a = "new" -> "sessions"
      [] a \in {"lock", "unlock", "panel"} -> "vault"
      [] a = "theme" -> "appearance"
      [] a \in {"prefs", "check", "install"} -> "system"

(* build_items without a query: the vault's entries follow its lock, and   *)
(* an update can be installed only when the window knows of one.           *)
AllItems(r) ==
    <<"new">> \o (IF r.seen = "unlocked" THEN <<"panel", "lock">> ELSE <<"unlock">>)
      \o <<"theme", "prefs", "check">>
      \o (IF r.upd = "available" THEN <<"install">> ELSE <<>>)

(* The next place of character c in text t after place i, or 0. *)
NextPlace(t, i, c) ==
    LET S == {k \in (i + 1)..Len(t) : t[k] = c}
    IN IF S = {} THEN 0 ELSE CHOOSE k \in S : \A n \in S : k <= n

(* The loop of fuzzy_score: a character of the query takes the first place  *)
(* left in the text.  A run of neighbours, the start of a word and the      *)
(* start of the text score more.  A character without a place ends the      *)
(* match.                                                                   *)
Matched(t, s, c) ==
    LET k == NextPlace(t, s.at, c)
        run == IF s.at > 0 /\ k = s.at + 1 THEN s.run + 1 ELSE 0
    IN IF ~s.ok \/ k = 0 THEN [s EXCEPT !.ok = FALSE]
       ELSE [ok |-> TRUE, at |-> k, run |-> run,
             score |-> s.score + 1 + (IF run > 0 THEN 4 + run ELSE 1)
                         + (IF k = 1 \/ t[High(k - 1, 1)] = " " THEN 6 ELSE 0)
                         + (IF k = 1 THEN 8 ELSE 0)]

(* fuzzy_score, with where and how its match ends. *)
FuzzyScore(t, query) ==
    LET s[n \in 0..Len(query)] ==
            IF n = 0 THEN [ok |-> TRUE, at |-> 0, run |-> 0, score |-> 0]
            ELSE Matched(t, s[n - 1], query[n])
    IN s[Len(query)]

(* Mutant: a match may not skip a character. *)
ScoreOfPrefix(a, query) ==
    LET t == Label[a]
    IN IF Len(query) <= Len(t) /\ SubSeq(t, 1, Len(query)) = query THEN 10 ELSE -1

(* An entry's score: its label's and 10, or its hint's, or -1 for neither. *)
Score(a, query) ==
    LET Best(l, h) == IF l.ok THEN l.score + 10 ELSE IF h.ok THEN h.score ELSE -1
    IN Best(FuzzyScore(Label[a], query), FuzzyScore(Hint[a], query))

(* The entries that match, best first, and in their own order where they   *)
(* score the same.                                                         *)
Ranked(all, score) ==
    LET hits == {i \in 1..Len(all) : score[i] >= 0}
        Before(i, k) == score[i] > score[k] \/ (score[i] = score[k] /\ i < k)
        Place(i) == Cardinality({k \in hits : Before(k, i)}) + 1
    IN [n \in 1..Cardinality(hits) |-> all[CHOOSE i \in hits : Place(i) = n]]

(* build_items. *)
Items(r) ==
    LET q == r.palette.query
        Listed(all) == IF q = <<>> THEN all
                       ELSE Ranked(all, [i \in 1..Len(all) |-> Score(all[i], q)])
    IN Listed(AllItems(r))

(* flatten_items: the rows, an item's number (from 0) or -1 for a group's   *)
(* heading; headings are shown only without a query.                        *)
Headed(r, items, n) ==
    /\ r.palette.query = <<>>
    /\ n = 1 \/ Group(items[n]) # Group(items[High(n - 1, 1)])
Rows(r, items) ==
    LET rows[n \in 0..Len(items)] ==
            IF n = 0 THEN <<>>
            ELSE rows[n - 1] \o (IF Headed(r, items, n) THEN <<-1, n - 1>> ELSE <<n - 1>>)
    IN rows[Len(items)]

ItemsAtOrAfter(rows, k) == {rows[n] : n \in {i \in High(k, 1)..Len(rows) : rows[i] >= 0}}
ItemsAtOrBefore(rows, k) == {rows[n] : n \in {i \in 1..Low(k, Len(rows)) : rows[i] >= 0}}
Lowest(S) == CHOOSE x \in S : \A y \in S : x <= y
Highest(S) == CHOOSE x \in S : \A y \in S : y <= x

(* page_target_index down: Span rows on, to the item there or after it. *)
PageDown(rows, cur) ==
    LET row == CHOOSE i \in 1..Len(rows) : rows[i] = cur
        S == ItemsAtOrAfter(rows, Low(row + Span, Len(rows)))
    IN IF S # {} THEN Lowest(S) ELSE Highest(ItemsAtOrBefore(rows, Len(rows)))

(* page_target_index up: Span rows back, to the item there or before it. *)
PageUp(rows, cur) ==
    LET row == CHOOSE i \in 1..Len(rows) : rows[i] = cur
        S == ItemsAtOrBefore(rows, IF row > Span THEN row - Span ELSE 1)
    IN IF S # {} THEN Highest(S) ELSE Lowest(ItemsAtOrAfter(rows, 1))

(* set_palette_selection. *)
Select(r, items, n) ==
    [r EXCEPT !.palette.sel = IF items = <<>> THEN 0 ELSE Low(n, Len(items) - 1)]

(* move_palette_by_page. *)
Paged(r, items, up) ==
    IF items = <<>> THEN [r EXCEPT !.palette.sel = 0]
    ELSE LET cur == Low(r.palette.sel, Len(items) - 1)
         IN Select(r, items, IF up THEN PageUp(Rows(r, items), cur) ELSE PageDown(Rows(r, items), cur))

-----------------------------------------------------------------------------
(* The vault dialog (VaultModalState)                                      *)

Texts == UNION {[1..n -> Chars] : n \in 0..MaxText}
Fields == 0..2
NoField == 3

ClosedModal == [open |-> FALSE, mode |-> "unlock", setup |-> FALSE, target |-> FALSE,
                method |-> "passphrase", text |-> [f \in Fields |-> <<>>],
                sel |-> 0, error |-> "none", busy |-> FALSE, reveal |-> FALSE]

(* VaultModalState::new, for a window that opens: setup cannot be closed. *)
NewModal(v) ==
    [ClosedModal EXCEPT !.open = v # "unlocked",
                        !.mode = IF v = "none" THEN "create" ELSE "unlock",
                        !.setup = v = "none"]

(* VaultModalState::open. *)
OpenedModal(m, mode) == [ClosedModal EXCEPT !.open = TRUE, !.mode = mode]

(* VaultModalState::close: what was typed is wiped.  The method, the mode   *)
(* and whether secrets are shown stay until the next open.                  *)
CloseModal(m) ==
    [m EXCEPT !.open = FALSE, !.busy = FALSE, !.error = "none", !.target = FALSE,
              !.text = [f \in Fields |-> <<>>], !.sel = 0]

(* The text a field shows and edits: the unlock passphrase, the create      *)
(* form's name, passphrase and confirmation, the new name.  The passphrase  *)
(* is one variable, which is the first field of unlock and the second of    *)
(* create; slots name the variables.                                        *)
Slot(m, f) == IF m.mode = "unlock" THEN 1 ELSE f

(* passphrase_field_count. *)
FieldCount(m) ==
    CASE m.mode = "create" -> 3
      [] m.mode = "rename" -> 1
      [] m.mode = "unlock" -> IF m.method = "device" THEN 0 ELSE 1

Blank(t) == \A i \in 1..Len(t) : t[i] = " "

(* The form is filled in: what can_submit asks of the fields. *)
Complete(m) ==
    CASE m.mode = "create" -> /\ ~Blank(m.text[0]) /\ ~Blank(m.text[1])
                              /\ m.text[1] = m.text[2]
                              /\ m.method = "passphrase"
      [] m.mode = "rename" -> ~Blank(m.text[0])
      [] m.mode = "unlock" -> m.method = "device" \/ ~Blank(m.text[1])

CanSubmit(m) == ~m.busy /\ Complete(m)

(* focus_vault_modal_field. *)
FocusField(r, f) ==
    [r EXCEPT !.modal.sel = f, !.field = f,
              !.ed = WithText(r.modal.text[Slot(r.modal, f)])]

(* Mutant: a field that once had the caret keeps it. *)
SyncKeepsField(r) ==
    LET n == FieldCount(r.modal)
        f == Low(r.modal.sel, n - 1)
    IN CASE n = 0 -> [r EXCEPT !.field = NoField, !.ed = Caret(0)]
         [] n > 0 /\ r.field # NoField ->
              [r EXCEPT !.ed = Sync(r.ed, r.modal.text[Slot(r.modal, r.field)])]
         [] OTHER -> FocusField(r, f)

(* sync_vault_modal_text_input: the caret belongs to the selected field; a  *)
(* caret of the same field is only pulled back into its text.               *)
SyncField(r) ==
    LET n == FieldCount(r.modal)
        f == Low(r.modal.sel, n - 1)
        t == r.modal.text[Slot(r.modal, f)]
    IN CASE n = 0 -> [r EXCEPT !.field = NoField, !.ed = Caret(0)]
         [] n > 0 /\ r.field = f -> [r EXCEPT !.ed = Sync(r.ed, t)]
         [] OTHER -> FocusField(r, f)

(* open_vault_modal(_for): a suggested or current name, and device unlock  *)
(* where it is available.                                                  *)
ShowModal(r, mode, target, device) ==
    SyncField([r EXCEPT !.modal =
        [OpenedModal(@, mode) EXCEPT
            !.target = target,
            !.text[0] = IF mode = "unlock" THEN <<>> ELSE <<"a">>,
            !.method = IF mode = "unlock" /\ device THEN "device" ELSE "passphrase"]])

-----------------------------------------------------------------------------
(* Windows                                                                 *)

FreshWindow == [cfg |-> DefaultConfig, seen |-> "none", upd |-> "idle",
                surface |-> "terminal", palette |-> ClosedPalette, modal |-> ClosedModal,
                field |-> NoField, ed |-> Caret(0), dialog |-> FALSE]

(* prepare_window's snapshot and the workspace built from it. *)
OpenedWindow ==
    [FreshWindow EXCEPT !.cfg = store, !.seen = vault, !.upd = ustate, !.modal = NewModal(vault)]

NoWindow == [w |-> 0, action |-> "none"]

(* The interface's thread is between two handlers. *)
UiIdle == joining = NoWindow /\ pend[UiThread] = Nothing /\ app # "quit"

(* A user's event: handled whole, when the interface's thread is free.      *)
(* kinds are the scenarios it is part of.                                   *)
Event(kinds) ==
    /\ UiIdle /\ scope.kind \in kinds
    /\ events < scope.events /\ events' = events + 1
    /\ UNCHANGED scope

(* Vec::retain: the windows of s that are in S. *)
Retained(s, S) ==
    LET kept[n \in 0..Len(s)] ==
            IF n = 0 THEN <<>>
            ELSE IF s[n] \in S THEN Append(kept[n - 1], s[n]) ELSE kept[n - 1]
    IN kept[Len(s)]

(* promote_unique: to the front, once.  A window has one place at most, so  *)
(* remove_item, which takes the first, leaves none.                         *)
Promoted(s, w) == <<w>> \o Retained(s, Windows \ {w})

(* Mutant: the other windows are not told. *)
SetVaultQuietly(v) == vault' = v /\ vq' = vq

(* A change of the vault, published to every window under the controller's  *)
(* lock; window w, which made it, also reads it back at once.               *)
SetVault(v) ==
    /\ vault' = v
    /\ vq' = [w \in Windows |-> vq[w] \/ (w \in open /\ v # vault)]

(* lock_vault locks what the window believes to be unlocked. *)
LockedVault(r) == IF r.seen = "unlocked" /\ vault = "unlocked" THEN "locked" ELSE vault

(* What a command does to its window. *)
LocalEffect(c, r, device) ==
    CASE c = "palette" -> [r EXCEPT !.palette = Toggled(@)]
      [] c = "prefs" -> [r EXCEPT !.surface = "settings", !.palette = Closed(@)]
      [] c = "panel" -> [r EXCEPT !.surface = "secure"]
      [] c = "check" -> [r EXCEPT !.upd = "checking"]
      [] c = "unlock" -> ShowModal(r, "unlock", FALSE, device)
      [] c = "lock" -> [r EXCEPT !.seen = LockedVault(r), !.dialog = FALSE,
                                 !.surface = "terminal",
                                 !.modal = OpenedModal(@, "unlock"),
                                 !.palette = Closed(@)]
      [] OTHER -> r

(* What it does to the rest: the updater, the settings, the vault. *)
GlobalEffect(c, w) ==
    CASE c = "check" -> scope.kind = "updates" /\ StartJob("check") /\ UNCHANGED <<cvars, vvars>>
      [] c = "install" -> scope.kind = "updates" /\ InstallUpdate /\ UNCHANGED <<cvars, vvars>>
      [] c = "theme" -> /\ \E t \in Themes : UpdateConfig([store EXCEPT !.theme = t])
                        /\ UNCHANGED <<uvars, vvars>>
      [] c = "lock" -> SetVault(LockedVault(win[w])) /\ UNCHANGED <<uvars, cvars>>
      [] OTHER -> UNCHANGED <<uvars, cvars, vvars>>

(* The commands of the menus and of the key bindings, and the scenarios     *)
(* that use them.                                                           *)
MenuCommands == {"palette", "prefs", "check", "theme"}
Kinds(c) == CASE c = "palette" -> {"typing"}
              [] c = "prefs" -> {"typing", "settings", "updates"}
              [] c = "check" -> {"updates"}
              [] c = "theme" -> {"settings"}

(* InitialWorkspaceAction: the commands that open a window if there is none. *)
FirstActions == {"none"} \cup {c \in {"palette", "prefs", "check"} : scope.kind \in Kinds(c)}

(* open_workspace_window: the window is counted, created, registered and    *)
(* given its snapshots; it is not among the updater's subscribers yet.  The *)
(* snapshots that the channels start with are the same and are left out.    *)
(* The first action is only given to a window opened for want of one.       *)
OpenWindow(w, action) ==
    /\ UiIdle /\ w <= scope.windows
    /\ events' = (IF w = 1 THEN events ELSE events + 1) /\ events' <= scope.events
    /\ action = "none" \/ open = {}
    /\ w \notin open /\ win[w] = FreshWindow /\ \A x \in Windows : x < w => win[x] # FreshWindow
    /\ count' = count + 1
    /\ open' = open \cup {w}
    /\ ordered' = Promoted(ordered, w)
    /\ joining' = [w |-> w, action |-> action]
    /\ app' = "shown"
    /\ win' = [win EXCEPT ![w] = OpenedWindow]
    /\ UNCHANGED <<failed, quitting, vvars, cvars, scope, uvars>>

(* The platform refuses the window after the controller has counted it. *)
OpenFails ==
    /\ Event({"settings"})
    /\ count' = count + 1 /\ failed' = failed + 1
    /\ UNCHANGED <<open, ordered, app, quitting, joining, cvars, vvars, win, uvars>>

(* install_workspace_watchers ends and apply_initial_action runs. *)
JoinWindow ==
    /\ joining # NoWindow
    /\ subs' = subs \cup {joining.w}
    /\ joining' = NoWindow
    /\ win' = [win EXCEPT ![joining.w] = LocalEffect(joining.action, @, FALSE)]
    /\ \/ joining.action # "check" /\ UNCHANGED jobs
       \/ joining.action = "check" /\ \E j \in FreeJobs :
              jobs' = [jobs EXCEPT ![j] = [kind |-> "check", step |-> 0]]
    /\ UNCHANGED <<open, ordered, count, failed, app, quitting, cvars, vvars, events, scope,
                   ustate, pend, uq, missed>>

(* on_window_closed: the last window hides or ends the application, as the  *)
(* lifecycle policy says, unless it is being quit anyway.                   *)
CloseWindow(w) ==
    /\ Event({"settings", "updates"}) /\ w \in open
    /\ open' = open \ {w}
    /\ count' = IF count = 0 THEN 0 ELSE count - 1
    /\ ordered' = Retained(ordered, open')
    /\ app' = IF open' = {} /\ ~quitting THEN policy ELSE app
    /\ win' = [win EXCEPT ![w] = [FreshWindow EXCEPT !.surface = "closed"]]
    /\ cq' = [cq EXCEPT ![w] = NoConfig]
    /\ vq' = [vq EXCEPT ![w] = FALSE]
    /\ uq' = [uq EXCEPT ![w] = Nothing]
    /\ subs' = subs \ {w} /\ missed' = missed \ {w}
    /\ UNCHANGED <<failed, quitting, joining, store, policy, keymap, kq, vault,
                   ustate, pend, jobs>>

(* A command from the platform: show, hide or quit.  cx.quit ends the       *)
(* application once the handler has returned.                               *)
AppCommand ==
    /\ Event({"settings"})
    /\ \/ app' = "shown" /\ quitting' = quitting
       \/ app' = "hidden" /\ quitting' = quitting
       \/ quitting' = TRUE /\ app' = app
    /\ UNCHANGED <<open, ordered, count, failed, joining, cvars, vvars, win, uvars>>

Quit ==
    /\ quitting /\ UiIdle /\ app' = "quit"
    /\ UNCHANGED <<open, ordered, count, failed, quitting, joining, cvars, vvars, win, events, scope, uvars>>

(* An action of the menus or of a key binding: in window w, which moves to  *)
(* the front of the registry when the application dispatches it.            *)
WindowCommand(w, c) ==
    /\ Event(Kinds(c)) /\ w \in open
    /\ ordered' \in {ordered, Promoted(ordered, w)}
    /\ win' = [win EXCEPT ![w] = LocalEffect(c, @, FALSE)]
    /\ GlobalEffect(c, w)
    /\ UNCHANGED <<open, count, failed, app, quitting, joining>>

(* A change of window w alone. *)
Local(w, r) == win' = [win EXCEPT ![w] = r] /\ UNCHANGED <<avars, cvars, vvars, uvars>>

-----------------------------------------------------------------------------
(* The watchers                                                            *)

(* schedule_config_watcher with apply_config_snapshot. *)
ApplyConfig(w) ==
    /\ UiIdle /\ cq[w] # NoConfig
    /\ win' = [win EXCEPT ![w].cfg = cq[w]]
    /\ cq' = [cq EXCEPT ![w] = NoConfig]
    /\ UNCHANGED <<avars, store, policy, keymap, kq, vvars, events, scope, uvars>>

(* schedule_app_keybinding_watcher: all bindings are cleared and rebuilt. *)
ApplyKeymap ==
    /\ UiIdle /\ kq # NoConfig
    /\ keymap' = EffectiveKeymap(kq)
    /\ kq' = NoConfig
    /\ UNCHANGED <<avars, store, policy, cq, vvars, win, events, scope, uvars>>

(* schedule_vault_watcher: the newest snapshot is of the vault as it is. *)
ApplyVault(w) ==
    /\ UiIdle /\ vq[w]
    /\ win' = [win EXCEPT ![w].seen = vault]
    /\ vq' = [vq EXCEPT ![w] = FALSE]
    /\ UNCHANGED <<avars, cvars, vault, events, scope, uvars>>

(* schedule_update_watcher with apply_update_state_snapshot. *)
ApplyUpdate(w) ==
    /\ UiIdle /\ uq[w] # Nothing
    /\ win' = [win EXCEPT ![w].upd = uq[w]]
    /\ uq' = [uq EXCEPT ![w] = Nothing]
    /\ UNCHANGED <<avars, cvars, vvars, events, scope, ustate, pend, jobs, subs, missed>>

SendUpdate(t) ==
    /\ Send(t, {w \in Windows : joining.w = w /\ win[w].upd # pend[t]})
    /\ UNCHANGED <<avars, cvars, vvars, win, events, scope>>

CheckThread(j) == CheckStep(j) /\ UNCHANGED <<avars, cvars, vvars, win, events, scope>>

InstallThread(j) == InstallStep(j) /\ UNCHANGED <<avars, cvars, vvars, win, events, scope>>

-----------------------------------------------------------------------------
(* Keys                                                                    *)

(* handle_key_down: who gets a key. *)
KeyTarget(r) ==
    CASE r.dialog -> "dialog"
      [] ~r.dialog /\ r.modal.open -> "modal"
      [] ~r.dialog /\ ~r.modal.open /\ r.palette.open -> "palette"
      [] OTHER -> r.surface

(* The layers that Render draws over the surface, with their priorities. *)
Layers(r) ==
    {<<1, "palette">> : x \in {y \in {1} : r.palette.open}}
      \cup {<<3, "modal">> : x \in {y \in {1} : r.modal.open}}
      \cup {<<5, "dialog">> : x \in {y \in {1} : r.dialog}}

(* execute_palette_action: the command, and the palette closes. *)
Execute(w, c, device) ==
    /\ LET r == LocalEffect(c, win[w], device)
       IN win' = [win EXCEPT ![w] = [r EXCEPT !.palette = Closed(@)]]
    /\ GlobalEffect(c, w)
    /\ UNCHANGED avars

(* handle_palette_key without the text: escape, the arrows, home and end,   *)
(* the page keys, and enter, which does nothing past the end of the list.   *)
PaletteMove(w, r, items) ==
    \/ Local(w, [r EXCEPT !.palette = Closed(@)])
    \/ \E n \in {0, r.palette.sel + 1, High(r.palette.sel - 1, 0)} : Local(w, Select(r, items, n))
    \/ items # <<>> /\ Local(w, Select(r, items, Len(items) - 1))
    \/ \E up \in BOOLEAN : Local(w, Paged(r, items, up))
    \/ /\ r.palette.sel < Len(items)
       /\ \E d \in BOOLEAN : Execute(w, items[r.palette.sel + 1], d)

(* handle_palette_text_input: the edited query, and the first item selected *)
(* again if the key could change the query.                                 *)
PaletteType(r, k, out) ==
    [r EXCEPT !.palette.ed = out.ed, !.palette.query = out.text,
              !.palette.sel = IF k \in MutatingKeys THEN 0 ELSE @]

(* handle_palette_key. *)
PaletteKey(w) ==
    /\ Event({"typing"}) /\ w \in open /\ KeyTarget(win[w]) = "palette"
    /\ \/ PaletteMove(w, win[w], Items(win[w]))
       \/ \E k \in EditKeys \ {"home", "end"}, shift \in BOOLEAN, c \in Chars :
             LET next == PaletteType(win[w], k, ApplyKey(k, shift, win[w].palette.ed,
                                                         win[w].palette.query, <<c>>))
             IN Len(next.palette.query) <= MaxText /\ Local(w, next)

(* The click on an entry of the palette. *)
PaletteClick(w) ==
    /\ Event({"typing"}) /\ w \in open /\ win[w].palette.open
    /\ \E a \in ToSet(Items(win[w])), d \in BOOLEAN : Execute(w, a, d)

(* confirm_delete_vault's dialog: enter deletes the vault, escape does not. *)
DialogKey(w) ==
    /\ Event({"typing", "settings"}) /\ w \in open /\ KeyTarget(win[w]) = "dialog"
    /\ \/ Local(w, [win[w] EXCEPT !.dialog = FALSE])
       \/ /\ SetVault("none")
          /\ win' = [win EXCEPT ![w].dialog = FALSE, ![w].seen = "none"]
          /\ UNCHANGED <<avars, cvars, uvars>>

(* Escape leaves the settings. *)
SettingsKey(w) ==
    /\ Event({"typing"}) /\ w \in open /\ KeyTarget(win[w]) = "settings"
    /\ Local(w, [win[w] EXCEPT !.surface = "terminal"])

-----------------------------------------------------------------------------
(* The vault dialog's operations                                           *)

(* handle_vault_modal_text_input: the field with the caret after a sync. *)
TypeInModal(r, k, shift, c) ==
    LET s == SyncField(r)
        slot == Slot(s.modal, s.field)
        out == ApplyKey(k, shift, s.ed, s.modal.text[slot], <<c>>)
    IN IF s.field = NoField THEN s
       ELSE [s EXCEPT !.ed = out.ed, !.modal.text[slot] = out.text]

(* submit_vault_modal takes the vault it was opened for, or the first one   *)
(* that the window believes to be locked.                                   *)
HasTarget(r) == r.modal.target \/ r.seen = "locked"

(* The dialog while it is being submitted: busy before anything is read. *)
Submitting(m) == [m EXCEPT !.error = "none", !.busy = TRUE]

(* submit_vault_modal.  ok is what the vault's own operation answers.       *)
SubmitModal(w, ok) ==
    LET r == win[w]
        m == Submitting(r.modal)
        Fail(e) == Local(w, [r EXCEPT !.modal = [m EXCEPT !.error = e, !.busy = FALSE]])
        Succeed(v) == /\ win' = [win EXCEPT ![w] = [r EXCEPT !.modal = CloseModal(@), !.seen = v]]
                      /\ SetVault(v)
                      /\ UNCHANGED <<avars, cvars, uvars>>
        Passphrase == Local(w, [r EXCEPT !.modal =
                          [m EXCEPT !.error = "device", !.busy = FALSE, !.method = "passphrase"]])
    IN CASE m.mode = "create" /\ ~CanSubmit(m) -> Fail("incomplete")
         [] m.mode = "create" /\ CanSubmit(m) -> IF ok THEN Succeed("unlocked") ELSE Fail("vault")
         [] m.mode = "rename" /\ ~HasTarget(r) -> Fail("target")
         [] m.mode = "rename" /\ HasTarget(r) /\ Blank(m.text[0]) -> Fail("incomplete")
         [] m.mode = "rename" /\ HasTarget(r) /\ ~Blank(m.text[0]) ->
              IF ok /\ vault # "none" THEN Succeed(vault) ELSE Fail("vault")
         [] m.mode = "unlock" /\ m.method = "passphrase" /\ ~CanSubmit(m) -> Fail("incomplete")
         [] m.mode = "unlock" /\ (m.method = "device" \/ CanSubmit(m)) /\ ~HasTarget(r) -> Fail("target")
         [] m.mode = "unlock" /\ m.method = "device" /\ HasTarget(r) ->
              IF ok /\ vault # "none" THEN Succeed("unlocked") ELSE Passphrase
         [] OTHER -> IF ok /\ vault # "none" THEN Succeed("unlocked") ELSE Fail("vault")

(* handle_vault_modal_key: tab and the arrows, enter, escape, and text. *)
ModalKey(w) ==
    LET r == win[w]
        n == FieldCount(r.modal)
    IN
    /\ Event({"typing"}) /\ w \in open /\ KeyTarget(r) = "modal"
    /\ \/ n > 0 /\ \E d \in {1, n - 1} : Local(w, FocusField(r, (r.modal.sel + d) % n))
       \/ \E ok \in BOOLEAN : SubmitModal(w, ok)
       \/ ~r.modal.setup /\ Local(w, [r EXCEPT !.modal = CloseModal(@)])
       \/ \E k \in EditKeys, shift \in BOOLEAN, c \in Chars :
             LET next == TypeInModal(r, k, shift, c)
             IN (\A f \in Fields : Len(next.modal.text[f]) <= MaxText) /\ Local(w, next)

(* The dialog's fields and buttons (render_vault_modal). *)
ModalClick(w) ==
    LET r == win[w]
    IN
    /\ Event({"typing"}) /\ w \in open /\ r.modal.open
    /\ \/ \E f \in 0..(FieldCount(r.modal) - 1) : Local(w, FocusField(r, f))
       \/ r.modal.mode = "unlock" /\ Local(w, FocusField([r EXCEPT !.modal.method = "passphrase"], 0))
       \/ r.modal.mode = "unlock" /\ Local(w, SyncField([r EXCEPT !.modal.method = "device"]))
       \/ r.modal.mode # "rename" /\ Local(w, [r EXCEPT !.modal.reveal = ~@])
       \/ ~r.modal.setup /\ Local(w, [r EXCEPT !.modal = CloseModal(@)])
       \/ \E ok \in BOOLEAN : SubmitModal(w, ok)

(* The vault list of the sidebar: lock, unlock, rename, delete, new. *)
VaultListClick(w) ==
    LET r == win[w]
    IN
    /\ Event({"typing", "settings"}) /\ w \in open
    /\ \/ /\ r.seen = "unlocked"
          /\ SetVault(LockedVault(r))
          /\ win' = [win EXCEPT ![w].seen = LockedVault(r)]
          /\ UNCHANGED <<avars, cvars, uvars>>
       \/ \E device \in BOOLEAN : r.seen = "locked" /\ Local(w, ShowModal(r, "unlock", TRUE, device))
       \/ r.seen # "none" /\ Local(w, ShowModal(r, "rename", TRUE, FALSE))
       \/ r.seen = "locked" /\ Local(w, [r EXCEPT !.dialog = TRUE])
       \/ Local(w, ShowModal(r, "create", FALSE, FALSE))

-----------------------------------------------------------------------------
(* The settings panel                                                      *)

(* A toggle of the window section writes the whole section as the window    *)
(* last saw it, with one field changed.                                     *)
WindowSettings(c) ==
    {[store EXCEPT !.keep = ~c.keep, !.hide = c.hide],
     [store EXCEPT !.keep = c.keep, !.hide = ~c.hide]}

(* The cards of the settings panel: window section, automatic checks, theme *)
(* and reset, and the way back to the terminal.  A theme and the automatic  *)
(* checks are single fields; the terminal section is like the window's.     *)
SettingsClick(w) ==
    LET r == win[w]
        Saved == WindowSettings(r.cfg) \cup {[store EXCEPT !.auto = ~r.cfg.auto]}
                   \cup {[store EXCEPT !.theme = t] : t \in Themes}
    IN
    /\ Event({"settings"}) /\ w \in open /\ r.surface = "settings"
    /\ \/ (\E c \in Saved : UpdateConfig(c)) /\ UNCHANGED <<avars, vvars, win, uvars>>
       \/ ResetConfig /\ UNCHANGED <<avars, vvars, win, uvars>>
       \/ Local(w, [r EXCEPT !.surface = "terminal"])

(* The updater's buttons: in the settings, and in the terminal's banner. *)
UpdateButtons(r) ==
    {b \in {"check", "install", "dismiss"} :
        CASE b = "check" -> r.surface = "settings"
          [] b = "install" -> r.surface \in {"settings", "terminal"} /\ r.upd = "available"
          [] b = "dismiss" -> \/ r.surface = "settings" /\ r.upd # "idle"
                              \/ r.surface = "terminal" /\ r.upd \in {"available", "failed"}}

UpdatesClick(w) ==
    LET b == UpdateButtons(win[w])
    IN
    /\ Event({"updates"}) /\ w \in open
    /\ \/ "check" \in b /\ StartJob("check") /\ win' = [win EXCEPT ![w].upd = "checking"]
       \/ "install" \in b /\ InstallUpdate /\ UNCHANGED win
       \/ "dismiss" \in b /\ DismissUpdate /\ win' = [win EXCEPT ![w].upd = "idle"]
    /\ UNCHANGED <<avars, cvars, vvars>>

-----------------------------------------------------------------------------
Init ==
    /\ open = {} /\ ordered = <<>> /\ count = 0 /\ failed = 0
    /\ app = "shown" /\ quitting = FALSE /\ joining = NoWindow
    /\ scope \in Scopes
    /\ store = [FileConfig EXCEPT !.auto = scope.kind = "updates"] /\ policy = PolicyOf(store)
    /\ cq = [w \in Windows |-> NoConfig]
    /\ keymap = EffectiveKeymap(FileConfig) /\ kq = NoConfig
    /\ vault \in scope.vaults
    /\ vq = [w \in Windows |-> FALSE]
    /\ win = [w \in Windows |-> FreshWindow]
    /\ events = 0
    /\ UInit(store.auto, IF scope.kind = "typing" THEN "available" ELSE "idle")

Next ==
    \/ \E w \in Windows :
        \/ \E a \in FirstActions : OpenWindow(w, a)
        \/ \E c \in MenuCommands : WindowCommand(w, c)
        \/ CloseWindow(w)
        \/ ApplyConfig(w) \/ ApplyVault(w) \/ ApplyUpdate(w)
        \/ PaletteKey(w) \/ PaletteClick(w) \/ DialogKey(w) \/ SettingsKey(w)
        \/ ModalKey(w) \/ ModalClick(w) \/ VaultListClick(w)
        \/ SettingsClick(w) \/ UpdatesClick(w)
    \/ OpenFails \/ JoinWindow \/ AppCommand \/ Quit \/ ApplyKeymap
    \/ \E t \in Threads : SendUpdate(t)
    \/ \E j \in Jobs : CheckThread(j) \/ InstallThread(j)

Spec == Init /\ [][Next]_vars

(* The executor runs every task that is ready, and a check ends: its        *)
(* requests have a timeout.  An installer may run for ever.                 *)
FairSpec ==
    /\ Spec
    /\ WF_vars(JoinWindow)
    /\ \A w \in Windows : WF_vars(ApplyUpdate(w))
    /\ \A t \in Threads : WF_vars(SendUpdate(t))
    /\ \A j \in Jobs : WF_vars(CheckThread(j))

-----------------------------------------------------------------------------
(* The variables have their types: a position in a text is never negative.  *)
TypeOK ==
    /\ open \subseteq Windows /\ ordered \in Seq(Windows)
    /\ count \in Nat /\ failed \in Nat /\ events \in Nat
    /\ app \in {"shown", "hidden", "quit"} /\ quitting \in BOOLEAN
    /\ store \in Config /\ policy \in {"hidden", "quit"}
    /\ vault \in VaultStates
    /\ \A w \in Windows :
        /\ win[w].cfg \in Config /\ win[w].seen \in VaultStates
        /\ win[w].upd \in UpdateStates /\ win[w].field \in 0..NoField
        /\ win[w].palette.query \in Texts /\ win[w].palette.sel \in Nat
        /\ win[w].palette.ed \in Carets /\ win[w].ed \in Carets
        /\ win[w].modal.text \in [Fields -> Texts]
    /\ UTypeOK

(* The registry by which menus and commands find a window names exactly the *)
(* open windows, each once, and the controller's count is too high only by  *)
(* the windows that failed to open (app.rs, WorkspaceWindowRegistry).       *)
RegistryExact ==
    /\ ToSet(ordered) = open /\ Len(ordered) = Cardinality(open)
    /\ count = Cardinality(open) + failed

(* Whatever was typed into the vault dialog is gone once it is closed.      *)
SecretsWiped ==
    \A w \in open : ~win[w].modal.open => win[w].modal.text = [f \in Fields |-> <<>>]

(* A key typed into the vault dialog edits the field that is highlighted,   *)
(* whatever dialog was shown before it and however it was opened.           *)
TypingGoesToHighlight ==
    \A w \in open : LET m == win[w].modal IN
        m.open /\ FieldCount(m) > 0 => SyncField(win[w]).field = m.sel

(* A key goes to what is drawn on top (handle_key_down against Render).     *)
TopmostGetsKeys ==
    \A w \in open : Layers(win[w]) # {} =>
        \E l \in Layers(win[w]) : /\ l[2] = KeyTarget(win[w])
                                  /\ \A o \in Layers(win[w]) : o[1] <= l[1]

(* What is typed goes where the user sees it and does not stay longer than  *)
(* the dialog it was typed into.                                            *)
DialogSafe == SecretsWiped /\ TypingGoesToHighlight /\ TopmostGetsKeys

(* The caret of the palette lies within its query, over any sequence of     *)
(* toggling, typing and commands that close it.                             *)
PaletteCaretInQuery ==
    \A w \in open : LET p == win[w].palette IN
        p.ed.anchor <= Len(p.query) /\ p.ed.focus <= Len(p.query)

(* query is what is left of t when characters are taken out of it.          *)
IsSubsequence(query, t) ==
    \E f \in [1..Len(query) -> 1..Len(t)] :
        /\ \A i, k \in 1..Len(query) : i < k => f[i] < f[k]
        /\ \A i \in 1..Len(query) : t[f[i]] = query[i]

(* The palette lists exactly the commands whose label or hint contains the  *)
(* query's characters in order, although fuzzy_score never goes back.       *)
PaletteListsMatches ==
    \A w \in open : LET r == win[w] IN
        r.palette.open =>
            ToSet(Items(r)) = {a \in ToSet(AllItems(r)) :
                IsSubsequence(r.palette.query, Label[a]) \/ IsSubsequence(r.palette.query, Hint[a])}

(* A page key moves the palette's selection unless it is at that end, and   *)
(* always to an item: a group's heading never stops it.                     *)
PagingMoves ==
    LET Moves(rows, n) == \A i \in 0..(n - 1) :
            /\ PageDown(rows, i) \in (IF i = n - 1 THEN {i} ELSE (i + 1)..(n - 1))
            /\ PageUp(rows, i) \in (IF i = 0 THEN {i} ELSE 0..(i - 1))
    IN \A w \in open : win[w].palette.open =>
         Moves(Rows(win[w], Items(win[w])), Len(Items(win[w])))

(* The palette edits, lists and selects what it should, whatever is typed.  *)
PaletteSound == PaletteCaretInQuery /\ PaletteListsMatches /\ PagingMoves

(* Once its channel is drained, a window shows the saved settings and the   *)
(* installed key bindings are theirs.                                       *)
SettledShowsSaved ==
    /\ \A w \in open : cq[w] = NoConfig => win[w].cfg = store
    /\ kq = NoConfig => keymap = EffectiveKeymap(store)

(* Once its channel is drained, a window shows the vault as it is, also     *)
(* after another window has locked or deleted it.                           *)
SettledShowsVault == \A w \in open : ~vq[w] => win[w].seen = vault

(* Windows, registry, settings and vault agree, in well-typed states, once  *)
(* what was sent to the windows has arrived.                                *)
WindowsAgree == TypeOK /\ RegistryExact /\ SettledShowsSaved /\ SettledShowsVault

(* Closing the last window hides the application or ends it as the saved    *)
(* settings say, whoever saved them and however.                            *)
LastCloseFollowsSettings ==
    [][open # {} /\ open' = {} /\ ~quitting => app' = PolicyOf(store)]_vars

(* No window shows a check as running for ever, unless the check's result   *)
(* was sent while the window was subscribing.                               *)
CheckingEnds == []<>(\A w \in open \ missed : win[w].upd # "checking" \/ app = "quit")

(* The dialog calls the form incomplete only if it is (forms.rs,            *)
(* can_submit; workspace.rs, submit_vault_modal).                           *)
IncompleteIsTrue ==
    [][\A w \in open \cap open' :
        win[w].modal.error # "incomplete" /\ win'[w].modal.error = "incomplete"
            => ~Complete(win[w].modal)]_vars
=============================================================================
