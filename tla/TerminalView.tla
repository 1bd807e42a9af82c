---------------------------- MODULE TerminalView ----------------------------
(***************************************************************************)
(* The terminal pane of one window (crates/seance-ui/src): which session   *)
(* it shows, how a publication of a session's worker becomes a repaint     *)
(* (session watcher, frame pacer, surface sync), how the window's geometry *)
(* reaches the session, and the gestures that outlive one event: a         *)
(* coalesced scroll, a drag with its auto-scroll loop, a selection, an IME *)
(* composition, the scrollbar drag and the hovered link.                   *)
(*                                                                         *)
(* The window is a record, and what the methods of SeanceWorkspace do to   *)
(* it are operators from windows to windows, composed as the methods call  *)
(* each other.  A deferred closure carries the epoch it was made in; since *)
(* epochs only grow, it is enough to know whether a closure is still of    *)
(* the current epoch ("fresh").  The viewport has one row, which carries a *)
(* link; glyphs, colours, caches of shaped text and the HUD's numbers are  *)
(* left out.  A second window appears by what it does to shared sessions.  *)
(***************************************************************************)
EXTENDS Integers, Sequences, SequencesExt, FiniteSets, Functions

CONSTANTS Ids,        \* session ids, 1 .. n
          MaxVal,     \* bound: publications, the first of each session not counted
          MaxEvents,  \* bound: events of the window
          Screens     \* bound: what the active screen of a session may be

ASSUME IdsAssumption == Ids \in SUBSET (Nat \ {0}) /\ IsFiniteSet(Ids) /\ 1 \in Ids
ASSUME PaneBoundsAssumption == {MaxVal, MaxEvents} \subseteq Nat
ASSUME ScreensAssumption == "primary" \in Screens /\ Screens \subseteq {"primary", "alt", "tracking"}

VARIABLES
    live,    \* SessionRegistry.sessions
    recent,  \* live ids by last_access_seq
    ses,     \* what the sessions' workers have published and been told
    win,     \* the geometry the window's size and font call for
    w,       \* the window
    events   \* events so far

paneVars == <<live, recent, ses, win, w, events>>

Sizes == 1 .. 2
MAX_FRAME_DEFERS == 2

\* SharedSessionState::new: the "Launching" row has revision 1.
NewSession(watch) ==
    [rev |-> 1, val |-> 1, err |-> FALSE, screen |-> "primary", geo |-> 0, foreign |-> FALSE,
     token |-> FALSE, watch |-> watch]

\* TerminalSurfaceState: rows are empty when val is 0.  bumped marks a row whose revision
\* invalidate_terminal_link_rows moved and no sync has rebuilt.
NoSurface == [id |-> 0, rev |-> 0, val |-> 0, geo |-> 0, mode |-> "normal", links |-> TRUE,
              bumped |-> FALSE]

NoWindow ==
    [active |-> 0, by |-> "user", tab |-> "terminal", applied |-> 0, surf |-> NoSurface,
     pend |-> FALSE, sched |-> FALSE, defers |-> 0, flushed |-> FALSE, dirty |-> TRUE, cbs |-> <<>>,
     scroll |-> [who |-> 0, what |-> "none", sched |-> FALSE], recent |-> FALSE, restore |-> FALSE,
     auto |-> "off", anchor |-> 0, sel |-> 0, turn |-> 0, ime |-> 0, bar |-> 0, hover |-> 0,
     probe |-> [on |-> FALSE, sched |-> FALSE]]

Active == IF w.active \in live THEN w.active ELSE 0   \* active_session
Screen == ses[Active].screen

-----------------------------------------------------------------------------
(***************************************************************************)
(* Frames: on_next_frame closures and the frame pacer.                     *)
(***************************************************************************)

\* cx.on_next_frame.
Later(v, kind) == [v EXCEPT !.cbs = Append(@, [kind |-> kind, fresh |-> TRUE])]

\* The epoch of a kind of closure is advanced: those made before no longer apply.
Outdated(v, kind) ==
    [v EXCEPT !.cbs = [i \in DOMAIN v.cbs |->
        [v.cbs[i] EXCEPT !.fresh = @ /\ v.cbs[i].kind # kind]]]

\* request_repaint.
Requested(v) ==
    IF v.sched THEN [v EXCEPT !.pend = TRUE]
    ELSE Later([v EXCEPT !.pend = TRUE, !.sched = TRUE, !.defers = 0], "flush")

\* cx.notify and window.refresh.
Notified(v) == [v EXCEPT !.dirty = TRUE]

\* ensure_display_probe with the HUD enabled.
EnsuredProbe(v) ==
    IF v.probe.sched THEN v
    ELSE Notified(Later([v EXCEPT !.probe = [on |-> TRUE, sched |-> TRUE]], "probe"))

\* apply_perf_mode.
PerfMode(v, on) ==
    LET switched == IF on = v.probe.on THEN v
                    ELSE Outdated([v EXCEPT !.probe = [on |-> on, sched |-> FALSE]], "probe")
    IN Requested(IF on THEN EnsuredProbe(switched) ELSE switched)

-----------------------------------------------------------------------------
(***************************************************************************)
(* The surface.                                                            *)
(***************************************************************************)

\* TerminalSurfaceState::mark_invalidated.
Invalidated(v) ==
    [v EXCEPT !.surf.rev = 0, !.surf.val = 0, !.surf.geo = 0, !.surf.bumped = FALSE]

\* Bound: a revision no publication reaches.
MaxRev == 2 * MaxVal + 2

\* invalidate_terminal_link_rows: the row's revision is moved so that the next sync
\* rebuilds it.
LinkRowsBumped(v) ==
    IF v.surf.rev = 0 THEN v
    ELSE [v EXCEPT !.surf.rev = IF @ < MaxRev THEN @ + 1 ELSE @, !.surf.mode = "normal",
                   !.surf.bumped = TRUE]

\* session.resize; a worker that has ended refuses it.
ToldGeometry(s, geo) ==
    IF s \in live /\ ~ses[s].err THEN [ses EXCEPT ![s].geo = geo, ![s].foreign = FALSE] ELSE ses

\* apply_active_terminal_geometry, and whether it resizes the session.
GeometryApplied(v, size) ==
    IF Active = 0 THEN [v EXCEPT !.applied = 0]
    ELSE IF v.applied = size THEN v
    ELSE Invalidated([v EXCEPT !.applied = size])
TellsGeometry(v, size) == Active # 0 /\ v.applied # size

\* terminal_link_paint_mode.
PaintMode(v) == IF v.recent THEN "deferred" ELSE "normal"

\* reconcile_terminal_hovered_link: the link must still be in the row it was found in.
HoverKept(v) ==
    ~v.recent /\ Screen = "primary" /\ v.hover = ses[Active].rev

FullRebuild(v) ==
    \/ v.surf.id # v.active \/ v.surf.geo # v.applied
    \/ v.surf.mode # PaintMode(v) \/ v.surf.val = 0

\* build_row_paint_template, or the template cache under the same key.
Painted(v) ==
    [id |-> v.active, rev |-> ses[Active].rev, val |-> ses[Active].val, geo |-> v.applied,
     mode |-> PaintMode(v), links |-> PaintMode(v) = "normal", bumped |-> FALSE]

\* sync_terminal_surface with the geometry applied: rows of equal revisions are reused.
Synced(v) ==
    LET u == [v EXCEPT !.hover = IF HoverKept(v) THEN @ ELSE 0,
                       !.bar = IF ses[Active].err THEN 0 ELSE @]   \* no scrollbar
    IN IF ~FullRebuild(v) /\ v.surf.rev = ses[Active].rev
       THEN [u EXCEPT !.surf.mode = PaintMode(v)]
       ELSE [u EXCEPT !.surf = Painted(v)]

-----------------------------------------------------------------------------
(***************************************************************************)
(* Sessions of the window.                                                 *)
(***************************************************************************)

\* Mutant: a coalesced scroll and its flush survive the switch.
ViewKeepsScroll(v) ==
    Requested(Invalidated(Outdated(
        [v EXCEPT !.recent = FALSE, !.restore = FALSE, !.sel = 0, !.anchor = 0, !.turn = 0,
                  !.auto = "off"], "auto")))

\* refresh_active_terminal_view.
ViewRefreshed(v) ==
    Requested(Invalidated(Outdated(Outdated(
        [v EXCEPT !.scroll = [who |-> 0, what |-> "none", sched |-> FALSE],
                  !.recent = FALSE, !.restore = FALSE, !.sel = 0, !.anchor = 0, !.turn = 0,
                  !.auto = "off"], "scroll"), "auto")))

\* open_workspace_window attaches a session of its own and applies the geometry to it; the
\* user may since have opened a second one and come back.
PaneInit ==
    /\ live \in {{1}, Ids} /\ events = 0 /\ win = 1
    /\ recent \in {r \in [1 .. Cardinality(live) -> live] : IsInjective(r) /\ Last(r) = 1}
    /\ ses = [s \in Ids |-> IF s \in live THEN [NewSession("me") EXCEPT !.geo = 1]
                            ELSE NewSession("none")]
    /\ LET opened == [NoWindow EXCEPT !.active = 1, !.applied = 1]
       IN w = IF live = {1} THEN opened ELSE ViewRefreshed(opened)

\* SessionRegistry::remove: the order of the other sessions stays.
Without(s) ==
    IF s \in Range(recent) THEN RemoveAt(recent, CHOOSE i \in DOMAIN recent : recent[i] = s)
    ELSE recent

\* SessionRegistry::touch.
Touched(s) == IF s \in live THEN Append(Without(s), s) ELSE recent

Event == events < MaxEvents /\ events' = events + 1

\* spawn_session, and the foreground case of complete_connect_attempt, which also shows
\* the terminal.
Spawn(s, remote) ==
    /\ Event /\ s \in Ids \ live /\ ses[s].watch = "none"
    /\ live' = live \cup {s} /\ recent' = Append(recent, s)
    /\ ses' = [ses EXCEPT ![s] = [NewSession("me") EXCEPT !.geo = w.applied]]
    /\ w' = ViewRefreshed([w EXCEPT !.active = s, !.by = "user", !.ime = 0,
                                    !.tab = IF remote THEN "terminal" ELSE @])
    /\ UNCHANGED win

\* The resize select_session sends.
SelectionTold(s) == IF w.applied # 0 THEN ToldGeometry(s, w.applied) ELSE ses

\* select_session: a sidebar row may name a session that another window has closed.
Select(s) ==
    /\ Event /\ ses[s].watch # "none"
    /\ recent' = Touched(s)
    /\ ses' = SelectionTold(s)
    /\ w' = ViewRefreshed([w EXCEPT !.active = s, !.by = "user", !.ime = 0])
    /\ UNCHANGED <<live, win>>

\* The place of a session in the list of live sessions, which is sorted by id.
Position(s) == Cardinality({r \in live : r <= s})

\* select_previous_session, select_next_session.
Neighbour(step, s) ==
    LET index == IF Active = 0 THEN 0 ELSE Position(Active) - 1
    IN Position(s) - 1 = (index + step + Cardinality(live)) % Cardinality(live)

SelectNeighbour(step) ==
    w.tab = "terminal" /\ \E s \in live : Neighbour(step, s) /\ Select(s)

\* select_session_slot.
SelectSlot(i) == w.tab = "terminal" /\ \E s \in live : Position(s) = i /\ Select(s)

\* close_session: the most recently used session takes over, without a resize.
Close(s) ==
    LET rest == Without(s)
        next == IF rest = <<>> THEN 0 ELSE Last(rest)
        now == IF w.active = s THEN next ELSE w.active
    IN /\ Event /\ s \in live
       /\ live' = live \ {s} /\ recent' = rest
       /\ w' = ViewRefreshed([w EXCEPT !.active = now, !.ime = 0,
                                       !.by = IF w.active = s THEN "close" ELSE @,
                                       !.applied = IF now = 0 THEN 0 ELSE @])
       /\ UNCHANGED <<ses, win>>

\* Another window opens a session, selects one of this window's, or closes one: the
\* registry is shared and this window is not told.
OtherSpawns(s) ==
    /\ Event /\ s \in Ids \ live /\ ses[s].watch = "none"
    /\ live' = live \cup {s} /\ recent' = Append(recent, s)
    /\ ses' = [ses EXCEPT ![s] = NewSession("other")]
    /\ UNCHANGED <<win, w>>

OtherSelects(s, geo) ==
    /\ Event /\ s \in live
    /\ recent' = Touched(s)
    /\ ses' = [ToldGeometry(s, geo) EXCEPT ![s].foreign = TRUE]
    /\ UNCHANGED <<live, win, w>>

OtherCloses(s) ==
    /\ Event /\ s \in live
    /\ live' = live \ {s} /\ recent' = Without(s)
    /\ UNCHANGED <<ses, win, w>>

-----------------------------------------------------------------------------
(***************************************************************************)
(* Workers and watchers.                                                   *)
(***************************************************************************)

MayPublish == FoldFunction(LAMBDA r, n : n + r.val - 1, 0, ses) < MaxVal

\* publish_viewport: the row gets the next revision; other rows may have taken one.
PublishViewport(s, screen) ==
    /\ s \in live /\ ~ses[s].err /\ MayPublish
    /\ \E r \in IF ses[s].rev = 1 THEN {3} ELSE {ses[s].rev + 1, ses[s].rev + 2} :
          ses' = [ses EXCEPT ![s].val = @ + 1, ![s].rev = r, ![s].screen = screen,
                             ![s].token = TRUE]
    /\ UNCHANGED <<live, recent, win, w, events>>

\* set_error: the error row has revision 1, like the row it may replace.
SetError(s) ==
    /\ s \in live /\ ~ses[s].err /\ MayPublish
    /\ ses' = [ses EXCEPT ![s].val = @ + 1, ![s].rev = 1, ![s].err = TRUE,
                          ![s].screen = "primary", ![s].token = TRUE]
    /\ UNCHANGED <<live, recent, win, w, events>>

\* schedule_session_watcher: recv and the tokens that came meanwhile, then the update.
WatcherReceives(s) ==
    /\ ses[s].watch = "me" /\ ses[s].token
    /\ ses' = [ses EXCEPT ![s].token = FALSE, ![s].watch = "drained"]
    /\ UNCHANGED <<live, recent, win, w, events>>

\* Mutant: the update requests no repaint.
UpdateWithoutRepaint(s) ==
    /\ ses[s].watch = "drained"
    /\ ses' = [ses EXCEPT ![s].watch = "me"]
    /\ UNCHANGED <<live, recent, win, w, events>>

WatcherUpdates(s) ==
    /\ ses[s].watch = "drained"
    /\ ses' = [ses EXCEPT ![s].watch = "me"]
    /\ w' = Requested(w)
    /\ UNCHANGED <<live, recent, win, events>>

Watcher(s) == WatcherReceives(s) \/ WatcherUpdates(s)

-----------------------------------------------------------------------------
(***************************************************************************)
(* Closures of the next frame, and the draw.                               *)
(***************************************************************************)

Runs(kind) == w.cbs # <<>> /\ Head(w.cbs).kind = kind
Popped == [w EXCEPT !.cbs = Tail(@)]
Fresh == Head(w.cbs).fresh

\* should_defer: less than the target interval since the last flush.
MayDefer == w.flushed /\ w.defers < MAX_FRAME_DEFERS

\* Mutant: a deferred flush is not counted.
DeferUncounted ==
    /\ Runs("flush")
    /\ \/ w' = Notified([Popped EXCEPT !.sched = FALSE, !.defers = 0, !.pend = FALSE,
                                       !.flushed = TRUE])
       \/ MayDefer /\ w' = Later(Popped, "flush")
    /\ UNCHANGED <<live, recent, ses, win, events>>

\* flush_frame_pacer.
FlushFramePacer ==
    /\ Runs("flush")
    /\ \/ w' = Notified([Popped EXCEPT !.sched = FALSE, !.defers = 0, !.pend = FALSE,
                                       !.flushed = TRUE])
       \/ MayDefer /\ w' = Later([Popped EXCEPT !.defers = @ + 1], "flush")
    /\ UNCHANGED <<live, recent, ses, win, events>>

\* apply_scheduled_terminal_geometry_refresh.
GeometryTick ==
    /\ Runs("geometry")
    /\ IF Fresh /\ TellsGeometry(w, win)
       THEN ses' = ToldGeometry(Active, win) ELSE UNCHANGED ses
    /\ w' = IF Fresh THEN Requested(GeometryApplied(Popped, win)) ELSE Popped
    /\ UNCHANGED <<live, recent, win, events>>

\* flush_scroll_batch with take_scroll_dispatch_commands: whole rows go to the active
\* session, and the links are painted again once the scroll is idle.
ScrollTick ==
    /\ Runs("scroll")
    /\ w' = IF ~Fresh THEN Popped
            ELSE IF Active = 0
            THEN [Popped EXCEPT !.scroll = [who |-> 0, what |-> "none", sched |-> FALSE]]
            ELSE IF w.scroll.what # "rows" THEN [Popped EXCEPT !.scroll.sched = FALSE]
            ELSE [Popped EXCEPT !.scroll = [who |-> 0, what |-> "none", sched |-> FALSE],
                                !.recent = TRUE, !.restore = TRUE]
    /\ UNCHANGED <<live, recent, ses, win, events>>

\* queue_scroll_command, or accumulate_scroll_delta, with schedule_scroll_flush.
ScrollQueued(v, what) ==
    LET u == [v EXCEPT !.scroll.who = v.active,
                       !.scroll.what = IF v.scroll.what = "rows" THEN @ ELSE what]
    IN IF v.scroll.sched THEN u
       ELSE Requested(Later(Outdated([u EXCEPT !.scroll.sched = TRUE], "scroll"), "scroll"))

\* stop_drag_auto_scroll.
AutoStopped(v) == IF v.auto = "off" THEN v ELSE Outdated([v EXCEPT !.auto = "off"], "auto")

\* schedule_drag_auto_scroll_tick.
AutoScheduled(v) ==
    IF v.auto # "armed" THEN v ELSE Later([v EXCEPT !.auto = "scheduled"], "auto")

\* run_drag_auto_scroll_tick.
AutoTick ==
    /\ Runs("auto")
    /\ w' = IF w.auto = "off" \/ ~Fresh THEN Popped
            ELSE IF w.anchor = 0 \/ Active = 0 \/ Screen = "alt"
            THEN AutoStopped([Popped EXCEPT !.auto = "armed"])
            ELSE AutoScheduled(Requested(ScrollQueued(
                    [Popped EXCEPT !.auto = "armed", !.sel = w.active], "rows")))
    /\ UNCHANGED <<live, recent, ses, win, events>>

\* sample_display_probe.
ProbeTick ==
    /\ Runs("probe")
    /\ w' = IF ~Fresh \/ ~w.probe.sched THEN Popped
            ELSE EnsuredProbe([Popped EXCEPT !.probe.sched = FALSE])
    /\ UNCHANGED <<live, recent, ses, win, events>>

Closure == FlushFramePacer \/ GeometryTick \/ ScrollTick \/ AutoTick \/ ProbeTick

\* Render::render: the terminal pane syncs the surface, unless it has no session to show.
Render ==
    /\ w.dirty
    /\ IF w.tab # "terminal" THEN w' = [w EXCEPT !.dirty = FALSE, !.ime = 0] /\ UNCHANGED ses
       ELSE IF Active = 0 THEN w' = [w EXCEPT !.dirty = FALSE] /\ UNCHANGED ses
       ELSE /\ ses' = IF TellsGeometry(w, win) THEN ToldGeometry(Active, win) ELSE ses
            /\ w' = Synced([GeometryApplied(w, win) EXCEPT !.dirty = FALSE])
    /\ UNCHANGED <<live, recent, win, events>>

\* SCROLL_IDLE_LINK_RESTORE_DELAY has passed since last_scroll_dispatch_at.
DelayPasses ==
    /\ w.recent /\ w' = [w EXCEPT !.recent = FALSE]
    /\ UNCHANGED <<live, recent, ses, win, events>>

\* restore_links_after_idle of the current idle_epoch, after its sleep.
RestoreLinks ==
    /\ w.restore /\ ~w.recent
    /\ w' = Requested(LinkRowsBumped([w EXCEPT !.restore = FALSE]))
    /\ UNCHANGED <<live, recent, ses, win, events>>

-----------------------------------------------------------------------------
(***************************************************************************)
(* Events of the window.                                                   *)
(***************************************************************************)

WindowEvent(v) == Event /\ w' = v /\ UNCHANGED <<live, recent, ses, win>>

\* observe_window_bounds and the sidebar's divider: schedule_active_terminal_geometry_refresh.
BoundsChange(size) ==
    /\ Event /\ win' = size
    /\ w' = Requested(Later(Outdated(w, "geometry"), "geometry"))
    /\ UNCHANGED <<live, recent, ses>>

\* apply_config_snapshot: a new font changes the cell size, and with it the geometry.
ApplyConfig(size, hud) ==
    /\ Event /\ win' = size
    /\ ses' = IF TellsGeometry(w, size) THEN ToldGeometry(Active, size) ELSE ses
    /\ w' = Notified(PerfMode(GeometryApplied(Invalidated(w), size), hud))
    /\ UNCHANGED <<live, recent>>

TogglePerf == WindowEvent(PerfMode(w, ~w.probe.on))
ShowTab(tab) == WindowEvent(Notified([w EXCEPT !.tab = tab]))

\* handle_terminal_scroll_wheel.
ScrollWheel(what) ==
    /\ Active # 0
    /\ WindowEvent(
        IF Screen = "tracking" THEN Requested(w)   \* mouse reports to the shell
        ELSE IF Screen = "alt" THEN [w EXCEPT !.scroll.what = "none"]
        ELSE ScrollQueued([w EXCEPT !.sel = IF w.anchor # 0 THEN w.active ELSE @], what))

\* handle_terminal_mouse_down on the scrollbar, a link, or text.
MouseDown(hit) ==
    /\ w.tab = "terminal" /\ Active # 0 /\ w.surf.geo # 0
    /\ hit \in {"thumb", "track", "link"} => Screen = "primary"
    /\ LET v == AutoStopped(w) IN WindowEvent(Requested(
        CASE hit = "thumb" -> [v EXCEPT !.bar = w.active]
          [] hit = "track" -> ScrollQueued([v EXCEPT !.bar = w.active], "rows")
          [] hit = "link" -> [v EXCEPT !.anchor = 0, !.hover = 0]
          [] hit = "word" /\ Screen # "tracking" ->
                [v EXCEPT !.turn = 0, !.hover = 0, !.sel = w.active, !.anchor = 0]
          [] hit = "text" /\ Screen # "tracking" ->
                [v EXCEPT !.turn = 0, !.hover = 0, !.sel = w.active, !.anchor = w.active]
          [] OTHER -> [v EXCEPT !.hover = 0, !.bar = 0, !.sel = 0, !.anchor = 0]))

\* handle_terminal_mouse_move: a scrollbar drag, a report, a drag that selects and, off
\* the viewport, starts the auto-scroll loop, or a hover.
MouseMove(to) ==
    /\ w.tab = "terminal" /\ Active # 0
    /\ WindowEvent(
        IF w.bar # 0
        THEN LET v == [AutoStopped(w) EXCEPT !.hover = 0]
             IN IF Screen = "primary" THEN Requested(ScrollQueued(v, "rows"))
                ELSE Requested([v EXCEPT !.bar = 0])
        ELSE IF Screen = "tracking" THEN Requested([AutoStopped(w) EXCEPT !.hover = 0])
        ELSE IF to = "link" THEN Requested([AutoStopped(w) EXCEPT !.hover = ses[Active].rev])
        ELSE LET v == [w EXCEPT !.hover = 0]
             IN IF w.anchor = 0 \/ w.surf.geo = 0 THEN AutoStopped(v)
                ELSE IF to = "inside" THEN Requested(AutoStopped([v EXCEPT !.sel = w.active]))
                ELSE Requested(AutoScheduled(
                        IF v.auto # "off" THEN [v EXCEPT !.sel = w.active]
                        ELSE [Outdated(v, "auto") EXCEPT !.sel = w.active, !.auto = "armed"])))

\* handle_terminal_mouse_up.
MouseUp ==
    /\ w.tab = "terminal"
    /\ LET v == AutoStopped([w EXCEPT !.anchor = 0, !.bar = 0])
       IN WindowEvent(IF Active = 0 THEN [v EXCEPT !.hover = 0] ELSE Requested(v))

\* handle_terminal_scrollback_key; handle_terminal_input_key with what it sends.
ScrollbackKey == w.tab = "terminal" /\ Active # 0 /\ WindowEvent(Requested(w))
InputKey == ScrollbackKey

\* handle_terminal_modifiers_changed: while links are deferred the hovered link goes.
ModifiersChanged ==
    w.hover # 0 /\ WindowEvent(Notified([w EXCEPT !.hover = IF w.recent THEN 0 ELSE @]))

\* replace_and_mark_text_in_range; replace_text_in_range sends the text and clears it.
Compose == w.tab = "terminal" /\ Active # 0 /\ WindowEvent(Notified([w EXCEPT !.ime = w.active]))
Commit == w.ime # 0 /\ WindowEvent(Notified([w EXCEPT !.ime = 0]))
UnmarkText == Commit   \* without sending

\* select_previous_turn, copy_previous_turn_to_clipboard.
SelectPreviousTurn(found) ==
    /\ Active # 0
    /\ WindowEvent(Notified(IF found THEN [w EXCEPT !.sel = 0, !.anchor = 0, !.turn = w.active]
                            ELSE [w EXCEPT !.turn = 0]))
CopyPreviousTurn == Active # 0 /\ WindowEvent(Notified([w EXCEPT !.turn = w.active]))

Pointer ==
    \/ \E what \in {"part", "rows"} : ScrollWheel(what)
    \/ \E hit \in {"thumb", "track", "link", "word", "text"} : MouseDown(hit)
    \/ \E to \in {"inside", "outside", "link"} : MouseMove(to)
    \/ MouseUp

Sessions ==
    \E s \in Ids :
        \/ \E remote \in BOOLEAN : Spawn(s, remote)
        \/ Select(s) \/ Close(s) \/ OtherSpawns(s) \/ OtherCloses(s)
        \/ \E geo \in Sizes : OtherSelects(s, geo)

\* register_app_actions: the commands on sessions and turns, sent to a window.
SessionCommand ==
    \/ CopyPreviousTurn \/ TogglePerf
    \/ \E found \in BOOLEAN : SelectPreviousTurn(found)
    \/ \E step \in {-1, 1} : SelectNeighbour(step)
    \/ \E i \in 1 .. Cardinality(Ids) : SelectSlot(i)

UserEvent ==
    \/ Sessions \/ Pointer \/ ScrollbackKey \/ InputKey \/ Compose \/ Commit \/ UnmarkText
    \/ ModifiersChanged \/ SessionCommand
    \/ \E size \in Sizes : BoundsChange(size) \/ \E hud \in BOOLEAN : ApplyConfig(size, hud)
    \/ \E tab \in {"terminal", "other"} : ShowTab(tab)

SessionWorker(s) == SetError(s) \/ \E screen \in Screens : PublishViewport(s, screen)

PaneNext ==
    \/ UserEvent \/ Closure \/ Render \/ DelayPasses \/ RestoreLinks
    \/ \E s \in Ids : SessionWorker(s) \/ Watcher(s)

PaneSpec == PaneInit /\ [][PaneNext]_paneVars

\* The main thread runs its closures, draws a dirty window and runs the watchers; time
\* passes.  Nothing is assumed of the workers, the user and the other window.
PaneFairSpec ==
    /\ PaneSpec
    /\ WF_paneVars(Closure) /\ WF_paneVars(Render)
    /\ WF_paneVars(DelayPasses) /\ WF_paneVars(RestoreLinks)
    /\ WF_paneVars(\E s \in Ids : Watcher(s))

-----------------------------------------------------------------------------
(***************************************************************************)
(* Properties.                                                             *)
(***************************************************************************)

Owner == Ids \cup {0}

\* Every variable keeps its type; the frame pacer never defers more than
\* MAX_FRAME_DEFERS times in a row (should_defer).
PaneTypeOK ==
    /\ live \subseteq Ids /\ recent \in Seq(Ids) /\ win \in Sizes
    /\ ses \in [Ids -> [rev : Nat, val : Nat \ {0}, err : BOOLEAN, screen : Screens,
                        geo : 0 .. 2, foreign : BOOLEAN, token : BOOLEAN,
                        watch : {"none", "me", "drained", "other"}]]
    /\ w.active \in Owner /\ w.applied \in 0 .. 2 /\ w.defers \in 0 .. MAX_FRAME_DEFERS
    /\ {w.sel, w.turn, w.anchor, w.ime, w.bar, w.scroll.who} \subseteq Owner
    /\ w.auto \in {"off", "armed", "scheduled"} /\ events \in 0 .. MaxEvents
    /\ \A i \in DOMAIN w.cbs : w.cbs[i].kind \in {"flush", "geometry", "scroll", "auto", "probe"}

\* What the user began on one session never ends on another: a coalesced scroll, a
\* selection, a drag, a turn selection and a composition belong to the active session,
\* also when it is switched in between (refresh_active_terminal_view, clear_terminal_ime).
GesturesFollowSession ==
    /\ {w.sel, w.turn, w.anchor, w.ime} \subseteq {0, w.active}
    /\ w.scroll.what # "none" => w.scroll.who = w.active

Closures(kind) == Cardinality({i \in DOMAIN w.cbs : w.cbs[i].kind = kind /\ w.cbs[i].fresh})

\* A flag that says a closure is scheduled is set exactly when one of the current epoch
\* is queued: nothing waits for a closure that will not act, and none is queued twice.
FlagsHaveClosures ==
    /\ Closures("flush") = IF w.sched THEN 1 ELSE 0
    /\ Closures("scroll") = IF w.scroll.sched THEN 1 ELSE 0
    /\ Closures("auto") = IF w.auto = "scheduled" THEN 1 ELSE 0
    /\ Closures("probe") = IF w.probe.sched THEN 1 ELSE 0
    /\ w.auto # "armed"

\* Both, in well-typed states: a switch of sessions leaves no gesture and no closure of
\* the old one that would act on the new one, and no flag without its closure.
WindowSound == PaneTypeOK /\ GesturesFollowSession /\ FlagsHaveClosures

\* The window shows a session it watches and has nothing left to do for it.
Settled ==
    /\ w.tab = "terminal" /\ Active # 0 /\ ses[Active].watch = "me" /\ ~ses[Active].token
    /\ ~w.dirty /\ ~w.sched /\ Closures("geometry") = 0

\* A settled window shows the newest publication at the window's geometry, with its links
\* once the scroll is idle.  Two rows escape: one whose revision the link restoration
\* moved just before the worker published the same revision, and the row of set_error,
\* which has the revision of the row it replaces.
SettledIsCurrent ==
    Settled =>
        /\ w.surf.id = w.active /\ w.applied = win /\ w.surf.geo = win
        /\ w.surf.val = ses[Active].val \/ w.surf.bumped \/ ses[Active].err
        /\ w.surf.links \/ w.recent \/ w.restore \/ w.surf.bumped

\* A settled window whose session the user selected has resized it to its own geometry.
\* close_session hands over to a session without resizing it, and another window may.
SelectedHasGeometry ==
    Settled /\ w.by = "user" /\ ~ses[Active].foreign /\ ~ses[Active].err
    => ses[Active].geo = win

\* Both: when nothing is left to do, the screen and the session's size are the right ones.
SettledWindow == SettledIsCurrent /\ SelectedHasGeometry

Watching ==
    /\ w.active \in live /\ w.tab = "terminal"
    /\ ses[w.active].watch \in {"me", "drained"}

\* However repaints are coalesced and deferred, the window shows the newest publication of
\* the session it watches again and again, but for the two rows above.
OutputPainted ==
    []<>(Watching =>
            \/ w.surf.id = w.active /\ w.surf.val = ses[w.active].val
            \/ w.surf.bumped \/ ses[w.active].err)
=============================================================================
