--------------------------- MODULE RemoteSessions ---------------------------
(***************************************************************************)
(* Remote sessions of one window: the connect tasks of SshSessionManager   *)
(* (crates/seance-ssh), the window's ConnectAttemptTracker, the sessions   *)
(* of the controller and the SFTP browser (crates/seance-ui).              *)
(*                                                                         *)
(* The n-th attempt of the window and the session it leads to are both     *)
(* called n; session 0 stands for the window's local sessions.  A connect  *)
(* task is a future polled under a biased select: a poll looks at the      *)
(* cancellation first, then advances the connection to the next await.     *)
(* Another client of the server may change the directory between listings. *)
(***************************************************************************)
EXTENDS Integers, Sequences, SequencesExt, FiniteSets

CONSTANTS Hosts,        \* saved hosts
          MaxAttempts,  \* bound: connect attempts of the window
          MaxAuth,      \* bound: authentication methods of a host
          MaxEvents     \* bound: events of the user

ASSUME HostsAssumption == IsFiniteSet(Hosts) /\ Hosts # {}
ASSUME BoundsAssumption ==
    MaxAttempts \in Nat \ {0} /\ MaxAuth \in Nat \ {0} /\ MaxEvents \in Nat

VARIABLES
    task,      \* task[n]: the connect task of attempt n
    sftp,      \* SshSessionManager.sftp_sessions
    worker,    \* worker[n]: the thread that runs session n
    pending,   \* ConnectAttemptTracker.by_attempt_id
    byHost,    \* ConnectAttemptTracker.by_host_scope_key
    fg,        \* ConnectAttemptTracker.last_foreground_attempt_id
    recent,    \* registered sessions, by last access
    active,    \* active_session_id
    surface,   \* "terminal" or "sftp"
    open,      \* whether the window is open
    browser,   \* sftp_browser
    dir,       \* what the server's directories hold
    events     \* events so far

connecting == <<task, sftp, worker>>
tracker == <<pending, byHost, fg>>
shown == <<recent, active, surface, open>>
files == <<browser, dir>>
vars == <<connecting, tracker, shown, files, events>>

Attempts == 1 .. MaxAttempts
NoTask == [host |-> "none", st |-> "none", res |-> "none", cancel |-> "open", auth |-> 0]
Running == {"connect", "auth", "shell", "bootstrap"}
Sessions == ToSet(recent) \ {0}

\* Directories below the top are one, "sub"; a renamed file is "n", a new folder "m".
Paths == {"top", "sub"}
Folders == {"..", "d", "m"}
Names == Folders \cup {"x", "y", "n"}
NoRename == [row |-> 0, text |-> ""]

\* SftpBrowserState::new; ses is 0 when sftp_browser is None.  from is the directory in the
\* paths of the entries.
NoBrowser == [ses |-> 0, path |-> "top", entries |-> <<>>, from |-> "top", row |-> 1,
              sort |-> "name", confirm |-> "none", rename |-> NoRename, mkdir |-> "none"]

\* Attempt 1 may already have led to a session.
Init ==
    \E up \in BOOLEAN :
        /\ task = [n \in Attempts |-> IF n = 1 /\ up
                    THEN [NoTask EXCEPT !.st = "delivered", !.res = "ok", !.cancel = "closed",
                                        !.host = CHOOSE h \in Hosts : TRUE]
                    ELSE NoTask]
        /\ sftp = IF up THEN {1} ELSE {}
        /\ worker = [n \in Attempts |-> IF n = 1 /\ up THEN "running" ELSE "none"]
        /\ pending = {} /\ byHost = [h \in Hosts |-> 0] /\ fg = 0
        /\ recent = (IF up THEN <<0, 1>> ELSE <<0>>) /\ active = IF up THEN 1 ELSE 0
        /\ surface = "terminal" /\ open = TRUE /\ events = 0
        /\ browser = NoBrowser
        /\ dir = [p \in Paths |-> IF p = "top" THEN {"d", "x", "y"} ELSE {"..", "x"}]

Event == open /\ events < MaxEvents /\ events' = events + 1

-----------------------------------------------------------------------------
(***************************************************************************)
(* The tracker.                                                            *)
(***************************************************************************)

Fresh == {n \in Attempts : task[n].st = "none"}

\* start_connect_attempt with ConnectAttemptTracker::start.  A host that is connecting
\* already is left alone; build_connect_request and start_connect may refuse.
StartConnect(h) ==
    /\ Event
    /\ \/ UNCHANGED <<task, tracker>>
       \/ /\ byHost[h] = 0 /\ Fresh # {}
          /\ LET n == CHOOSE m \in Fresh : \A k \in Fresh : m <= k
             IN /\ \E methods \in 1 .. MaxAuth :
                    task' = [task EXCEPT ![n] = [NoTask EXCEPT !.host = h, !.st = "connect",
                                                               !.auth = methods]]
                /\ pending' = pending \cup {n}
                /\ byHost' = [byHost EXCEPT ![h] = n]
                /\ fg' = n
    /\ UNCHANGED <<sftp, worker, shown, files>>

\* ConnectAttemptTracker::remove.
Removed(n) ==
    /\ pending' = pending \ {n}
    /\ byHost' = [byHost EXCEPT ![task[n].host] = 0]
    /\ fg' = IF fg = n THEN 0 ELSE fg

\* cancel_connect_attempt with SshConnectAbortHandle::abort: the sender can be used once,
\* and sending fails when the task has dropped the receiver.
CancelConnect(n) ==
    /\ Event /\ n \in pending /\ task[n].cancel # "fired"
    /\ task' = [task EXCEPT ![n].cancel = IF @ = "open" THEN "fired" ELSE @]
    /\ IF task[n].cancel = "open" THEN Removed(n) ELSE UNCHANGED tracker
    /\ UNCHANGED <<sftp, worker, shown, files>>

-----------------------------------------------------------------------------
(***************************************************************************)
(* The connect task.                                                       *)
(***************************************************************************)

Polled(n) == task[n].st \in Running /\ task[n].cancel # "fired"
Resolved(n, res) == [task EXCEPT ![n].st = "resolved", ![n].res = res]

\* run_connect_future: the cancellation is looked at first.
Cancelled(n) ==
    /\ task[n].st \in Running /\ task[n].cancel = "fired"
    /\ task' = Resolved(n, "cancelled")
    /\ UNCHANGED <<sftp, worker, tracker, shown, files, events>>

\* Mutant: the timeout covers the transport only, not the authentication and what follows.
ExpireTransport(n) ==
    /\ Polled(n) /\ task[n].st = "connect"
    /\ task' = Resolved(n, "timed_out")
    /\ UNCHANGED <<sftp, worker, tracker, shown, files, events>>

\* The timeout around connect_async.
Expire(n) ==
    /\ Polled(n)
    /\ task' = Resolved(n, "timed_out")
    /\ UNCHANGED <<sftp, worker, tracker, shown, files, events>>

\* What one method of authenticate leads to: the shell, or the next method after one that
\* was rejected; a transport error or an invalid key ends the attempt.
Authenticated(n) ==
    {[task EXCEPT ![n].st = "shell"], Resolved(n, "error")}
        \cup (IF task[n].auth > 1 THEN {[task EXCEPT ![n].auth = @ - 1]} ELSE {})

\* connect_async up to the SFTP bootstrap; each of its awaits may fail.
Advance(n) ==
    /\ Polled(n)
    /\ \/ task[n].st = "connect" /\ task' = [task EXCEPT ![n].st = "auth"]
       \/ task[n].st = "auth" /\ task' \in Authenticated(n)
       \/ task[n].st = "shell" /\ task' = [task EXCEPT ![n].st = "bootstrap"]
       \/ task[n].st # "auth" /\ task' = Resolved(n, "error")
    /\ UNCHANGED <<sftp, worker, tracker, shown, files, events>>

\* The last poll: bootstrap_sftp stores the SFTP session, then the worker thread is
\* spawned; no await lies between, but the spawn may fail.
Connect(n) ==
    /\ Polled(n) /\ task[n].st = "bootstrap"
    /\ sftp' = sftp \cup {n}
    /\ \/ worker' = [worker EXCEPT ![n] = "running"] /\ task' = Resolved(n, "ok")
       \/ UNCHANGED worker /\ task' = Resolved(n, "error")
    /\ UNCHANGED <<tracker, shown, files, events>>

\* Mutant: a failed connect keeps its SFTP session.
ClearedNever(n) == sftp

\* clear_sftp_session.
Cleared(n) == IF task[n].res = "ok" THEN sftp ELSE sftp \ {n}

\* run_connect_future returns, which drops the receiver of the cancellation, and the
\* result is sent.
Finish(n) ==
    /\ task[n].st = "resolved"
    /\ task' = [task EXCEPT ![n].st = "finished", ![n].cancel = IF @ = "open" THEN "closed" ELSE @]
    /\ sftp' = Cleared(n)
    /\ UNCHANGED <<worker, tracker, shown, files, events>>

\* An attempt the window still waits for.
Awaited(n) == n \in pending

TakesView(n) == fg = n

\* complete_connect_attempt: a removed attempt's result is dropped, with its session; a
\* result for a closed window is dropped too.
Complete(n) ==
    /\ task[n].st = "finished"
    /\ task' = [task EXCEPT ![n].st = "delivered"]
    /\ IF open /\ Awaited(n)
       THEN /\ Removed(n)
            /\ IF task[n].res # "ok" THEN UNCHANGED shown
               ELSE /\ recent' = Append(recent, n)
                    /\ IF TakesView(n) THEN active' = n /\ surface' = "terminal"
                       ELSE UNCHANGED <<active, surface>>
                    /\ UNCHANGED open
       ELSE UNCHANGED <<tracker, shown>>
    /\ UNCHANGED <<sftp, worker, files, events>>

\* The server ends the connection.  Dropping a session's handle does not end its worker.
WorkerEnds(n) ==
    /\ worker[n] = "running"
    /\ worker' = [worker EXCEPT ![n] = "ended"]
    /\ UNCHANGED <<task, sftp, tracker, shown, files, events>>

-----------------------------------------------------------------------------
(***************************************************************************)
(* Sessions of the window.                                                 *)
(***************************************************************************)

\* A session is registered once.
Without(n) == RemoveAt(recent, CHOOSE i \in DOMAIN recent : recent[i] = n)

\* select_session of a session that is still registered.
Select(n) ==
    /\ Event /\ n \in ToSet(recent)
    /\ recent' = Append(Without(n), n) /\ active' = n
    /\ UNCHANGED <<connecting, tracker, surface, open, files>>

\* close_session: the browser of the session goes, its surface stays.
CloseSession(n) ==
    /\ Event /\ n \in Sessions
    /\ recent' = Without(n)
    /\ active' = IF active = n THEN Last(Without(n)) ELSE active
    /\ browser' = IF browser.ses = n THEN NoBrowser ELSE browser
    /\ UNCHANGED <<connecting, tracker, surface, open, dir>>

\* The window is closed; its pending tasks keep the workspace alive until they answer.
CloseWindow ==
    /\ Event /\ open' = FALSE
    /\ UNCHANGED <<connecting, tracker, recent, active, surface, files>>

-----------------------------------------------------------------------------
(***************************************************************************)
(* The SFTP browser.                                                       *)
(***************************************************************************)

\* sort_entries: folders first, then by name, or largest or newest first.
Order(mode) ==
    CASE mode = "name" -> <<"..", "d", "m", "n", "x", "y">>
      [] mode = "size" -> <<"..", "d", "m", "y", "x", "n">>
      [] mode = "modified" -> <<"..", "d", "m", "n", "y", "x">>
Sorted(names, mode) ==
    LET Item(i) == IF Order(mode)[i] \in names THEN <<Order(mode)[i]>> ELSE <<>>
    IN  Item(1) \o Item(2) \o Item(3) \o Item(4) \o Item(5) \o Item(6)

\* clamp_selection.
Clamped(b) ==
    [b EXCEPT !.row = IF b.entries = <<>> THEN 1
                      ELSE IF @ > Len(b.entries) THEN Len(b.entries) ELSE @]

\* get_sftp, and a connection that still answers.
Reachable(ses) == ses \in sftp /\ worker[ses] = "running"

\* sftp_list_dir with apply_listing_result, on the directories d; the server may refuse.
Listings(b, d) ==
    {Clamped([b EXCEPT !.entries = <<>>])} \cup
    (IF Reachable(b.ses)
     THEN {Clamped([b EXCEPT !.entries = Sorted(d[b.path], b.sort), !.from = b.path])} ELSE {})

\* Mutant: the listing is not taken again.
NotRefreshed(b, d) == {b}

\* sftp_refresh_current.
Refreshed(b, d) == Listings(b, d)

Entry(b) == b.entries[b.row]
HasEntry == browser.row <= Len(browser.entries)

Shown == surface = "sftp" /\ browser.ses # 0
Prompted == browser.mkdir # "none" \/ browser.rename # NoRename \/ browser.confirm # "none"
Browse == Event /\ Shown /\ UNCHANGED <<connecting, tracker, shown>>
View(b) == browser' = b /\ UNCHANGED dir

\* open_sftp_browser.
OpenBrowser(n) ==
    /\ Event /\ n \in Sessions
    /\ browser' \in Listings([NoBrowser EXCEPT !.ses = n], dir)
    /\ surface' = "sftp"
    /\ UNCHANGED <<connecting, tracker, recent, active, open, dir>>

\* close_sftp_browser.
CloseBrowser ==
    /\ Event /\ Shown
    /\ browser' = NoBrowser /\ surface' = "terminal"
    /\ UNCHANGED <<connecting, tracker, recent, active, open, dir>>

\* sftp_navigate, sftp_navigate_up.
NavigateTo(path) ==
    /\ browser' \in Refreshed([browser EXCEPT !.path = path, !.row = 1], dir)
    /\ UNCHANGED dir
NavigateUp == browser.path = "sub" /\ NavigateTo("top")

\* The breadcrumb, and the toolbar's Up and Refresh, work while a prompt is shown.
Breadcrumb == Browse /\ \E p \in {"top", browser.path} : NavigateTo(p)
Up == Browse /\ NavigateUp
Refresh == Browse /\ browser' \in Refreshed(browser, dir) /\ UNCHANGED dir

\* Enter, or a second click: a folder is opened; a file is downloaded, which changes
\* nothing here.
OpenEntry ==
    IF Entry(browser) = ".." THEN NavigateUp
    ELSE Entry(browser) \in Folders /\ NavigateTo("sub")
Enter == Browse /\ ~Prompted /\ HasEntry /\ OpenEntry
Backspace == Browse /\ ~Prompted /\ NavigateUp

\* up, down; the first click on a row, which works while a prompt is shown.
Move(step) ==
    /\ Browse /\ ~Prompted /\ browser.row + step \in 1 .. Len(browser.entries)
    /\ View([browser EXCEPT !.row = @ + step])
ClickRow(i) ==
    /\ Browse /\ i \in DOMAIN browser.entries
    /\ View([browser EXCEPT !.row = i])
DoubleClick ==
    /\ Browse /\ HasEntry /\ OpenEntry

\* s: the next sort mode.
Sort ==
    /\ Browse /\ ~Prompted
    /\ LET mode == CASE browser.sort = "name" -> "size" [] browser.sort = "size" -> "modified"
                     [] browser.sort = "modified" -> "name"
       IN View(Clamped([browser EXCEPT !.sort = mode,
                                       !.entries = Sorted(ToSet(@), mode)]))

\* delete, n and r, and the toolbar's pills, which work while a prompt is shown.
AskDelete == Browse /\ HasEntry /\ View([browser EXCEPT !.confirm = Entry(browser)])
AskMkdir == Browse /\ View([browser EXCEPT !.mkdir = ""])
AskRename ==
    /\ Browse /\ HasEntry
    /\ View([browser EXCEPT !.rename = [row |-> browser.row, text |-> Entry(browser)]])

\* A key in the topmost prompt: text, or the key that leaves it.
Typed(text) ==
    /\ Browse
    /\ IF browser.mkdir # "none" THEN View([browser EXCEPT !.mkdir = IF text = "" THEN "" ELSE "m"])
       ELSE browser.rename # NoRename /\ View([browser EXCEPT !.rename.text = text])
Dismiss ==
    /\ Browse /\ Prompted
    /\ View(IF browser.mkdir # "none" THEN [browser EXCEPT !.mkdir = "none"]
            ELSE IF browser.rename # NoRename THEN [browser EXCEPT !.rename = NoRename]
            ELSE [browser EXCEPT !.confirm = "none"])

\* What a call that changes the server's files leaves: it may be refused, and one about
\* the parent folder is.
Outcomes(name, d) == IF Reachable(browser.ses) /\ name # ".." THEN {d, dir} ELSE {dir}

\* y: sftp_delete_selected deletes the selected entry and lists again.
ConfirmDelete ==
    /\ Browse /\ browser.mkdir = "none" /\ browser.rename = NoRename
    /\ browser.confirm # "none" /\ HasEntry
    /\ dir' \in Outcomes(Entry(browser), [dir EXCEPT ![browser.from] = @ \ {Entry(browser)}])
    /\ browser' \in Refreshed([browser EXCEPT !.confirm = "none"], dir')

\* sftp_mkdir_confirm; an empty name is ignored.
ConfirmMkdir ==
    /\ Browse /\ browser.mkdir = "m"
    /\ dir' \in Outcomes("m", [dir EXCEPT ![browser.path] = @ \cup {"m"}])
    /\ browser' \in Refreshed([browser EXCEPT !.mkdir = "none"], dir')

\* sftp_rename_confirm renames the entry in the row the prompt was opened on.
ConfirmRename ==
    /\ Browse /\ browser.mkdir = "none" /\ browser.rename.row \in DOMAIN browser.entries
    /\ browser.rename.text # ""
    /\ LET old == browser.entries[browser.rename.row]
           kept == IF browser.from = browser.path THEN {old} ELSE {}
       IN dir' \in Outcomes(old, [dir EXCEPT ![browser.path] =
                                      (@ \ kept) \cup {browser.rename.text}])
    /\ browser' \in Refreshed([browser EXCEPT !.rename = NoRename], dir')

\* Another client of the server adds or removes a file.
OtherClient ==
    /\ Event /\ dir' = [dir EXCEPT !["top"] = IF "x" \in @ THEN @ \ {"x"} ELSE @ \cup {"x"}]
    /\ UNCHANGED <<connecting, tracker, shown, browser>>

BrowserEvent ==
    \/ CloseBrowser \/ Breadcrumb \/ Up \/ Refresh \/ Enter \/ Backspace \/ DoubleClick \/ Sort
    \/ AskDelete \/ AskMkdir \/ AskRename \/ Dismiss \/ ConfirmDelete \/ ConfirmMkdir
    \/ ConfirmRename \/ OtherClient
    \/ \E step \in {-1, 1} : Move(step)
    \/ \E i \in 1 .. Cardinality(Names) : ClickRow(i)
    \/ \E text \in {"", "n"} : Typed(text)

UserEvent ==
    \/ BrowserEvent \/ CloseWindow
    \/ \E h \in Hosts : StartConnect(h)
    \/ \E n \in Attempts : CancelConnect(n) \/ CloseSession(n) \/ OpenBrowser(n)
    \/ \E n \in Attempts \cup {0} : Select(n)

TaskStep(n) == Cancelled(n) \/ Expire(n) \/ Advance(n) \/ Connect(n)

Next ==
    \/ UserEvent
    \/ \E n \in Attempts : TaskStep(n) \/ Finish(n) \/ Complete(n) \/ WorkerEnds(n)

Spec == Init /\ [][Next]_vars

\* The runtime polls a task when it is cancelled or its timeout passes, and a finished
\* task's result reaches the main thread.  A server may never answer.
FairSpec ==
    Spec /\ \A n \in Attempts :
        WF_vars(Cancelled(n) \/ Expire(n)) /\ WF_vars(Finish(n)) /\ WF_vars(Complete(n))

-----------------------------------------------------------------------------
(***************************************************************************)
(* Properties.                                                             *)
(***************************************************************************)

\* Every variable keeps its type, and the selected row is a row of the listing
\* (clamp_selection).
TypeOK ==
    /\ task \in [Attempts ->
          [host : Hosts \cup {"none"}, auth : 0 .. MaxAuth, cancel : {"open", "fired", "closed"},
           st : Running \cup {"none", "resolved", "finished", "delivered"},
           res : {"none", "ok", "error", "timed_out", "cancelled"}]]
    /\ sftp \subseteq Attempts /\ worker \in [Attempts -> {"none", "running", "ended"}]
    /\ pending \subseteq Attempts /\ byHost \in [Hosts -> Attempts \cup {0}]
    /\ fg \in Attempts \cup {0} /\ active \in Attempts \cup {0}
    /\ recent \in Seq(Attempts \cup {0}) /\ surface \in {"terminal", "sftp"} /\ open \in BOOLEAN
    /\ browser.entries \in Seq(Names) /\ dir \in [Paths -> SUBSET Names]
    /\ browser.row \in 1 .. (IF browser.entries = <<>> THEN 1 ELSE Len(browser.entries))
    /\ events \in 0 .. MaxEvents

\* The two maps of the tracker agree, so a host row that says it is connecting can be
\* cancelled and a host that is not can be connected to again (ConnectAttemptTracker).
TrackerConsistent ==
    /\ \A n \in pending : byHost[task[n].host] = n
    /\ \A h \in Hosts : byHost[h] # 0 => byHost[h] \in pending /\ task[byHost[h]].host = h
    /\ fg # 0 => fg \in pending

\* What the user cancelled never opens, however late the cancellation met the connection
\* (cancel_connect_attempt, complete_connect_attempt).
CancelledNeverShown == \A n \in Attempts : task[n].cancel = "fired" => n \notin Sessions

\* A connect that failed, timed out or was cancelled in time leaves no SFTP session behind
\* (run_connect_future).
FailureLeavesNoSftp ==
    \A n \in Attempts :
        task[n].st \in {"finished", "delivered"} /\ task[n].res # "ok" => n \notin sftp

\* Every session the window lists has its SFTP session, and the browser is of such a
\* session (bootstrap_sftp, close_session).
SessionsHaveSftp ==
    /\ Sessions \subseteq sftp
    /\ browser.ses # 0 => browser.ses \in Sessions

\* However connecting, cancelling, timing out and closing interleave, in well-typed states:
\* the tracker, the sessions shown and the SFTP sessions kept fit together.
AttemptsSettle ==
    /\ TypeOK /\ TrackerConsistent
    /\ CancelledNeverShown /\ FailureLeavesNoSftp /\ SessionsHaveSftp

\* The entries are those of the path shown, so that what the browser deletes, renames or
\* creates is in the directory the user sees (sftp_navigate, sftp_refresh_current).
ListingIsOfPath == browser.entries # <<>> => browser.from = browser.path

\* No host stays busy: every attempt of an open window ends, although a server may never
\* answer (CONNECT_TIMEOUT).
AttemptsEnd == []<>(pending = {} \/ ~open)
=============================================================================
