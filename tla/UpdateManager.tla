--------------------------- MODULE UpdateManager ---------------------------
(***************************************************************************)
(* The updater (seance-updater/src/lib.rs): one state shared by all        *)
(* windows, threads that check and install, and a channel to every window  *)
(* that subscribed.  publish stores the state under one mutex and sends it *)
(* under another, so the two halves of it are two steps here, and the      *)
(* halves of two threads interleave.  Every window's watcher drains its    *)
(* channel and keeps only the newest state, so a channel is that state or  *)
(* nothing.                                                                *)
(***************************************************************************)
EXTENDS Naturals

CONSTANTS Windows,  \* the windows that may be opened, each once
          MaxJobs   \* how many check and install threads may run at a time

VARIABLES ustate,   \* UpdateManagerInner.state
          pend,     \* per thread, the state it has stored and not yet sent
          jobs,     \* per thread slot, what it runs and how far it is
          subs,     \* the windows whose sender is in subscribers
          uq,       \* per window, the newest state in its channel
          missed    \* ghost: the windows a send has passed by as they subscribed

uvars == <<ustate, pend, jobs, subs, uq, missed>>

UpdateStates == {"idle", "checking", "available", "downloading", "installing",
                 "ready", "uptodate", "failed"}
Nothing == "nothing"
Jobs == 1..MaxJobs
UiThread == 0
Threads == Jobs \cup {UiThread}

IdleJob == [kind |-> "none", step |-> 0]
FreeJobs == {j \in Jobs : jobs[j] = IdleJob /\ pend[j] = Nothing}

UTypeOK ==
    /\ ustate \in UpdateStates
    /\ pend \in [Threads -> UpdateStates \cup {Nothing}]
    /\ jobs \in [Jobs -> [kind : {"none", "check", "silent", "install"}, step : 0..3]]
    /\ subs \subseteq Windows
    /\ uq \in [Windows -> UpdateStates \cup {Nothing}]
    /\ missed \subseteq Windows

(* startup_check: with automatic checks on, a silent check thread is        *)
(* already running when the first window opens.                             *)
UInit(autoCheck, s) ==
    /\ ustate = s
    /\ pend = [t \in Threads |-> Nothing]
    /\ jobs = [j \in Jobs |-> IF j = 1 /\ autoCheck
                              THEN [kind |-> "silent", step |-> 0] ELSE IdleJob]
    /\ subs = {}
    /\ uq = [w \in Windows |-> Nothing]
    /\ missed = {}

(* The first half of publish: the state is stored. *)
Store(t, s) == ustate' = s /\ pend' = [pend EXCEPT ![t] = s]

(* The second half: the state goes to every subscriber.  A window between   *)
(* its snapshot and its place among the subscribers does not get it; passed *)
(* are the windows that this leaves behind.                                 *)
Send(t, passed) ==
    /\ pend[t] # Nothing
    /\ pend' = [pend EXCEPT ![t] = Nothing]
    /\ uq' = [w \in Windows |-> IF w \in subs THEN pend[t] ELSE uq[w]]
    /\ missed' = (missed \ subs) \cup passed
    /\ UNCHANGED <<ustate, jobs, subs>>

(* A thread is started; it has not run yet. *)
StartJob(kind) ==
    /\ \E j \in FreeJobs : jobs' = [jobs EXCEPT ![j] = [kind |-> kind, step |-> 0]]
    /\ UNCHANGED <<ustate, pend, subs, uq, missed>>

(* install_update on the interface's thread: a thread for an available     *)
(* update, nothing once it is ready, and a failure published otherwise.    *)
InstallUpdate ==
    CASE ustate = "available" -> StartJob("install")
      [] ustate = "ready" -> UNCHANGED uvars
      [] OTHER -> Store(UiThread, "failed") /\ UNCHANGED <<jobs, subs, uq, missed>>

(* dismiss_update. *)
DismissUpdate == Store(UiThread, "idle") /\ UNCHANGED <<jobs, subs, uq, missed>>

(* A thread's own step: it stores s, and is at step n, or ends at n = 0. *)
Advance(j, s, n) ==
    /\ Store(j, s)
    /\ jobs' = [jobs EXCEPT ![j] = IF n = 0 THEN IdleJob ELSE [@ EXCEPT !.step = n]]
    /\ UNCHANGED <<subs, uq, missed>>

(* Mutant: a silent check that fails publishes nothing. *)
SilentResultsLost(kind) ==
    IF kind = "silent" THEN {"uptodate", "available", "checking"}
    ELSE {"uptodate", "available", "failed"}

(* What a finished check publishes: a failed silent check goes back to idle. *)
CheckResults(kind) == {"uptodate", "available", IF kind = "silent" THEN "idle" ELSE "failed"}

(* The thread of check_internal. *)
CheckStep(j) ==
    /\ jobs[j].kind \in {"check", "silent"} /\ pend[j] = Nothing
    /\ \/ jobs[j].step = 0 /\ Advance(j, "checking", 1)
       \/ jobs[j].step = 1 /\ \E s \in CheckResults(jobs[j].kind) : Advance(j, s, 0)

(* The thread of install_update with the two backends: the AppImage one     *)
(* publishes ready itself, the Sparkle one leaves it to the thread.         *)
InstallStep(j) ==
    /\ jobs[j].kind = "install" /\ pend[j] = Nothing
    /\ \/ jobs[j].step = 0 /\ Advance(j, "downloading", 1)
       \/ jobs[j].step = 1 /\ Advance(j, "installing", 2)
       \/ jobs[j].step \in 1..2 /\ Advance(j, "failed", 0)
       \/ jobs[j].step = 2 /\ Advance(j, "ready", 3)
       \/ jobs[j].step \in 2..3 /\ ustate # "ready" /\ Advance(j, "ready", 0)
       \/ /\ jobs[j].step \in 2..3 /\ ustate = "ready"
          /\ jobs' = [jobs EXCEPT ![j] = IdleJob]
          /\ UNCHANGED <<ustate, pend, subs, uq, missed>>
=============================================================================
