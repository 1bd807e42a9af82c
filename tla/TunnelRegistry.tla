--------------------------- MODULE TunnelRegistry ---------------------------
(***************************************************************************)
(* Port forwards of the SSH manager (crates/seance-ssh/src/tunnel.rs,     *)
(* manager.rs): the registry of snapshots and cancel handles, the         *)
(* controller calls that start and stop a tunnel, and one task per start. *)
(*                                                                         *)
(* Controller calls are serialised by the AppController mutex; tasks run  *)
(* on the runtime's threads and take none of it.  Every lock of the       *)
(* registry is held for one step, so a task can act between the steps of  *)
(* a call.  A broadcast copies the snapshots under one lock and sends the *)
(* copy under another.                                                    *)
(*                                                                         *)
(* A task and the connections of a local forward share the SSH handle     *)
(* behind an asynchronous mutex, which a connection holds while it waits  *)
(* for the server to open its channel and the task holds while it         *)
(* disconnects.                                                           *)
(*                                                                         *)
(* Byte counts, endpoints and the text of the last error are left out.     *)
(***************************************************************************)
EXTENDS Integers, FiniteSets

CONSTANTS Ids,    \* tunnel scope keys
          Tasks,  \* bound: start calls in a behaviour, one task each
          Remote, \* the tasks of remote forwards
          Conns,  \* connections a task can accept
          MaxConns,  \* bound: connections accepted by all tasks
          None    \* no task

ASSUME NoneAssumption == None \notin Tasks
ASSUME MaxConnsAssumption == MaxConns \in Nat
ASSUME RemoteAssumption == Remote \subseteq Tasks

VARIABLES
    snapshots,  \* PortForwardRuntimeSnapshot by id; status "absent" when not in the map
    handles,    \* the task whose cancel sender the registry holds, by id
    cancelled,  \* tasks whose cancel sender was used or dropped
    call,       \* the controller call in progress
    pc,         \* where each task is
    target,     \* the id each task was started for
    ended,      \* how run_port_forward returned
    conn,       \* connections of each task
    stage,      \* where each actor is in a broadcast
    copy,       \* the list each actor is about to send
    view        \* what the subscriber received last

vars == <<snapshots, handles, cancelled, call, pc, target, ended, conn, stage, copy, view>>

\* Who runs registry code: the controller, a tunnel task, a connection's task.
Controller == <<>>
Task(t) == <<t>>
Actors == {Controller} \cup {Task(t) : t \in Tasks} \cup (Tasks \X Conns)

Absent == [status |-> "absent", active |-> 0]
Starting == [status |-> "starting", active |-> 0]
Idle == [op |-> "idle", id |-> None, task |-> None]

Quiet(a) == stage[a] = "none"

Init ==
    /\ snapshots = [i \in Ids |-> Absent]
    /\ handles = [i \in Ids |-> None]
    /\ cancelled = {}
    /\ call = Idle
    /\ pc = [t \in Tasks |-> "unused"]
    /\ target = [t \in Tasks |-> None]
    /\ ended = [t \in Tasks |-> "no"]
    /\ conn = [c \in Tasks \X Conns |-> "unused"]
    /\ stage = [a \in Actors |-> "none"]
    /\ copy = [a \in Actors |-> snapshots]
    /\ view = snapshots

---------------------------------------------------------------------------
\* The registry

\* update: change the snapshot if it is there; broadcast in any case.
Update(a, i, snap) ==
    /\ snapshots' = IF snapshots[i].status = "absent" THEN snapshots
                    ELSE [snapshots EXCEPT ![i] = snap]
    /\ stage' = [stage EXCEPT ![a] = "list"]

\* insert or remove, then broadcast.
Set(a, i, snap) ==
    /\ snapshots' = [snapshots EXCEPT ![i] = snap]
    /\ stage' = [stage EXCEPT ![a] = "list"]

\* Mutant: the sender taken out of the map is kept alive.
DropKept(i) ==
    /\ handles' = [handles EXCEPT ![i] = None]
    /\ UNCHANGED cancelled

\* Taking a handle out of the map sends on its sender or drops it; either way
\* the task's stop_rx completes.
DropHandle(i) ==
    /\ handles' = [handles EXCEPT ![i] = None]
    /\ cancelled' = IF handles[i] = None THEN cancelled ELSE cancelled \cup {handles[i]}

\* saturating_sub
Less(n) == IF n = 0 THEN 0 ELSE n - 1

\* broadcast: copy the snapshots ...
ListSnapshots(a) ==
    /\ stage[a] = "list"
    /\ copy' = [copy EXCEPT ![a] = snapshots]
    /\ stage' = [stage EXCEPT ![a] = "send"]
    /\ UNCHANGED <<snapshots, handles, cancelled, call, pc, target, ended, conn, view>>

\* ... then send the copy to the subscribers.
SendSnapshots(a) ==
    /\ stage[a] = "send"
    /\ view' = copy[a]
    /\ copy' = [copy EXCEPT ![a] = [i \in Ids |-> Absent]]
    /\ stage' = [stage EXCEPT ![a] = "none"]
    /\ UNCHANGED <<snapshots, handles, cancelled, call, pc, target, ended, conn>>

---------------------------------------------------------------------------
\* Controller calls

\* start_port_forward: refused while the id has a handle.
StartCheck(i, t) ==
    /\ call = Idle /\ Quiet(Controller)
    /\ handles[i] = None
    /\ pc[t] = "unused"
    /\ call' = [op |-> "upsert", id |-> i, task |-> t]
    /\ UNCHANGED <<snapshots, handles, cancelled, pc, target, ended, conn, stage, copy, view>>

StartUpsert ==
    /\ call.op = "upsert"
    /\ Set(Controller, call.id, Starting)
    /\ call' = [call EXCEPT !.op = "insert"]
    /\ UNCHANGED <<handles, cancelled, pc, target, ended, conn, copy, view>>

\* insert_handle and the spawn of the task.
StartInsert ==
    /\ call.op = "insert" /\ Quiet(Controller)
    /\ handles[call.id] = None
    /\ handles' = [handles EXCEPT ![call.id] = call.task]
    /\ target' = [target EXCEPT ![call.task] = call.id]
    /\ pc' = [pc EXCEPT ![call.task] = "connecting"]
    /\ call' = Idle
    /\ UNCHANGED <<snapshots, cancelled, ended, conn, stage, copy, view>>

\* stop: a handle is taken out and aborted.
StopHandle(i) ==
    /\ call = Idle /\ Quiet(Controller)
    /\ handles[i] # None
    /\ DropHandle(i)
    /\ UNCHANGED <<snapshots, call, pc, target, ended, conn, stage, copy, view>>

\* stop without a handle goes on to the snapshot.
StopCheck(i) ==
    /\ call = Idle /\ Quiet(Controller)
    /\ handles[i] = None
    /\ snapshots[i].status # "absent"
    /\ call' = [op |-> "remove", id |-> i, task |-> None]
    /\ UNCHANGED <<snapshots, handles, cancelled, pc, target, ended, conn, stage, copy, view>>

StopSnapshot ==
    /\ call.op = "remove"
    /\ IF snapshots[call.id].status = "absent"
       THEN UNCHANGED <<snapshots, stage>>
       ELSE Set(Controller, call.id, Absent)
    /\ call' = Idle
    /\ UNCHANGED <<handles, cancelled, pc, target, ended, conn, copy, view>>

---------------------------------------------------------------------------
\* A task: connect, run until stopped or broken, clean up.

\* Connected, authenticated, listening: mark_running.  stop_rx is not polled
\* before this.
TaskRunning(t) ==
    /\ pc[t] = "connecting"
    /\ Update(Task(t), target[t], [snapshots[target[t]] EXCEPT !.status = "running"])
    /\ pc' = [pc EXCEPT ![t] = "running"]
    /\ UNCHANGED <<handles, cancelled, call, target, ended, conn, copy, view>>

\* The connection, the listener or the forwarded channel fails.
TaskFails(t) ==
    /\ pc[t] \in {"connecting", "running"} /\ Quiet(Task(t))
    /\ pc' = [pc EXCEPT ![t] = "cleanup"]
    /\ ended' = [ended EXCEPT ![t] = "error"]
    /\ UNCHANGED <<snapshots, handles, cancelled, call, target, conn, stage, copy, view>>

\* The lock of the SSH handle: nobody waits for the server while holding it.
HandleFree(t) ==
    /\ pc[t] # "disconnecting"
    /\ \A c \in Conns : conn[<<t, c>>] # "opening"

\* Mutant: the loop ends only while the tunnel is shown as running.
TaskStopsIfShown(t) ==
    /\ pc[t] = "running" /\ Quiet(Task(t))
    /\ t \in cancelled
    /\ snapshots[target[t]].status = "running"
    /\ pc' = [pc EXCEPT ![t] = "closing"]
    /\ ended' = [ended EXCEPT ![t] = "ok"]
    /\ UNCHANGED <<snapshots, handles, cancelled, call, target, conn, stage, copy, view>>

\* The select loop sees stop_rx, accepts nothing more and asks for the handle ...
TaskStops(t) ==
    /\ pc[t] = "running" /\ Quiet(Task(t))
    /\ t \in cancelled
    /\ pc' = [pc EXCEPT ![t] = "closing"]
    /\ ended' = [ended EXCEPT ![t] = "ok"]
    /\ UNCHANGED <<snapshots, handles, cancelled, call, target, conn, stage, copy, view>>

\* ... gets it when no connection holds it ...
TaskLocks(t) ==
    /\ pc[t] = "closing"
    /\ HandleFree(t)
    /\ pc' = [pc EXCEPT ![t] = "disconnecting"]
    /\ UNCHANGED <<snapshots, handles, cancelled, call, target, ended, conn, stage, copy, view>>

\* ... and comes back from cancel_tcpip_forward and disconnect, whose errors are
\* dropped.  Both wait for the SSH session.
TaskDisconnected(t) ==
    /\ pc[t] = "disconnecting"
    /\ pc' = [pc EXCEPT ![t] = "cleanup"]
    /\ UNCHANGED <<snapshots, handles, cancelled, call, target, ended, conn, stage, copy, view>>

\* remove_handle(id), whosever handle it is.
TaskRemovesHandle(t) ==
    /\ pc[t] = "cleanup"
    /\ DropHandle(target[t])
    /\ pc' = [pc EXCEPT ![t] = "report"]
    /\ UNCHANGED <<snapshots, call, target, ended, conn, stage, copy, view>>

\* remove_snapshot(id) or mark_failed(id).
TaskReports(t) ==
    /\ pc[t] = "report"
    /\ IF ended[t] = "ok"
       THEN Set(Task(t), target[t], Absent)
       ELSE Update(Task(t), target[t], [status |-> "failed", active |-> 0])
    /\ pc' = [pc EXCEPT ![t] = "done"]
    /\ UNCHANGED <<handles, cancelled, call, target, ended, conn, copy, view>>

\* The select loop accepts a connection and spawns a task for it.
ConnAccepted(t, c) ==
    /\ pc[t] = "running" /\ Quiet(Task(t))
    /\ conn[<<t, c>>] = "unused"
    /\ Cardinality({x \in Tasks \X Conns : conn[x] # "unused"}) < MaxConns
    /\ conn' = [conn EXCEPT ![<<t, c>>] = "spawned"]
    /\ UNCHANGED <<snapshots, handles, cancelled, call, pc, target, ended, stage, copy, view>>

\* The connection's task calls connection_opened, whenever it gets to run.
ConnOpened(t, c) ==
    /\ conn[<<t, c>>] = "spawned"
    /\ Update(<<t, c>>, target[t], [snapshots[target[t]] EXCEPT !.active = @ + 1])
    /\ conn' = [conn EXCEPT ![<<t, c>>] = "waiting"]
    /\ UNCHANGED <<handles, cancelled, call, pc, target, ended, copy, view>>

\* Local: it gets the handle and asks the server for a channel.
ConnLocks(t, c) ==
    /\ t \notin Remote
    /\ conn[<<t, c>>] = "waiting" /\ Quiet(<<t, c>>)
    /\ HandleFree(t)
    /\ conn' = [conn EXCEPT ![<<t, c>>] = "opening"]
    /\ UNCHANGED <<snapshots, handles, cancelled, call, pc, target, ended, stage, copy, view>>

\* The channel is opened or refused and the handle let go; in a remote forward,
\* the target accepts the connection or does not.
ConnAnswered(t, c) ==
    /\ conn[<<t, c>>] = IF t \in Remote THEN "waiting" ELSE "opening"
    /\ Quiet(<<t, c>>)
    /\ conn' = [conn EXCEPT ![<<t, c>>] = "open"]
    /\ UNCHANGED <<snapshots, handles, cancelled, call, pc, target, ended, stage, copy, view>>

\* record_bytes_in, record_bytes_out and note_error: counters and text are left
\* out, the broadcast is not.
ConnTraffic(t, c) ==
    /\ conn[<<t, c>>] = "open" /\ Quiet(<<t, c>>)
    /\ Update(<<t, c>>, target[t], snapshots[target[t]])
    /\ UNCHANGED <<handles, cancelled, call, pc, target, ended, conn, copy, view>>

\* Mutant: the connection ends without connection_closed.
ConnLeaks(t, c) ==
    /\ conn[<<t, c>>] = "open" /\ Quiet(<<t, c>>)
    /\ conn' = [conn EXCEPT ![<<t, c>>] = "closed"]
    /\ UNCHANGED <<snapshots, handles, cancelled, call, pc, target, ended, stage, copy, view>>

\* Proxying ends or never began, with an error noted or not, whatever became of
\* the tunnel.
ConnClosed(t, c) ==
    /\ conn[<<t, c>>] = "open" /\ Quiet(<<t, c>>)
    /\ Update(<<t, c>>, target[t], [snapshots[target[t]] EXCEPT !.active = Less(@)])
    /\ conn' = [conn EXCEPT ![<<t, c>>] = "closed"]
    /\ UNCHANGED <<handles, cancelled, call, pc, target, ended, copy, view>>

---------------------------------------------------------------------------
Broadcast(a) == ListSnapshots(a) \/ SendSnapshots(a)

ControllerStep == StartUpsert \/ StartInsert \/ StopSnapshot

TaskStep(t) ==
    \/ TaskStops(t)
    \/ TaskLocks(t)
    \/ TaskRemovesHandle(t)
    \/ TaskReports(t)

Next ==
    \/ \E i \in Ids : StopHandle(i) \/ StopCheck(i) \/ \E t \in Tasks : StartCheck(i, t)
    \/ ControllerStep
    \/ \E t \in Tasks :
          \/ TaskStep(t)
          \/ TaskRunning(t)
          \/ TaskFails(t)
          \/ TaskDisconnected(t)
          \/ \E c \in Conns :
                \/ ConnAccepted(t, c)
                \/ ConnOpened(t, c)
                \/ ConnLocks(t, c)
                \/ ConnAnswered(t, c)
                \/ ConnTraffic(t, c)
                \/ ConnClosed(t, c)
    \/ \E a \in Actors : Broadcast(a)

Spec == Init /\ [][Next]_vars

\* A task goes on once its select loop can, and with it its broadcasts.  A task
\* waiting for the handle gets it in its turn: tokio's mutex is first come, first
\* served.  Nothing is assumed of what waits for the server or the peers
\* (connecting, authenticating, opening a channel, disconnecting, proxying), nor
\* of the calls and the connections' broadcasts, which no property needs.
Fairness ==
    \A t \in Tasks : WF_vars(TaskStep(t)) /\ SF_vars(TaskLocks(t)) /\ WF_vars(Broadcast(Task(t)))

FairSpec == Spec /\ Fairness

---------------------------------------------------------------------------
\* Properties

Statuses == {"absent", "starting", "running", "failed"}
SnapshotType == [status : Statuses, active : Nat]
PCs == {"unused", "connecting", "running", "closing", "disconnecting", "cleanup", "report", "done"}
ConnStates == {"unused", "spawned", "waiting", "opening", "open", "closed"}

\* The registry and every actor are in one of their states.
TypeOK ==
    /\ snapshots \in [Ids -> SnapshotType]
    /\ handles \in [Ids -> Tasks \cup {None}]
    /\ cancelled \subseteq Tasks
    /\ call.op \in {"idle", "upsert", "insert", "remove"}
    /\ pc \in [Tasks -> PCs]
    /\ ended \in [Tasks -> {"no", "ok", "error"}]
    /\ conn \in [Tasks \X Conns -> ConnStates]
    /\ stage \in [Actors -> {"none", "list", "send"}]
    /\ view \in [Ids -> SnapshotType]

Live(t) == pc[t] \in {"connecting", "running"}

\* A tunnel that nobody has stopped can be stopped: its handle is in the
\* registry, although an older task of the same id removes handles by id.
RunningIsStoppable ==
    \A t \in Tasks : Live(t) /\ t \notin cancelled => handles[target[t]] = t

OpenConns(i) ==
    {c \in Tasks \X Conns : conn[c] \in {"waiting", "opening", "open"} /\ target[c[1]] = i}

\* The count shown never exceeds the connections being served, however old
\* connections outlive their tunnel, a restart or a failure of it.
NoPhantomConnections ==
    \A i \in Ids : snapshots[i].active <= Cardinality(OpenConns(i))

AllOver ==
    /\ call = Idle
    /\ \A t \in Tasks : pc[t] \in {"unused", "done"}

\* When every task has ended, no tunnel is shown as starting or running.
NoGhostTunnel ==
    AllOver => \A i \in Ids : snapshots[i].status \in {"absent", "failed"}

\* What the list of tunnels shows is real, in well-typed states: no connection
\* and no running tunnel that does not exist.
ViewIsHonest == TypeOK /\ NoPhantomConnections /\ NoGhostTunnel

\* What a stopped task can wait for without end: the SSH session it disconnects,
\* or the channel a connection asked for before it, handle in hand.
AwaitsServer(t) ==
    \/ pc[t] = "disconnecting"
    \/ pc[t] = "closing" /\ ~HandleFree(t)

\* A running tunnel that was stopped ends and cleans up, whatever became of its
\* snapshot in the meantime and however its connections pass the handle round;
\* only a server that never answers keeps it.
StoppedEnds ==
    \A t \in Tasks :
        (t \in cancelled /\ pc[t] = "running") ~> (pc[t] = "done" \/ []AwaitsServer(t))
=============================================================================
