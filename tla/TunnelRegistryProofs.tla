-------------------------- MODULE TunnelRegistryProofs --------------------------
(* What the list of tunnels shows is real and a live tunnel can be stopped, for    *)
(* any number of tunnels, starts and connections.  A task of an earlier start acts *)
(* on the snapshot and the handle of a later one by id, so the invariant ties each *)
(* to the tasks that can still touch it: a shown tunnel has a task or a call that  *)
(* will take it away, and a task that was never started has no connections.        *)
EXTENDS TunnelRegistry, TLAPS, FiniteSetTheorems

Calls == {Idle} \union [op : {"upsert", "insert"}, id : Ids, task : Tasks]
         \union [op : {"remove"}, id : Ids, task : {None}]

(* The state a behaviour can reach, beyond TypeOK.                                 *)
Typed ==
  /\ TypeOK
  /\ call \in Calls
  /\ target \in [Tasks -> Ids \union {None}]
  /\ copy \in [Actors -> [Ids -> SnapshotType]]

(* A task that was started has an id; one that was not has no connections, and a   *)
(* start call holds such a task.                                                   *)
Started ==
  /\ \A t \in Tasks : pc[t] # "unused" => target[t] \in Ids
  /\ \A t \in Tasks, c \in Conns : conn[<<t, c>>] # "unused" => pc[t] # "unused"
  /\ call.op \in {"upsert", "insert"} => pc[call.task] = "unused"

(* A tunnel shown as starting or running has a task that will report its end, or   *)
(* the call that is about to start one.                                            *)
Backed ==
  \A i \in Ids : snapshots[i].status \in {"starting", "running"} =>
    \/ call.op = "insert" /\ call.id = i
    \/ \E t \in Tasks : target[t] = i /\ pc[t] \in {"connecting", "running", "closing", "disconnecting", "cleanup", "report"}

(* An absent snapshot counts nothing, and finitely many connections were accepted. *)
Counted ==
  /\ \A i \in Ids : snapshots[i].status = "absent" => snapshots[i].active = 0
  /\ IsFiniteSet({x \in Tasks \X Conns : conn[x] # "unused"})

TunnelInv == Typed /\ Started /\ RunningIsStoppable /\ Backed /\ Counted /\ NoPhantomConnections

---------------------------------------------------------------------------
(* What the registry's operations leave behind.                                    *)

LEMMA UpdateEffect ==
  ASSUME snapshots \in [Ids -> SnapshotType], NEW a, NEW i \in Ids, NEW snap \in SnapshotType,
         Update(a, i, snap)
  PROVE  /\ snapshots' \in [Ids -> SnapshotType]
         /\ \A j \in Ids : j # i => snapshots'[j] = snapshots[j]
         /\ snapshots'[i] = IF snapshots[i].status = "absent" THEN snapshots[i] ELSE snap
  BY DEF Update

LEMMA SetEffect ==
  ASSUME snapshots \in [Ids -> SnapshotType], NEW a, NEW i \in Ids, NEW snap \in SnapshotType,
         Set(a, i, snap)
  PROVE  /\ snapshots' \in [Ids -> SnapshotType]
         /\ \A j \in Ids : j # i => snapshots'[j] = snapshots[j]
         /\ snapshots'[i] = snap
  BY DEF Set

(* What a task makes of the snapshot of its id.                                    *)
LEMMA TaskSnapshots ==
  ASSUME Typed, Started, NEW t \in Tasks, TaskRunning(t) \/ TaskReports(t)
  PROVE  /\ target[t] \in Ids
         /\ snapshots' \in [Ids -> SnapshotType]
         /\ \A j \in Ids : j # target[t] => snapshots'[j] = snapshots[j]
         /\ \/ snapshots'[target[t]] = snapshots[target[t]] /\ snapshots[target[t]].status = "absent"
            \/ TaskRunning(t) /\ snapshots'[target[t]].active = snapshots[target[t]].active
                /\ snapshots'[target[t]].status = "running"
            \/ snapshots'[target[t]] = Absent
            \/ snapshots'[target[t]] = [status |-> "failed", active |-> 0]
<1>1. target[t] \in Ids /\ snapshots[target[t]] \in SnapshotType /\ snapshots \in [Ids -> SnapshotType]
  BY DEF TaskRunning, TaskReports, Started, Typed, TypeOK
<1>2. CASE TaskRunning(t)
  <2> DEFINE s == [snapshots[target[t]] EXCEPT !.status = "running"]
  <2>1. s \in SnapshotType /\ s.active = snapshots[target[t]].active /\ s.status = "running"
    BY <1>1 DEF SnapshotType, Statuses
  <2>2. Update(Task(t), target[t], s)
    BY <1>2 DEF TaskRunning
  <2> HIDE DEF s
  <2>3. QED BY <1>1, <1>2, <2>1, <2>2, UpdateEffect
<1>3. CASE TaskReports(t)
  <2> DEFINE s == [status |-> "failed", active |-> 0]
  <2>1. s \in SnapshotType /\ Absent \in SnapshotType
    BY DEF SnapshotType, Statuses, Absent
  <2>2. Update(Task(t), target[t], s) \/ Set(Task(t), target[t], Absent)
    BY <1>3 DEF TaskReports
  <2> HIDE DEF s
  <2>3. CASE Update(Task(t), target[t], s)
    <3>1. /\ snapshots' \in [Ids -> SnapshotType]
          /\ \A j \in Ids : j # target[t] => snapshots'[j] = snapshots[j]
          /\ snapshots'[target[t]] = IF snapshots[target[t]].status = "absent" THEN snapshots[target[t]] ELSE s
      BY <1>1, <2>1, <2>3, UpdateEffect
    <3>2. QED BY <1>1, <3>1 DEF s
  <2>4. CASE Set(Task(t), target[t], Absent)
    <3>1. /\ snapshots' \in [Ids -> SnapshotType]
          /\ \A j \in Ids : j # target[t] => snapshots'[j] = snapshots[j]
          /\ snapshots'[target[t]] = Absent
      BY <1>1, <2>1, <2>4, SetEffect
    <3>2. QED BY <1>1, <3>1
  <2>5. QED BY <2>2, <2>3, <2>4
<1>4. QED BY <1>2, <1>3

(* What a connection makes of the snapshot of its task's id.                       *)
LEMMA ConnSnapshots ==
  ASSUME Typed, Started, NEW t \in Tasks, NEW c \in Conns,
         ConnOpened(t, c) \/ ConnTraffic(t, c) \/ ConnClosed(t, c)
  PROVE  /\ target[t] \in Ids
         /\ snapshots' \in [Ids -> SnapshotType]
         /\ \A j \in Ids : j # target[t] => snapshots'[j] = snapshots[j]
         /\ snapshots'[target[t]].status = snapshots[target[t]].status
         /\ \/ snapshots'[target[t]] = snapshots[target[t]]
                /\ (ConnTraffic(t, c) \/ snapshots[target[t]].status = "absent")
            \/ ConnOpened(t, c) /\ snapshots'[target[t]].active = snapshots[target[t]].active + 1
                /\ snapshots[target[t]].status # "absent"
            \/ ConnClosed(t, c) /\ snapshots'[target[t]].active = Less(snapshots[target[t]].active)
                /\ snapshots[target[t]].status # "absent"
<1>1. target[t] \in Ids /\ snapshots[target[t]] \in SnapshotType /\ snapshots \in [Ids -> SnapshotType]
  BY DEF ConnOpened, ConnTraffic, ConnClosed, Started, Typed, TypeOK
<1>2. CASE ConnOpened(t, c)
  <2> DEFINE s == [snapshots[target[t]] EXCEPT !.active = @ + 1]
  <2>1. s \in SnapshotType /\ s.status = snapshots[target[t]].status /\ s.active = snapshots[target[t]].active + 1
    BY <1>1 DEF SnapshotType
  <2>2. Update(<<t, c>>, target[t], s)
    BY <1>2 DEF ConnOpened
  <2> HIDE DEF s
  <2>3. QED BY <1>1, <1>2, <2>1, <2>2, UpdateEffect
<1>3. CASE ConnClosed(t, c)
  <2> DEFINE s == [snapshots[target[t]] EXCEPT !.active = Less(@)]
  <2>1. s \in SnapshotType /\ s.status = snapshots[target[t]].status /\ s.active = Less(snapshots[target[t]].active)
    BY <1>1 DEF SnapshotType, Less
  <2>2. Update(<<t, c>>, target[t], s)
    BY <1>3 DEF ConnClosed
  <2> HIDE DEF s
  <2>3. QED BY <1>1, <1>3, <2>1, <2>2, UpdateEffect
<1>4. CASE ConnTraffic(t, c)
  BY <1>1, <1>4, UpdateEffect DEF ConnTraffic
<1>5. QED BY <1>2, <1>3, <1>4

(* A task on its way out, and a connection waiting for its peer, touch nothing of  *)
(* the registry.                                                                   *)
LEMMA TaskLeaves ==
  ASSUME Typed, NEW t \in Tasks,
         TaskStops(t) \/ TaskFails(t) \/ TaskLocks(t) \/ TaskDisconnected(t)
  PROVE  /\ pc[t] \in {"connecting", "running", "closing", "disconnecting"}
         /\ \/ pc' = [pc EXCEPT ![t] = "closing"]
            \/ pc' = [pc EXCEPT ![t] = "disconnecting"]
            \/ pc' = [pc EXCEPT ![t] = "cleanup"]
         /\ ended' \in [Tasks -> {"no", "ok", "error"}]
         /\ UNCHANGED <<snapshots, handles, cancelled, call, target, conn, stage, copy, view>>
  BY DEF TaskStops, TaskFails, TaskLocks, TaskDisconnected, Typed, TypeOK

LEMMA ConnProceeds ==
  ASSUME NEW t \in Tasks, NEW c \in Conns, ConnLocks(t, c) \/ ConnAnswered(t, c)
  PROVE  /\ conn[<<t, c>>] \in {"waiting", "opening"}
         /\ conn' = [conn EXCEPT ![<<t, c>>] = "opening"] \/ conn' = [conn EXCEPT ![<<t, c>>] = "open"]
         /\ UNCHANGED <<snapshots, handles, cancelled, call, pc, target, ended, stage, copy, view>>
  BY DEF ConnLocks, ConnAnswered

---------------------------------------------------------------------------
(* Types and the tasks that were started.                                          *)

LEMMA TypedInit == Init => Typed /\ Started
<1> SUFFICES ASSUME Init PROVE Typed /\ Started
  OBVIOUS
<1>1. Absent \in SnapshotType /\ snapshots \in [Ids -> SnapshotType]
  BY DEF Init, Absent, SnapshotType, Statuses
<1>2. TypeOK
  BY <1>1 DEF Init, TypeOK, PCs, ConnStates, Idle
<1>3. Typed
  BY <1>1, <1>2 DEF Init, Typed, Calls
<1>4. Started
  BY DEF Init, Started, Idle
<1>5. QED BY <1>3, <1>4

(* The steps of the controller.                                                    *)
LEMMA TypedController ==
  ASSUME Typed, Started,
         \/ \E i \in Ids : StopHandle(i) \/ StopCheck(i) \/ \E t \in Tasks : StartCheck(i, t)
         \/ ControllerStep
  PROVE  Typed' /\ Started'
<1>a. Absent \in SnapshotType /\ Starting \in SnapshotType
  BY DEF SnapshotType, Statuses, Absent, Starting
<1>1. ASSUME NEW i \in Ids, StopHandle(i) PROVE Typed' /\ Started'
  BY <1>1 DEF StopHandle, DropHandle, Typed, TypeOK, Started
<1>2. ASSUME NEW i \in Ids, StopCheck(i) PROVE Typed' /\ Started'
  BY <1>2 DEF StopCheck, Typed, TypeOK, Started, Calls
<1>3. ASSUME NEW i \in Ids, NEW t \in Tasks, StartCheck(i, t) PROVE Typed' /\ Started'
  BY <1>3 DEF StartCheck, Typed, TypeOK, Started, Calls
<1>4. CASE StartUpsert
  <2>1. call.id \in Ids /\ call.task \in Tasks /\ call' = [op |-> "insert", id |-> call.id, task |-> call.task]
    BY <1>4 DEF StartUpsert, Typed, Calls, Idle
  <2>2. QED BY <1>a, <1>4, <2>1, SetEffect DEF StartUpsert, Set, Typed, TypeOK, Started, Calls
<1>5. CASE StartInsert
  <2>1. call.id \in Ids /\ call.task \in Tasks
    BY <1>5 DEF StartInsert, Typed, Calls, Idle
  <2>2. QED BY <1>5, <2>1 DEF StartInsert, Typed, TypeOK, Started, Calls, Idle, PCs
<1>6. CASE StopSnapshot
  <2>1. call.id \in Ids
    BY <1>6 DEF StopSnapshot, Typed, Calls, Idle
  <2>2. snapshots' \in [Ids -> SnapshotType] /\ stage' \in [Actors -> {"none", "list", "send"}]
    BY <1>a, <1>6, <2>1, SetEffect DEF StopSnapshot, Set, Typed, TypeOK
  <2>3. QED BY <1>6, <2>2 DEF StopSnapshot, Typed, TypeOK, Started, Calls, Idle
<1>7. QED BY <1>1, <1>2, <1>3, <1>4, <1>5, <1>6 DEF ControllerStep

(* The steps of a task.                                                            *)
LEMMA TypedTask ==
  ASSUME Typed, Started, NEW t \in Tasks,
         TaskStep(t) \/ TaskRunning(t) \/ TaskFails(t) \/ TaskDisconnected(t)
  PROVE  Typed' /\ Started'
<1>1. CASE TaskStops(t) \/ TaskFails(t) \/ TaskLocks(t) \/ TaskDisconnected(t)
  <2>1. pc' \in [Tasks -> PCs] /\ ended' \in [Tasks -> {"no", "ok", "error"}]
    BY <1>1, TaskLeaves DEF Typed, TypeOK, PCs
  <2>2. Typed'
    BY <1>1, <2>1, TaskLeaves DEF Typed, TypeOK
  <2>3. Started'
    <3>1. UNCHANGED <<call, target, conn>> /\ pc[t] # "unused"
      BY <1>1, TaskLeaves
    <3>2. \A u \in Tasks : pc'[u] = "unused" <=> pc[u] = "unused"
      BY <1>1, TaskLeaves DEF Typed, TypeOK
    <3>3. call.op \in {"upsert", "insert"} => call.task \in Tasks
      BY DEF Typed, Calls, Idle
    <3>4. QED BY <3>1, <3>2, <3>3 DEF Started
  <2>4. QED BY <2>2, <2>3
<1>2. CASE TaskRemovesHandle(t)
  <2>1. target[t] \in Ids
    BY <1>2 DEF TaskRemovesHandle, Started
  <2>2. QED BY <1>2, <2>1 DEF TaskRemovesHandle, DropHandle, Typed, TypeOK, Started, PCs
<1>3. CASE TaskRunning(t)
  <2>2. snapshots' \in [Ids -> SnapshotType]
    BY <1>3, TaskSnapshots
  <2>3. pc' \in [Tasks -> PCs] /\ stage' \in [Actors -> {"none", "list", "send"}]
    BY <1>3 DEF TaskRunning, Update, Typed, TypeOK, PCs
  <2>4. Typed'
    BY <1>3, <2>2, <2>3 DEF TaskRunning, Typed, TypeOK
  <2>5. Started'
    BY <1>3 DEF TaskRunning, Typed, TypeOK, Started
  <2>6. QED BY <2>4, <2>5
<1>4. CASE TaskReports(t)
  <2>2. snapshots' \in [Ids -> SnapshotType]
    BY <1>4, TaskSnapshots
  <2>3. pc' \in [Tasks -> PCs] /\ stage' \in [Actors -> {"none", "list", "send"}]
    BY <1>4 DEF TaskReports, Set, Update, Typed, TypeOK, PCs
  <2>4. Typed'
    BY <1>4, <2>2, <2>3 DEF TaskReports, Typed, TypeOK
  <2>5. Started'
    BY <1>4 DEF TaskReports, Typed, TypeOK, Started
  <2>6. QED BY <2>4, <2>5
<1>5. QED BY <1>1, <1>2, <1>3, <1>4 DEF TaskStep

(* The steps of a connection and of a broadcast.                                   *)
LEMMA TypedConn ==
  ASSUME Typed, Started, NEW t \in Tasks, NEW c \in Conns,
         \/ ConnAccepted(t, c) \/ ConnOpened(t, c) \/ ConnTraffic(t, c) \/ ConnClosed(t, c)
         \/ ConnLocks(t, c) \/ ConnAnswered(t, c)
  PROVE  Typed' /\ Started'
<1>1. CASE ConnAccepted(t, c)
  BY <1>1 DEF ConnAccepted, Typed, TypeOK, Started, ConnStates
<1>4. CASE ConnLocks(t, c) \/ ConnAnswered(t, c)
  <2>1. /\ conn[<<t, c>>] # "unused"
        /\ UNCHANGED <<snapshots, handles, cancelled, call, pc, target, ended, stage, copy, view>>
    BY <1>4, ConnProceeds
  <2>2. conn' \in [Tasks \X Conns -> ConnStates]
    <3>1. conn \in [Tasks \X Conns -> ConnStates] /\ "opening" \in ConnStates /\ "open" \in ConnStates
      BY DEF Typed, TypeOK, ConnStates
    <3>2. QED BY <1>4, <3>1, ConnProceeds
  <2>3. ASSUME NEW u \in Tasks, NEW d \in Conns, conn'[<<u, d>>] # "unused" PROVE conn[<<u, d>>] # "unused"
    <3>1. conn \in [Tasks \X Conns -> ConnStates] /\ <<t, c>> \in Tasks \X Conns /\ <<u, d>> \in Tasks \X Conns
      BY DEF Typed, TypeOK
    <3>2. CASE <<u, d>> = <<t, c>>
      BY <2>1, <3>2
    <3>3. CASE <<u, d>> # <<t, c>>
      BY <1>4, <2>3, <3>1, <3>3, ConnProceeds
    <3>4. QED BY <3>2, <3>3
  <2>4. Typed'
    BY <2>1, <2>2 DEF Typed, TypeOK
  <2>5. Started'
    BY <2>1, <2>3 DEF Started
  <2>6. QED BY <2>4, <2>5
<1>2. CASE ConnOpened(t, c) \/ ConnTraffic(t, c) \/ ConnClosed(t, c)
  <2>1. pc[t] # "unused"
    BY <1>2 DEF ConnOpened, ConnTraffic, ConnClosed, Started
  <2>2. snapshots' \in [Ids -> SnapshotType]
    BY <1>2, ConnSnapshots
  <2>3. /\ stage' \in [Actors -> {"none", "list", "send"}]
        /\ conn' \in [Tasks \X Conns -> ConnStates]
    BY <1>2 DEF ConnOpened, ConnTraffic, ConnClosed, Update, Typed, TypeOK, ConnStates
  <2>4. Typed'
    BY <1>2, <2>2, <2>3 DEF ConnOpened, ConnTraffic, ConnClosed, Typed, TypeOK
  <2>5. Started'
    BY <1>2, <2>1 DEF ConnOpened, ConnTraffic, ConnClosed, Typed, TypeOK, Started
  <2>6. QED BY <2>4, <2>5
<1>3. QED BY <1>1, <1>2, <1>4

LEMMA TypedBroadcast ==
  ASSUME Typed, Started, NEW a \in Actors, Broadcast(a)
  PROVE  Typed' /\ Started'
<1>1. Absent \in SnapshotType
  BY DEF SnapshotType, Statuses, Absent
<1>2. /\ stage' \in [Actors -> {"none", "list", "send"}]
      /\ copy' \in [Actors -> [Ids -> SnapshotType]]
      /\ view' \in [Ids -> SnapshotType]
  <2>1. CASE ListSnapshots(a)
    BY <2>1 DEF ListSnapshots, Typed, TypeOK
  <2>2. CASE SendSnapshots(a)
    <3>1. copy[a] \in [Ids -> SnapshotType] /\ [i \in Ids |-> Absent] \in [Ids -> SnapshotType]
      BY <1>1 DEF Typed
    <3>2. QED BY <2>2, <3>1 DEF SendSnapshots, Typed, TypeOK
  <2>3. QED BY <2>1, <2>2 DEF Broadcast
<1>3. UNCHANGED <<snapshots, handles, cancelled, call, pc, target, ended, conn>>
  BY DEF Broadcast, ListSnapshots, SendSnapshots
<1>4. QED BY <1>2, <1>3 DEF Typed, TypeOK, Started

LEMMA TypedStep ==
  ASSUME Typed, Started, [Next]_vars
  PROVE  Typed' /\ Started'
<1>1. CASE UNCHANGED vars
  BY <1>1 DEF vars, Typed, TypeOK, Started
<1>2. QED BY <1>1, TypedController, TypedTask, TypedConn, TypedBroadcast DEF Next, ControllerStep

---------------------------------------------------------------------------
(* Handles.                                                                        *)

(* Every step that takes a handle out of the registry cancels its task, and only a *)
(* start call puts one in, where there is none.                                    *)
LEMMA StoppableStep ==
  ASSUME Typed, Started, RunningIsStoppable, [Next]_vars
  PROVE  RunningIsStoppable'
<1>1. ASSUME NEW i \in Ids, DropHandle(i), UNCHANGED target, \A t \in Tasks : Live(t)' => Live(t)
      PROVE  RunningIsStoppable'
  BY <1>1, NoneAssumption DEF DropHandle, Typed, TypeOK, RunningIsStoppable
<1>2. ASSUME UNCHANGED <<handles, cancelled, target>>, \A t \in Tasks : Live(t)' => Live(t)
      PROVE  RunningIsStoppable'
  BY <1>2 DEF RunningIsStoppable
<1>3. CASE StartInsert
  <2>1. call.id \in Ids /\ call.task \in Tasks /\ handles[call.id] = None
    BY <1>3 DEF StartInsert, Typed, Calls, Idle
  <2>2. /\ handles' = [handles EXCEPT ![call.id] = call.task]
        /\ target' = [target EXCEPT ![call.task] = call.id]
        /\ pc' = [pc EXCEPT ![call.task] = "connecting"]
        /\ cancelled' = cancelled
    BY <1>3 DEF StartInsert
  <2>3. SUFFICES ASSUME NEW t \in Tasks, Live(t)', t \notin cancelled
                 PROVE  handles'[target'[t]] = t
    BY <2>2 DEF RunningIsStoppable
  <2>4. CASE t = call.task
    BY <2>1, <2>2, <2>4 DEF Typed, TypeOK
  <2>5. CASE t # call.task
    <3>1. Live(t) /\ target'[t] = target[t] /\ handles[target[t]] = t /\ target[t] \in Ids
      BY <2>1, <2>2, <2>3, <2>5 DEF Live, Typed, TypeOK, Started, RunningIsStoppable
    <3>2. target[t] # call.id
      BY <2>1, <3>1, NoneAssumption
    <3>3. QED BY <2>1, <2>2, <3>1, <3>2 DEF Typed, TypeOK
  <2>6. QED BY <2>4, <2>5
<1>4. ASSUME NEW i \in Ids, StopHandle(i) PROVE RunningIsStoppable'
  BY <1>1, <1>4 DEF StopHandle, Live
<1>5. ASSUME NEW t \in Tasks, TaskRemovesHandle(t) PROVE RunningIsStoppable'
  <2>1. target[t] \in Ids
    BY <1>5 DEF TaskRemovesHandle, Started
  <2>2. \A u \in Tasks : Live(u)' => Live(u)
    BY <1>5 DEF TaskRemovesHandle, Live, Typed, TypeOK
  <2>3. QED BY <1>1, <1>5, <2>1, <2>2 DEF TaskRemovesHandle
<1>6. ASSUME NEW t \in Tasks, TaskReports(t) \/ TaskRunning(t) PROVE RunningIsStoppable'
  <2>1. UNCHANGED <<handles, cancelled, target>>
    BY <1>6 DEF TaskReports, TaskRunning
  <2>2. \A u \in Tasks : Live(u)' => Live(u)
    BY <1>6 DEF TaskReports, TaskRunning, Live, Typed, TypeOK
  <2>3. QED BY <1>2, <2>1, <2>2
<1>13. ASSUME NEW t \in Tasks, TaskStops(t) \/ TaskFails(t) \/ TaskLocks(t) \/ TaskDisconnected(t)
       PROVE  RunningIsStoppable'
  <2>1. \A u \in Tasks : Live(u)' => Live(u)
    BY <1>13, TaskLeaves DEF Live, Typed, TypeOK
  <2>2. QED BY <1>2, <1>13, <2>1, TaskLeaves
<1>7. ASSUME UNCHANGED <<handles, cancelled, target, pc>> PROVE RunningIsStoppable'
  BY <1>2, <1>7 DEF Live
<1>8. ASSUME NEW t \in Tasks, NEW c \in Conns,
             \/ ConnAccepted(t, c) \/ ConnOpened(t, c) \/ ConnTraffic(t, c) \/ ConnClosed(t, c)
             \/ ConnLocks(t, c) \/ ConnAnswered(t, c)
      PROVE RunningIsStoppable'
  BY <1>7, <1>8, ConnProceeds DEF ConnAccepted, ConnOpened, ConnTraffic, ConnClosed
<1>9. ASSUME NEW a \in Actors, Broadcast(a) PROVE RunningIsStoppable'
  BY <1>7, <1>9 DEF Broadcast, ListSnapshots, SendSnapshots
<1>10. ASSUME NEW i \in Ids, StopCheck(i) \/ \E t \in Tasks : StartCheck(i, t) PROVE RunningIsStoppable'
  BY <1>7, <1>10 DEF StopCheck, StartCheck
<1>11. CASE StartUpsert \/ StopSnapshot \/ UNCHANGED vars
  BY <1>7, <1>11 DEF StartUpsert, StopSnapshot, vars
<1>12. QED
  BY <1>3, <1>4, <1>5, <1>6, <1>8, <1>9, <1>10, <1>11, <1>13 DEF Next, ControllerStep, TaskStep

---------------------------------------------------------------------------
(* Shown tunnels.                                                                  *)

LEMMA BackedStep ==
  ASSUME Typed, Started, Backed, [Next]_vars
  PROVE  Backed'
<1> DEFINE Reporting(t) == pc[t] \in {"connecting", "running", "closing", "disconnecting", "cleanup", "report"}
<1>a. Absent \in SnapshotType /\ Starting \in SnapshotType
  BY DEF SnapshotType, Statuses, Absent, Starting
<1>1. ASSUME \A i \in Ids : snapshots'[i].status \in {"starting", "running"} => snapshots[i].status \in {"starting", "running"},
             \A t \in Tasks : Reporting(t) => Reporting(t)' /\ target'[t] = target[t],
             call.op = "insert" => UNCHANGED call
      PROVE  Backed'
  BY <1>1 DEF Backed
<1>2. CASE StartUpsert
  <2>1. call.id \in Ids /\ call'.op = "insert" /\ call'.id = call.id
    BY <1>2 DEF StartUpsert, Typed, Calls, Idle
  <2>2. \A j \in Ids : j # call.id => snapshots'[j] = snapshots[j]
    BY <1>a, <1>2, <2>1, SetEffect DEF StartUpsert, Typed, TypeOK
  <2>3. QED BY <1>2, <2>1, <2>2 DEF StartUpsert, Backed
<1>3. CASE StartInsert
  <2>1. call.id \in Ids /\ call.task \in Tasks /\ pc[call.task] = "unused"
    BY <1>3 DEF StartInsert, Typed, Calls, Idle, Started
  <2>2. /\ UNCHANGED snapshots
        /\ target' = [target EXCEPT ![call.task] = call.id]
        /\ pc' = [pc EXCEPT ![call.task] = "connecting"]
    BY <1>3 DEF StartInsert
  <2>3. target'[call.task] = call.id /\ pc'[call.task] = "connecting"
        /\ \A t \in Tasks : Reporting(t) => target'[t] = target[t] /\ pc'[t] = pc[t]
    BY <2>1, <2>2 DEF Typed, TypeOK
  <2>4. QED BY <2>1, <2>2, <2>3 DEF Backed
<1>4. CASE StopSnapshot
  <2>1. call.id \in Ids /\ call.op # "insert"
    BY <1>4 DEF StopSnapshot, Typed, Calls, Idle
  <2>2. \A i \in Ids : snapshots'[i].status \in {"starting", "running"} => snapshots'[i] = snapshots[i]
    BY <1>a, <1>4, <2>1, SetEffect DEF StopSnapshot, Typed, TypeOK, Absent
  <2>3. UNCHANGED <<pc, target>>
    BY <1>4 DEF StopSnapshot
  <2>4. QED BY <1>1, <2>1, <2>2, <2>3
<1>5. ASSUME NEW t \in Tasks, TaskRunning(t) PROVE Backed'
  <2>1. target[t] \in Ids
    BY <1>5, TaskSnapshots
  <2>2. \A j \in Ids : j # target[t] => snapshots'[j] = snapshots[j]
    BY <1>5, TaskSnapshots
  <2>3. UNCHANGED <<call, target>> /\ pc' = [pc EXCEPT ![t] = "running"]
    BY <1>5 DEF TaskRunning
  <2>4. \A u \in Tasks : Reporting(u) => Reporting(u)'
    BY <2>3 DEF Typed, TypeOK
  <2>5. Reporting(t)'
    BY <2>3 DEF Typed, TypeOK
  <2>6. QED BY <2>1, <2>2, <2>3, <2>4, <2>5 DEF Backed
<1>6. ASSUME NEW t \in Tasks, TaskRemovesHandle(t) PROVE Backed'
  <2>1. UNCHANGED <<snapshots, call, target>>
    BY <1>6 DEF TaskRemovesHandle
  <2>2. \A u \in Tasks : Reporting(u) => Reporting(u)'
    BY <1>6 DEF TaskRemovesHandle, Typed, TypeOK
  <2>3. QED BY <1>1, <2>1, <2>2
<1>15. ASSUME NEW t \in Tasks, TaskStops(t) \/ TaskFails(t) \/ TaskLocks(t) \/ TaskDisconnected(t)
       PROVE  Backed'
  <2>1. \A u \in Tasks : Reporting(u) => Reporting(u)'
    BY <1>15, TaskLeaves DEF Typed, TypeOK
  <2>2. UNCHANGED <<snapshots, call, target>>
    BY <1>15, TaskLeaves
  <2>3. QED BY <1>1, <2>1, <2>2
<1>7. ASSUME NEW t \in Tasks, TaskReports(t) PROVE Backed'
  <2>1. target[t] \in Ids
    BY <1>7, TaskSnapshots
  <2>2. /\ \A j \in Ids : j # target[t] => snapshots'[j] = snapshots[j]
        /\ snapshots'[target[t]].status \notin {"starting", "running"}
    <3>1. ~TaskRunning(t)
      BY <1>7 DEF TaskRunning, TaskReports
    <3>2. QED BY <1>7, <3>1, TaskSnapshots DEF Absent
  <2>3. UNCHANGED <<call, target>> /\ pc' = [pc EXCEPT ![t] = "done"]
    BY <1>7 DEF TaskReports
  <2>4. \A u \in Tasks : u # t /\ Reporting(u) => Reporting(u)'
    BY <2>3 DEF Typed, TypeOK
  <2>5. QED BY <2>1, <2>2, <2>3, <2>4 DEF Backed
<1>8. ASSUME NEW t \in Tasks, NEW c \in Conns,
             ConnOpened(t, c) \/ ConnTraffic(t, c) \/ ConnClosed(t, c)
      PROVE Backed'
  <2>2. \A i \in Ids : snapshots'[i].status = snapshots[i].status
    BY <1>8, ConnSnapshots
  <2>3. UNCHANGED <<pc, target, call>>
    BY <1>8 DEF ConnOpened, ConnTraffic, ConnClosed
  <2>4. QED BY <1>1, <2>2, <2>3
<1>9. ASSUME UNCHANGED <<snapshots, pc, target>>, call.op = "insert" => UNCHANGED call PROVE Backed'
  BY <1>1, <1>9
<1>10. ASSUME NEW t \in Tasks, NEW c \in Conns, ConnAccepted(t, c) \/ ConnLocks(t, c) \/ ConnAnswered(t, c)
       PROVE  Backed'
  BY <1>9, <1>10, ConnProceeds DEF ConnAccepted
<1>11. ASSUME NEW a \in Actors, Broadcast(a) PROVE Backed'
  BY <1>9, <1>11 DEF Broadcast, ListSnapshots, SendSnapshots
<1>12. ASSUME NEW i \in Ids, StopHandle(i) \/ StopCheck(i) \/ \E t \in Tasks : StartCheck(i, t) PROVE Backed'
  BY <1>9, <1>12 DEF StopHandle, StopCheck, StartCheck, Idle
<1>13. CASE UNCHANGED vars
  BY <1>9, <1>13 DEF vars
<1>14. QED
  BY <1>2, <1>3, <1>4, <1>5, <1>6, <1>7, <1>8, <1>10, <1>11, <1>12, <1>13, <1>15 DEF Next, ControllerStep, TaskStep

---------------------------------------------------------------------------
(* Connections.                                                                    *)

LEMMA CountedStep ==
  ASSUME Typed, Started, Counted, [Next]_vars
  PROVE  Counted'
<1> DEFINE Accepted == {x \in Tasks \X Conns : conn[x] # "unused"}
<1>1. IsFiniteSet(Accepted)'
  <2>1. ASSUME NEW t \in Tasks, NEW c \in Conns, ConnAccepted(t, c) PROVE IsFiniteSet(Accepted)'
    <3>1. Accepted' = Accepted \union {<<t, c>>}
      BY <2>1 DEF ConnAccepted, Typed, TypeOK
    <3>2. IsFiniteSet(Accepted)
      BY DEF Counted
    <3> HIDE DEF Accepted
    <3>3. QED BY <3>1, <3>2, FS_AddElement
  <2>2. ASSUME NEW t \in Tasks, NEW c \in Conns, ConnOpened(t, c) \/ ConnTraffic(t, c) \/ ConnClosed(t, c)
        PROVE  IsFiniteSet(Accepted)'
    <3>1. Accepted' = Accepted
      BY <2>2 DEF ConnOpened, ConnTraffic, ConnClosed, Typed, TypeOK
    <3>2. QED BY <3>1 DEF Counted
  <2>3. ASSUME UNCHANGED conn PROVE IsFiniteSet(Accepted)'
    BY <2>3 DEF Counted
  <2>5. ASSUME NEW t \in Tasks, NEW c \in Conns, ConnLocks(t, c) \/ ConnAnswered(t, c)
        PROVE  IsFiniteSet(Accepted)'
    <3>1. Accepted' = Accepted
      BY <2>5, ConnProceeds DEF Typed, TypeOK
    <3>2. QED BY <3>1 DEF Counted
  <2>4. QED
    BY <2>1, <2>2, <2>3, <2>5
    DEF Next, StopHandle, StopCheck, StartCheck, ControllerStep, StartUpsert, StartInsert, StopSnapshot,
        TaskStep, TaskStops, TaskLocks, TaskDisconnected, TaskRemovesHandle, TaskReports, TaskRunning, TaskFails,
        Broadcast, ListSnapshots, SendSnapshots, vars
<1>2. \A i \in Ids : snapshots'[i].status = "absent" => snapshots'[i].active = 0
  <2> DEFINE Goal == \A i \in Ids : snapshots'[i].status = "absent" => snapshots'[i].active = 0
  <2>1. ASSUME NEW t \in Tasks, NEW c \in Conns, ConnOpened(t, c) \/ ConnTraffic(t, c) \/ ConnClosed(t, c)
        PROVE  Goal
    BY <2>1, ConnSnapshots DEF Counted
  <2>2. ASSUME NEW t \in Tasks, TaskRunning(t) \/ TaskReports(t) PROVE Goal
    BY <2>2, TaskSnapshots DEF Counted, Absent
  <2>3. CASE StartUpsert \/ StopSnapshot
    <3>1. call.id \in Ids
      BY <2>3 DEF StartUpsert, StopSnapshot, Typed, Calls, Idle
    <3>2. \/ Set(Controller, call.id, Starting)
          \/ Set(Controller, call.id, Absent)
          \/ UNCHANGED snapshots
      BY <2>3 DEF StartUpsert, StopSnapshot
    <3>3. QED BY <3>1, <3>2 DEF Set, Counted, Starting, Absent, Typed, TypeOK
  <2>4. ASSUME UNCHANGED snapshots PROVE Goal
    BY <2>4 DEF Counted
  <2>5. QED
    BY <2>1, <2>2, <2>3, <2>4
    DEF Next, StopHandle, StopCheck, StartCheck, ControllerStep, StartInsert,
        TaskStep, TaskStops, TaskLocks, TaskDisconnected, TaskRemovesHandle, TaskFails, ConnAccepted,
        ConnLocks, ConnAnswered,
        Broadcast, ListSnapshots, SendSnapshots, vars
<1>3. QED BY <1>1, <1>2 DEF Counted

(* The connections of an id, and their number, are finite.                         *)
LEMMA OpenConnsFinite ==
  ASSUME Counted, NEW i
  PROVE  IsFiniteSet(OpenConns(i)) /\ Cardinality(OpenConns(i)) \in Nat
<1>1. OpenConns(i) \subseteq {x \in Tasks \X Conns : conn[x] # "unused"}
  BY DEF OpenConns
<1>2. IsFiniteSet(OpenConns(i))
  BY <1>1, FS_Subset DEF Counted
<1>3. QED BY <1>2, FS_CardinalityType

LEMMA PhantomStep ==
  ASSUME Typed, Started, Counted, NoPhantomConnections, [Next]_vars
  PROVE  NoPhantomConnections'
<1>1. ASSUME NEW t \in Tasks, NEW c \in Conns, ConnOpened(t, c) PROVE NoPhantomConnections'
  <2>1. UNCHANGED target /\ conn' = [conn EXCEPT ![<<t, c>>] = "waiting"] /\ conn[<<t, c>>] = "spawned"
    BY <1>1 DEF ConnOpened
  <2>2. OpenConns(target[t])' = OpenConns(target[t]) \union {<<t, c>>} /\ <<t, c>> \notin OpenConns(target[t])
    BY <2>1 DEF OpenConns, Typed, TypeOK
  <2>3. \A i \in Ids : i # target[t] => OpenConns(i)' = OpenConns(i)
    BY <2>1 DEF OpenConns, Typed, TypeOK
  <2>4. Cardinality(OpenConns(target[t]))' = Cardinality(OpenConns(target[t])) + 1
        /\ Cardinality(OpenConns(target[t])) \in Nat
    BY <2>2, OpenConnsFinite, FS_AddElement
  <2>5. target[t] \in Ids /\ snapshots[target[t]].active \in Nat
    BY <1>1, ConnSnapshots DEF Typed, TypeOK, SnapshotType
  <2>6. snapshots'[target[t]].active <= Cardinality(OpenConns(target[t]))'
    <3>1. snapshots[target[t]].active <= Cardinality(OpenConns(target[t]))
      BY <2>5 DEF NoPhantomConnections
    <3>2. snapshots'[target[t]].active \in {snapshots[target[t]].active, snapshots[target[t]].active + 1}
      <4>1. ~ConnClosed(t, c)
        BY <1>1 DEF ConnOpened, ConnClosed
      <4>2. QED BY <1>1, <4>1, ConnSnapshots
    <3>3. QED BY <2>4, <2>5, <3>1, <3>2
  <2>7. QED BY <1>1, <2>1, <2>3, <2>6, ConnSnapshots DEF NoPhantomConnections
<1>2. ASSUME NEW t \in Tasks, NEW c \in Conns, ConnClosed(t, c) PROVE NoPhantomConnections'
  <2>1. UNCHANGED target /\ conn' = [conn EXCEPT ![<<t, c>>] = "closed"] /\ conn[<<t, c>>] = "open"
    BY <1>2 DEF ConnClosed
  <2>2. OpenConns(target[t])' = OpenConns(target[t]) \ {<<t, c>>} /\ <<t, c>> \in OpenConns(target[t])
    BY <2>1 DEF OpenConns, Typed, TypeOK
  <2>3. \A i \in Ids : i # target[t] => OpenConns(i)' = OpenConns(i)
    BY <2>1 DEF OpenConns, Typed, TypeOK
  <2>4. Cardinality(OpenConns(target[t]))' = Cardinality(OpenConns(target[t])) - 1
        /\ Cardinality(OpenConns(target[t])) \in Nat /\ Cardinality(OpenConns(target[t]))' \in Nat
    <3>1. IsFiniteSet(OpenConns(target[t]))'
      BY <2>2, OpenConnsFinite, FS_RemoveElement
    <3>2. QED BY <2>2, <3>1, OpenConnsFinite, FS_RemoveElement, FS_CardinalityType
  <2>5. target[t] \in Ids /\ snapshots[target[t]].active \in Nat
    BY <1>2, ConnSnapshots DEF Typed, TypeOK, SnapshotType
  <2>6. snapshots'[target[t]].active <= Cardinality(OpenConns(target[t]))'
    <3>1. snapshots[target[t]].active <= Cardinality(OpenConns(target[t]))
      BY <2>5 DEF NoPhantomConnections
    <3>2. \/ snapshots'[target[t]].active = 0
          \/ snapshots'[target[t]].active = snapshots[target[t]].active - 1
      <4>1. ~ConnOpened(t, c)
        BY <1>2 DEF ConnOpened, ConnClosed
      <4>2. ~ConnTraffic(t, c)
        BY <1>2, <2>1 DEF ConnTraffic, Typed, TypeOK
      <4>3. QED BY <1>2, <2>5, <4>1, <4>2, ConnSnapshots DEF Counted, Less
    <3>3. QED BY <2>4, <2>5, <3>1, <3>2
  <2>7. QED BY <1>2, <2>1, <2>3, <2>6, ConnSnapshots DEF NoPhantomConnections
<1>3. ASSUME \A i \in Ids : OpenConns(i)' = OpenConns(i),
             \A i \in Ids : snapshots'[i].active \in {snapshots[i].active, 0}
      PROVE  NoPhantomConnections'
  BY <1>3, OpenConnsFinite DEF NoPhantomConnections
<1>4. ASSUME UNCHANGED <<conn, target>> PROVE \A i \in Ids : OpenConns(i)' = OpenConns(i)
  BY <1>4 DEF OpenConns
<1>5. ASSUME NEW t \in Tasks, NEW c \in Conns, ConnTraffic(t, c) PROVE NoPhantomConnections'
  <2>1. UNCHANGED <<conn, target>>
    BY <1>5 DEF ConnTraffic
  <2>2. ~ConnOpened(t, c) /\ ~ConnClosed(t, c)
    BY <1>5 DEF ConnTraffic, ConnOpened, ConnClosed, Typed, TypeOK
  <2>3. \A i \in Ids : snapshots'[i] = snapshots[i]
    BY <1>5, <2>2, ConnSnapshots
  <2>4. QED BY <1>3, <1>4, <2>1, <2>3
<1>6. ASSUME NEW t \in Tasks, NEW c \in Conns, ConnAccepted(t, c) PROVE NoPhantomConnections'
  <2>1. UNCHANGED <<snapshots, target>> /\ conn' = [conn EXCEPT ![<<t, c>>] = "spawned"] /\ conn[<<t, c>>] = "unused"
    BY <1>6 DEF ConnAccepted
  <2>2. \A i \in Ids : OpenConns(i)' = OpenConns(i)
    BY <2>1 DEF OpenConns, Typed, TypeOK
  <2>3. QED BY <1>3, <2>1, <2>2
<1>7. CASE StartInsert
  <2>1. UNCHANGED <<snapshots, conn>> /\ target' = [target EXCEPT ![call.task] = call.id]
    BY <1>7 DEF StartInsert
  <2>2. \A c \in Conns : call.task \in Tasks => conn[<<call.task, c>>] = "unused"
    BY <1>7 DEF StartInsert, Started
  <2>3. \A i \in Ids : OpenConns(i)' = OpenConns(i)
    BY <2>1, <2>2 DEF OpenConns, Typed, TypeOK
  <2>4. QED BY <1>3, <2>1, <2>3
<1>8. ASSUME NEW t \in Tasks, TaskRunning(t) \/ TaskReports(t) PROVE NoPhantomConnections'
  <2>1. UNCHANGED <<conn, target>>
    BY <1>8 DEF TaskRunning, TaskReports
  <2>2. \A i \in Ids : snapshots'[i].active \in {snapshots[i].active, 0}
    BY <1>8, TaskSnapshots DEF Absent
  <2>3. QED BY <1>3, <1>4, <2>1, <2>2
<1>9. CASE StartUpsert \/ StopSnapshot
  <2>1. call.id \in Ids
    BY <1>9 DEF StartUpsert, StopSnapshot, Typed, Calls, Idle
  <2>2. \/ Set(Controller, call.id, Starting)
        \/ Set(Controller, call.id, Absent)
        \/ UNCHANGED snapshots
    BY <1>9 DEF StartUpsert, StopSnapshot
  <2>3. \A i \in Ids : snapshots'[i].active \in {snapshots[i].active, 0}
    BY <2>1, <2>2 DEF Set, Starting, Absent, Typed, TypeOK
  <2>4. UNCHANGED <<conn, target>>
    BY <1>9 DEF StartUpsert, StopSnapshot
  <2>5. QED BY <1>3, <1>4, <2>3, <2>4
<1>12. ASSUME NEW t \in Tasks, NEW c \in Conns, ConnLocks(t, c) \/ ConnAnswered(t, c) PROVE NoPhantomConnections'
  <2> DEFINE Served(x) == conn[x] \in {"waiting", "opening", "open"}
  <2>1. \A x \in Tasks \X Conns : Served(x)' <=> Served(x)
    BY <1>12, ConnProceeds DEF Typed, TypeOK
  <2>2. UNCHANGED <<snapshots, target>>
    BY <1>12, ConnProceeds
  <2>3. \A i \in Ids : OpenConns(i)' = OpenConns(i)
    BY <2>1, <2>2 DEF OpenConns
  <2>4. \A i \in Ids : snapshots'[i].active \in {snapshots[i].active, 0}
    BY <2>2
  <2>5. QED BY <1>3, <2>3, <2>4
<1>10. ASSUME UNCHANGED <<snapshots, conn, target>> PROVE NoPhantomConnections'
  BY <1>3, <1>4, <1>10
<1>11. QED
  BY <1>1, <1>2, <1>5, <1>6, <1>7, <1>8, <1>9, <1>10, <1>12
  DEF Next, StopHandle, StopCheck, StartCheck, ControllerStep,
      TaskStep, TaskStops, TaskLocks, TaskDisconnected, TaskRemovesHandle, TaskFails,
      Broadcast, ListSnapshots, SendSnapshots, vars

---------------------------------------------------------------------------
LEMMA TunnelInitInv == Init => TunnelInv
<1> SUFFICES ASSUME Init PROVE TunnelInv
  OBVIOUS
<1>1. Typed /\ Started
  BY TypedInit
<1>2. RunningIsStoppable /\ Backed
  BY DEF Init, RunningIsStoppable, Live, Backed, Absent
<1>3. Counted
  <2>1. {x \in Tasks \X Conns : conn[x] # "unused"} = {}
    BY DEF Init
  <2>2. QED BY <2>1, FS_EmptySet DEF Init, Counted, Absent
<1>4. NoPhantomConnections
  <2>1. \A i \in Ids : Cardinality(OpenConns(i)) \in Nat
    BY <1>3, OpenConnsFinite
  <2>2. QED BY <2>1 DEF Init, NoPhantomConnections, Absent
<1>5. QED BY <1>1, <1>2, <1>3, <1>4 DEF TunnelInv

LEMMA TunnelInvariant == Spec => []TunnelInv
<1>1. TunnelInv /\ [Next]_vars => TunnelInv'
  BY TypedStep, StoppableStep, BackedStep, CountedStep, PhantomStep DEF TunnelInv
<1>2. QED BY <1>1, TunnelInitInv, PTL DEF Spec

(* remove_handle and insert_handle: a tunnel that is live and was not stopped has  *)
(* its own cancel handle in the registry, although tasks remove handles by id.     *)
THEOREM LiveTunnelIsStoppable == Spec => []RunningIsStoppable
<1>1. TunnelInv => RunningIsStoppable
  BY DEF TunnelInv
<1>2. QED BY <1>1, TunnelInvariant, PTL

(* The snapshots the list shows: no more connections than are open, and no tunnel  *)
(* starting or running once every task has ended, in well-typed states.            *)
THEOREM TunnelListIsHonest == Spec => []ViewIsHonest
<1>1. TunnelInv => NoGhostTunnel
  <2> SUFFICES ASSUME TunnelInv, AllOver, NEW i \in Ids PROVE snapshots[i].status \in {"absent", "failed"}
    BY DEF NoGhostTunnel
  <2>1. snapshots[i].status \notin {"starting", "running"}
    BY DEF TunnelInv, Backed, AllOver, Idle
  <2>2. QED BY <2>1 DEF TunnelInv, Typed, TypeOK, SnapshotType, Statuses
<1>2. TunnelInv => ViewIsHonest
  BY <1>1 DEF TunnelInv, Typed, ViewIsHonest
<1>3. QED BY <1>2, TunnelInvariant, PTL
=============================================================================
