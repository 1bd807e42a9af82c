---------------------------- MODULE VaultReplicas ----------------------------
(***************************************************************************)
(* Merging of vault records between devices (crates/seance-vault/src/     *)
(* lib.rs, storage.rs): logical clocks, record precedence, tombstones,    *)
(* export_delta, apply_delta, export_snapshot and apply_snapshot.         *)
(*                                                                         *)
(* Every SQLite statement commits by itself, so each is a step and a      *)
(* device can crash between two of them; reopening reads the header back. *)
(* Deltas travel through the hosted stream in order (CommitLog); the      *)
(* client that uploads and pulls is modelled from the protocol document.  *)
(* Payloads and keys are abstracted to the nonce that ends a comparison.  *)
(***************************************************************************)
EXTENDS Integers, Sequences, FiniteSets

CONSTANTS Devices,    \* devices of one vault
          Creator,    \* the device that created it
          Records,    \* record ids
          Times,      \* readings of the devices' wall clocks, in seconds
          Nonces,     \* nonces, one per write; compared as byte strings are
          MaxClock,   \* bound: the logical clock
          MaxStream,  \* bound: accepted uploads
          MaxCrashes, \* bound: crashes
          None        \* no record, no header, no position

ASSUME BoundsAssumption ==
    /\ Creator \in Devices
    /\ Times \subseteq Nat
    /\ Nonces \subseteq Nat
    /\ {MaxClock, MaxStream, MaxCrashes} \subseteq Nat
    /\ None \notin Nat

VARIABLES
    db,       \* vault_header.last_logical_clock (None: no row) and the records table
    header,   \* last_logical_clock of the header in memory, None if not loaded
    op,       \* the call each device is in
    pos,      \* stream_seq each client has applied, None before bootstrap
    sent,     \* cursor each client exported last
    stream,   \* accepted deltas
    snapshot, \* the snapshot bootstrap returns
    unused,   \* nonces not drawn yet
    crashes

vars == <<db, header, op, pos, sent, stream, snapshot, unused, crashes>>

Versions == [clock : Nat, time : Times, deleted : BOOLEAN, nonce : Nonces]
Tables == [Records -> Versions \cup {None}]
Empty == [r \in Records |-> None]

\* todo: record versions still to be written; clock and pos: the cursor to end with.
Idle == [kind |-> "idle", todo |-> Empty, clock |-> 0, pos |-> 0]

Init ==
    /\ db = [d \in Devices |-> [clock |-> IF d = Creator THEN 0 ELSE None, recs |-> Empty]]
    /\ header = [d \in Devices |-> IF d = Creator THEN 0 ELSE None]
    /\ op = [d \in Devices |-> Idle]
    /\ pos = [d \in Devices |-> IF d = Creator THEN 0 ELSE None]
    /\ sent = [d \in Devices |-> 0]
    /\ stream = <<>>
    /\ snapshot = [clock |-> 0, recs |-> Empty, pos |-> 0]
    /\ unused = Nonces
    /\ crashes = 0

---------------------------------------------------------------------------
\* Record precedence

\* Mutant: versions of the same clock are taken for the same.
PrecedesByClock(v, w) == v.clock <= w.clock

\* compare_record_precedence(v, w).is_le(), of two versions of one record.
Precedes(v, w) ==
    \/ v.clock < w.clock
    \/ /\ v.clock = w.clock
       /\ \/ v.time < w.time
          \/ /\ v.time = w.time
             /\ \/ w.deleted /\ ~v.deleted
                \/ (v.deleted <=> w.deleted) /\ v.nonce <= w.nonce

Newer(v, w) == w = None \/ ~Precedes(v, w)

Later(m, n) == IF m < n THEN n ELSE m

---------------------------------------------------------------------------
\* Local edits: store_record and delete_record

\* bump_logical_clock
BumpedClock(d) == db[d].clock + 1

Ready(d) == op[d] = Idle /\ header[d] # None

BeginWrite(d, r, v) ==
    /\ BumpedClock(d) <= MaxClock
    /\ db' = [db EXCEPT ![d].clock = BumpedClock(d)]
    /\ header' = [header EXCEPT ![d] = BumpedClock(d)]
    /\ op' = [op EXCEPT ![d] = [kind |-> "write", todo |-> [Empty EXCEPT ![r] = v],
                                clock |-> 0, pos |-> 0]]
    /\ UNCHANGED <<pos, sent, stream, snapshot, crashes>>

Store(d, r) ==
    /\ Ready(d)
    /\ \E t \in Times, n \in unused :
          /\ BeginWrite(d, r, [clock |-> BumpedClock(d), time |-> t, deleted |-> FALSE, nonce |-> n])
          /\ unused' = unused \ {n}

\* A tombstone keeps the nonces of the record it ends.
Delete(d, r) ==
    /\ Ready(d)
    /\ db[d].recs[r] # None /\ ~db[d].recs[r].deleted
    /\ \E t \in Times :
          BeginWrite(d, r, [clock |-> BumpedClock(d), time |-> t, deleted |-> TRUE,
                            nonce |-> db[d].recs[r].nonce])
    /\ UNCHANGED unused

\* upsert_record: no comparison with what is there.
WriteRecord(d) ==
    /\ op[d].kind = "write"
    /\ \E r \in Records :
          /\ op[d].todo[r] # None
          /\ db' = [db EXCEPT ![d].recs[r] = op[d].todo[r]]
    /\ op' = [op EXCEPT ![d] = Idle]
    /\ UNCHANGED <<header, pos, sent, stream, snapshot, unused, crashes>>

---------------------------------------------------------------------------
\* Deltas

\* export_delta(since the cursor exported last); since <= the header's clock.
ExportDelta(d) ==
    [from |-> sent[d], to |-> header[d],
     recs |-> [r \in Records |->
        IF db[d].recs[r] # None /\ db[d].recs[r].clock > sent[d]
        THEN db[d].recs[r] ELSE None]]

\* The client uploads what it has exported, and remembers the cursor.
Upload(d) ==
    /\ Ready(d) /\ pos[d] # None
    /\ Len(stream) < MaxStream
    /\ ExportDelta(d).recs # Empty
    /\ stream' = Append(stream, ExportDelta(d))
    /\ sent' = [sent EXCEPT ![d] = header[d]]
    /\ UNCHANGED <<db, header, op, pos, snapshot, unused, crashes>>

InOrder(d, delta) == header[d] >= delta.from

\* The greatest of n and the records' clocks.
MaxClockOf(recs, n) ==
    LET clocks == {n} \cup {recs[r].clock : r \in {s \in Records : recs[s] # None}}
    IN  CHOOSE m \in clocks : \A c \in clocks : c <= m

\* apply_delta of the next commit: DeltaOutOfOrder, or a cursor to reach.
BeginApply(d) ==
    /\ Ready(d) /\ pos[d] # None
    /\ pos[d] < Len(stream)
    /\ LET delta == stream[pos[d] + 1] IN
          /\ InOrder(d, delta)
          /\ op' = [op EXCEPT ![d] = [kind |-> "apply", todo |-> delta.recs,
                      clock |-> MaxClockOf(delta.recs, Later(header[d], delta.to)), pos |-> pos[d] + 1]]
    /\ UNCHANGED <<db, header, pos, sent, stream, snapshot, unused, crashes>>

\* Records are applied in the order list_records_after_clock gives them.
NextRecord(todo, r) ==
    /\ todo[r] # None
    /\ \A s \in Records : todo[s] # None => todo[r].clock <= todo[s].clock

\* Mutant: what arrives last wins.
LastWins(v, w) == v

\* The incoming version is written unless the stored one is as new.
Merged(v, w) == IF Newer(v, w) THEN v ELSE w

ApplyRecord(d, r) ==
    /\ op[d].kind = "apply"
    /\ NextRecord(op[d].todo, r)
    /\ db' = [db EXCEPT ![d].recs[r] = Merged(op[d].todo[r], db[d].recs[r])]
    /\ op' = [op EXCEPT ![d].todo[r] = None]
    /\ UNCHANGED <<header, pos, sent, stream, snapshot, unused, crashes>>

\* Mutant: applying a delta leaves the cursor where it was.
LocalCursor(d) == header[d]

NewCursor(d) == op[d].clock

\* set_last_logical_clock; the client then records the commit as applied.
FinishApply(d) ==
    /\ op[d].kind = "apply" /\ op[d].todo = Empty
    /\ db' = [db EXCEPT ![d].clock = NewCursor(d)]
    /\ header' = [header EXCEPT ![d] = NewCursor(d)]
    /\ pos' = [pos EXCEPT ![d] = op[d].pos]
    /\ op' = [op EXCEPT ![d] = Idle]
    /\ UNCHANGED <<sent, stream, snapshot, unused, crashes>>

---------------------------------------------------------------------------
\* Snapshots

\* export_snapshot, by a client that has nothing left to upload.
ExportSnapshot(d) ==
    /\ Ready(d) /\ pos[d] # None
    /\ ExportDelta(d).recs = Empty
    /\ snapshot' = [clock |-> header[d], recs |-> db[d].recs, pos |-> pos[d]]
    /\ snapshot' # snapshot
    /\ UNCHANGED <<db, header, op, pos, sent, stream, unused, crashes>>

\* apply_snapshot: only without a header and without records.
BeginSnapshot(d) ==
    /\ op[d] = Idle
    /\ header[d] = None /\ db[d].recs = Empty
    /\ op' = [op EXCEPT ![d] = [kind |-> "snapshot", todo |-> snapshot.recs,
                                clock |-> MaxClockOf(snapshot.recs, snapshot.clock),
                                pos |-> snapshot.pos]]
    /\ db' = [db EXCEPT ![d].clock = op'[d].clock]
    /\ UNCHANGED <<header, pos, sent, stream, snapshot, unused, crashes>>

SnapshotRecord(d, r) ==
    /\ op[d].kind = "snapshot"
    /\ NextRecord(op[d].todo, r)
    /\ db' = [db EXCEPT ![d].recs[r] = op[d].todo[r]]
    /\ op' = [op EXCEPT ![d].todo[r] = None]
    /\ UNCHANGED <<header, pos, sent, stream, snapshot, unused, crashes>>

\* The header is loaded; the client starts at the position of the snapshot.
FinishSnapshot(d) ==
    /\ op[d].kind = "snapshot" /\ op[d].todo = Empty
    /\ header' = [header EXCEPT ![d] = op[d].clock]
    /\ pos' = [pos EXCEPT ![d] = op[d].pos]
    /\ sent' = [sent EXCEPT ![d] = op[d].clock]
    /\ op' = [op EXCEPT ![d] = Idle]
    /\ UNCHANGED <<db, stream, snapshot, unused, crashes>>

---------------------------------------------------------------------------
\* The process dies and the vault is opened again.
Crash(d) ==
    /\ crashes < MaxCrashes
    /\ op[d] # Idle
    /\ crashes' = crashes + 1
    /\ header' = [header EXCEPT ![d] = db[d].clock]
    /\ op' = [op EXCEPT ![d] = Idle]
    /\ UNCHANGED <<db, pos, sent, stream, snapshot, unused>>

Next ==
    \E d \in Devices :
        \/ \E r \in Records :
              \/ Store(d, r)
              \/ Delete(d, r)
              \/ ApplyRecord(d, r)
              \/ SnapshotRecord(d, r)
        \/ WriteRecord(d)
        \/ Upload(d)
        \/ BeginApply(d)
        \/ FinishApply(d)
        \/ ExportSnapshot(d)
        \/ BeginSnapshot(d)
        \/ FinishSnapshot(d)
        \/ Crash(d)

Spec == Init /\ [][Next]_vars

---------------------------------------------------------------------------
\* Properties

\* Tables, cursors and calls stay within their types.
TypeOK ==
    /\ db \in [Devices -> [clock : Nat \cup {None}, recs : Tables]]
    /\ header \in [Devices -> Nat \cup {None}]
    /\ op \in [Devices -> [kind : {"idle", "write", "apply", "snapshot"}, todo : Tables,
                         clock : Nat, pos : Nat]]
    /\ pos \in [Devices -> Nat \cup {None}]
    /\ sent \in [Devices -> Nat]
    /\ stream \in Seq([from : Nat, to : Nat, recs : Tables])
    /\ snapshot \in [clock : Nat, recs : Tables, pos : Nat]
    /\ unused \subseteq Nonces

\* Unless a call was cut short, the header's clock is between calls at least
\* that of every record, so that the next edit is newer than all this device
\* knows.
ClockCoversRecords ==
    crashes = 0 => \A d \in Devices, r \in Records :
        Ready(d) /\ db[d].recs[r] # None => db[d].recs[r].clock <= header[d]

\* No record disappears or gives way to an older version of itself.
NoRegress ==
    \A d \in Devices, r \in Records :
        db[d].recs[r] # None =>
            /\ db'[d].recs[r] # None
            /\ Precedes(db[d].recs[r], db'[d].recs[r])

\* No edit, delta or tombstone puts an older version in the place of a newer
\* one, as long as no call was cut short: deltas may be stale, repeated or
\* concurrent.
RecordsNeverRegress == [][crashes = 0 => NoRegress]_vars

\* Following the stream, a device never meets a delta it must refuse, unless a
\* call was cut short: a crash after bump_logical_clock leaves a clock no delta
\* names, and a device that bootstraps from a snapshot of it uploads from there.
StreamNeverOutOfOrder ==
    crashes = 0 => \A d \in Devices :
        Ready(d) /\ pos[d] # None /\ pos[d] < Len(stream)
            => InOrder(d, stream[pos[d] + 1])

\* Clocks order what they must, in well-typed states: a device's next edit after
\* all it holds, and every delta of the stream after the one before.
ClocksInOrder == TypeOK /\ ClockCoversRecords /\ StreamNeverOutOfOrder

Joined == {d \in Devices : pos[d] # None}

InStream(r, v) == \E k \in DOMAIN stream : stream[k].recs[r] = v

\* Every joined device has applied the stream and has nothing new to upload.
Quiescent ==
    /\ \A d \in Joined :
          /\ Ready(d)
          /\ pos[d] = Len(stream)
          /\ \A r \in Records : ExportDelta(d).recs[r] # None => InStream(r, ExportDelta(d).recs[r])

\* Devices that have exchanged everything hold the same records, whatever was
\* edited and deleted at the same clocks and whoever crashed.
QuiescentAgreement ==
    Quiescent => \A d, e \in Joined : db[d].recs = db[e].recs

=============================================================================
