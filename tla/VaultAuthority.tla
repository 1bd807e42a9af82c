-------------------------- MODULE VaultAuthority --------------------------
(***************************************************************************)
(* The write side of the hosted sync service for one vault: the Worker    *)
(* handlers of POST /commits and PUT /snapshot (services/seance-sync/src/ *)
(* index.ts), the Durable Object that accepts commits                     *)
(* (durable/vault-authority.ts) and the D1 tables and R2 objects they     *)
(* write (lib/db.ts).                                                     *)
(*                                                                         *)
(* Every await on D1 or R2 ends a step, so handlers interleave exactly    *)
(* where the code lets them: a Durable Object does not hold back other    *)
(* requests while it waits for external storage.  A slot is one request   *)
(* being handled.  An R2 object key contains a fresh UUID; objects are    *)
(* never overwritten or deleted, so a commit object is identified by what *)
(* the key and the content tell apart, its stream_seq and its upload.     *)
(***************************************************************************)
EXTENDS Integers, FiniteSets

CONSTANTS Slots,           \* requests that can be in flight at once
          Uploads,         \* the commits devices want to upload
          VaultId,         \* the vault
          MaxRecords,      \* 512 in the code
          SnapshotClocks,  \* header clocks of uploaded snapshots
          MaxSnapshots,    \* bound: snapshot uploads in a behaviour
          MaxTime,         \* bound: seconds that pass in a behaviour
          MaxFailures      \* bound: crashes, failed calls and lost replies

\* An upload is a commit body: author device, idempotency key, the delta's
\* vault and clocks, its number of records and their greatest logical clock.
\* A retry repeats the body, so device and key determine it.
ASSUME UploadsAssumption ==
    /\ Uploads # {}
    /\ \A u \in Uploads :
          /\ u.from \in Nat /\ u.to \in Nat /\ u.recordClock \in Nat /\ u.records \in Nat
    /\ \A u, w \in Uploads : u.device = w.device /\ u.key = w.key => u = w

ASSUME BoundsAssumption ==
    /\ MaxRecords \in Nat /\ MaxSnapshots \in Nat
    /\ MaxTime \in Nat /\ MaxFailures \in Nat
    /\ SnapshotClocks \subseteq Nat

VARIABLES
    vault,        \* row of vaults: current_stream_seq, current_logical_clock, latest_snapshot_id
    commits,      \* vault_commits, by stream_seq
    idem,         \* vault_idempotency_keys, by <<device, key>>
    replicas,     \* vault_replicas, by device
    manifests,    \* vault_snapshot_manifests
    commitBlobs,  \* R2: commit objects
    snapBlobs,    \* R2: snapshot objects
    pc,           \* where the handler of each slot is
    row,          \* the vault row each handler read when it started
    up,           \* the upload each commit handler carries
    snap,         \* the snapshot each snapshot handler carries
    snapCount,    \* snapshots started so far (fresh snapshot ids)
    now,          \* nowTs() when the last snapshot came, in seconds
    hinted,       \* stream_seqs announced by commit_available
    replies,      \* acknowledgements (200) clients received for their uploads
    failures      \* failures so far

tables == <<vault, commits, idem, replicas, manifests, commitBlobs, snapBlobs>>
vars == <<tables, pc, row, up, snap, snapCount, now, hinted, replies, failures>>

---------------------------------------------------------------------------
\* Helpers

MaxOf(a, b) == IF a >= b THEN a ELSE b

Devices == {u.device : u \in Uploads}

\* Mutant: a ledger keyed by the idempotency key alone.
KeyWithoutDevice(u) == <<u.key, u.key>>

KeyOf(u) == <<u.device, u.key>>

\* The three checks by which appendCommit refuses a delta.
Malformed(u) ==
    \/ u.vault # VaultId
    \/ u.to < u.from
    \/ u.records > MaxRecords

\* resultLogicalClock: from the row read by the Worker, not from the table.
ResultClock(vaultRow, u) == MaxOf(vaultRow.clock, MaxOf(u.to, u.recordClock))

\* A 200 and its accepted_stream_seq.  The cursor it also carries is that of the
\* row just read, for a retry as for the commit itself.
Reply(u, seq) == [up |-> u, seq |-> seq]

\* A client stops retrying once it has an answer other than a 5xx.  The Durable
\* Object's other answers are all 500 (RejectCommit, ConflictBatch, Fail).
Answered(u) == \E a \in replies : a.up = u

\* What getVaultForUser returns.
VaultRow == [seq |-> vault.seq, clock |-> vault.clock]

Snapshot(id, base, clock, at) == [id |-> id, base |-> base, clock |-> clock, at |-> at]

\* The row PUT /snapshot inserts: it claims to cover the stream up to the
\* greater of the client's base and the head the handler saw.
Manifest(s, vaultRow) ==
    [id |-> s.id, base |-> s.base, seq |-> MaxOf(s.base, vaultRow.seq),
     clock |-> s.clock, at |-> s.at]

NoUpload == CHOOSE u \in Uploads : TRUE
NoSnapshot == Snapshot(0, 0, 0, 0)

\* The handler returns; its locals are gone.
Return(r) ==
    /\ pc' = [pc EXCEPT ![r] = "idle"]
    /\ row' = [row EXCEPT ![r] = [seq |-> 0, clock |-> 0]]
    /\ up' = [up EXCEPT ![r] = NoUpload]
    /\ snap' = [snap EXCEPT ![r] = NoSnapshot]

---------------------------------------------------------------------------
\* Initially POST /v1/vaults has been answered: stream_seq 0, the bootstrap
\* snapshot (id 0) stored and its manifest written.

Init ==
    /\ vault = [seq |-> 0, clock |-> 0, latest |-> 0]
    /\ commits = [s \in {} |-> {}]
    /\ idem = [k \in {} |-> 0]
    /\ replicas = [d \in {} |-> {}]
    /\ manifests = {Manifest(NoSnapshot, [seq |-> 0, clock |-> 0])}
    /\ commitBlobs = {}
    /\ snapBlobs = {0}
    /\ pc = [r \in Slots |-> "idle"]
    /\ row = [r \in Slots |-> [seq |-> 0, clock |-> 0]]
    /\ up = [r \in Slots |-> NoUpload]
    /\ snap = [r \in Slots |-> NoSnapshot]
    /\ snapCount = 0
    /\ now = 0
    /\ hinted = {}
    /\ replies = {}
    /\ failures = 0

---------------------------------------------------------------------------
\* POST /v1/vaults/:id/commits

\* The Worker authenticates, reads the vault row and forwards it, with the
\* body, to the vault's Durable Object.
PostCommit(r, u) ==
    /\ pc[r] = "idle"
    /\ ~Answered(u)
    /\ pc' = [pc EXCEPT ![r] = "lookup"]
    /\ row' = [row EXCEPT ![r] = VaultRow]
    /\ up' = [up EXCEPT ![r] = u]
    /\ UNCHANGED <<tables, snap, snapCount, now, hinted, replies, failures>>

\* appendCommit refuses a malformed delta with an HttpError of status 400 or 413,
\* thrown inside the Durable Object, whose fetch has no error boundary.
\* stub.fetch rejects in the Worker with a plain Error, which withErrorBoundary
\* answers with 500.
RejectCommit(r) ==
    /\ pc[r] = "lookup"
    /\ Malformed(up[r])
    /\ Return(r)
    /\ UNCHANGED <<tables, snapCount, now, hinted, replies, failures>>

\* The ledger has the key: answer with the recorded stream_seq and the head
\* of the row the Worker read.
AnswerRetry(r) ==
    /\ pc[r] = "lookup"
    /\ ~Malformed(up[r])
    /\ KeyOf(up[r]) \in DOMAIN idem
    /\ Return(r)
    /\ replies' = replies \cup {Reply(up[r], idem[KeyOf(up[r])])}
    /\ UNCHANGED <<tables, snapCount, now, hinted, failures>>

\* The ledger does not have the key: assign the next stream_seq of the row.
AssignSeq(r) ==
    /\ pc[r] = "lookup"
    /\ ~Malformed(up[r])
    /\ KeyOf(up[r]) \notin DOMAIN idem
    /\ pc' = [pc EXCEPT ![r] = "put"]
    /\ UNCHANGED <<tables, row, up, snap, snapCount, now, hinted, replies, failures>>

\* Mutant: the head itself.
HeadSeq(r) == row[r].seq

NextSeq(r) == row[r].seq + 1

\* Mutant: no object is written.
PutNothing(r) ==
    /\ pc[r] = "put"
    /\ pc' = [pc EXCEPT ![r] = "batch"]
    /\ UNCHANGED <<tables, row, up, snap, snapCount, now, hinted, replies, failures>>

\* SYNC_BLOBS.put of the serialized delta.
PutCommitBlob(r) ==
    /\ pc[r] = "put"
    /\ commitBlobs' = commitBlobs \cup {<<NextSeq(r), up[r]>>}
    /\ pc' = [pc EXCEPT ![r] = "batch"]
    /\ UNCHANGED <<vault, commits, idem, replicas, manifests, snapBlobs,
                   row, up, snap, snapCount, now, hinted, replies, failures>>

\* Mutant: INSERT OR REPLACE into vault_commits.
LedgerConflicts(r) == KeyOf(up[r]) \in DOMAIN idem

\* The primary keys of vault_commits and vault_idempotency_keys.
BatchConflicts(r) ==
    \/ NextSeq(r) \in DOMAIN commits
    \/ KeyOf(up[r]) \in DOMAIN idem

\* Mutant: ON CONFLICT DO NOTHING.
InsertReplica(d, n, c) ==
    [x \in DOMAIN replicas \cup {d} |->
        IF x \in DOMAIN replicas THEN replicas[x] ELSE [seq |-> n, clock |-> c]]

\* INSERT INTO vault_replicas ... ON CONFLICT DO UPDATE.
UpsertReplica(d, n, c) ==
    [x \in DOMAIN replicas \cup {d} |->
        IF x = d THEN [seq |-> n, clock |-> c] ELSE replicas[x]]

\* The four statements of DB.batch, one transaction.
CommitBatch(r) ==
    LET n == NextSeq(r)
        u == up[r]
        c == ResultClock(row[r], u)
    IN  /\ pc[r] = "batch"
        /\ ~BatchConflicts(r)
        /\ commits' = [s \in DOMAIN commits \cup {n} |->
                          IF s = n THEN [up |-> u, clock |-> c] ELSE commits[s]]
        /\ idem' = [k \in DOMAIN idem \cup {KeyOf(u)} |->
                          IF k = KeyOf(u) THEN n ELSE idem[k]]
        /\ replicas' = UpsertReplica(u.device, n, c)
        /\ vault' = [seq |-> n, clock |-> c, latest |-> vault.latest]
        /\ pc' = [pc EXCEPT ![r] = "broadcast"]
        /\ UNCHANGED <<manifests, commitBlobs, snapBlobs, row, up, snap, snapCount,
                       now, hinted, replies, failures>>

\* A violated primary key rolls the batch back; the handler answers 500, after
\* which the client retries, and leaves the object it wrote.
ConflictBatch(r) ==
    /\ pc[r] = "batch"
    /\ BatchConflicts(r)
    /\ Return(r)
    /\ UNCHANGED <<tables, snapCount, now, hinted, replies, failures>>

\* commit_available to the open sockets, and the answer to the client.
BroadcastCommit(r) ==
    /\ pc[r] = "broadcast"
    /\ hinted' = hinted \cup {NextSeq(r)}
    /\ replies' = replies \cup {Reply(up[r], NextSeq(r))}
    /\ Return(r)
    /\ UNCHANGED <<tables, snapCount, now, failures>>

---------------------------------------------------------------------------
\* PUT /v1/vaults/:id/snapshot

\* A device that has applied the stream up to base uploads its export, in the
\* second of the snapshot before it or later.
PutSnapshot(r, base, clock, at) ==
    /\ pc[r] = "idle"
    /\ snapCount < MaxSnapshots
    /\ snapCount' = snapCount + 1
    /\ snap' = [snap EXCEPT ![r] = Snapshot(snapCount + 1, base, clock, at)]
    /\ now' = at
    /\ row' = [row EXCEPT ![r] = VaultRow]
    /\ pc' = [pc EXCEPT ![r] = "snapPut"]
    /\ UNCHANGED <<tables, up, hinted, replies, failures>>

PutSnapshotBlob(r) ==
    /\ pc[r] = "snapPut"
    /\ snapBlobs' = snapBlobs \cup {snap[r].id}
    /\ pc' = [pc EXCEPT ![r] = "snapManifest"]
    /\ UNCHANGED <<vault, commits, idem, replicas, manifests, commitBlobs,
                   row, up, snap, snapCount, now, hinted, replies, failures>>

InsertSnapshotManifest(r) ==
    /\ pc[r] = "snapManifest"
    /\ manifests' = manifests \cup {Manifest(snap[r], row[r])}
    /\ pc' = [pc EXCEPT ![r] = "snapLatest"]
    /\ UNCHANGED <<vault, commits, idem, replicas, commitBlobs, snapBlobs,
                   row, up, snap, snapCount, now, hinted, replies, failures>>

\* setLatestSnapshot, one UPDATE evaluated by D1 on the current row.
SetLatestSnapshot(r) ==
    /\ pc[r] = "snapLatest"
    /\ vault' = [seq |-> vault.seq,
                 clock |-> MaxOf(vault.clock, snap[r].clock),
                 latest |-> snap[r].id]
    /\ Return(r)
    /\ UNCHANGED <<commits, idem, replicas, manifests, commitBlobs, snapBlobs,
                   snapCount, now, hinted, replies, failures>>

---------------------------------------------------------------------------
\* Environment

\* The isolate dies, a D1 or R2 call fails, or the answer is lost: whatever
\* the handler has not yet done is not done.
Fail(r) ==
    /\ pc[r] # "idle"
    /\ failures < MaxFailures
    /\ failures' = failures + 1
    /\ Return(r)
    /\ UNCHANGED <<tables, snapCount, now, hinted, replies>>

---------------------------------------------------------------------------
\* One step of a handler that has started.
HandlerStep(r) ==
    \/ RejectCommit(r)
    \/ AnswerRetry(r)
    \/ AssignSeq(r)
    \/ PutCommitBlob(r)
    \/ CommitBatch(r)
    \/ ConflictBatch(r)
    \/ BroadcastCommit(r)
    \/ PutSnapshotBlob(r)
    \/ InsertSnapshotManifest(r)
    \/ SetLatestSnapshot(r)

Next ==
    \E r \in Slots :
        \/ \E u \in Uploads : PostCommit(r, u)
        \/ \E base \in 0..vault.seq, clock \in SnapshotClocks, at \in now..MaxTime :
              PutSnapshot(r, base, clock, at)
        \/ HandlerStep(r)
        \/ Fail(r)

Spec == Init /\ [][Next]_vars
---------------------------------------------------------------------------
\* Properties

Seqs == 1..Cardinality(Uploads)
RowType == [seq : Nat, clock : Nat]
CommitRow == [up : Uploads, clock : Nat]
SnapshotType == [id : Nat, base : Nat, clock : Nat, at : Nat]
ManifestType == [id : Nat, base : Nat, seq : Nat, clock : Nat, at : Nat]
ReplyType == [up : Uploads, seq : Nat]
PCs == {"idle", "lookup", "put", "batch", "broadcast",
        "snapPut", "snapManifest", "snapLatest"}

\* The rows of every table and the state of every handler have their types.
TypeOK ==
    /\ vault \in [seq : Nat, clock : Nat, latest : Nat]
    /\ DOMAIN commits \subseteq Nat
    /\ \A s \in DOMAIN commits : commits[s] \in CommitRow
    /\ DOMAIN idem \subseteq {KeyOf(u) : u \in Uploads}
    /\ \A k \in DOMAIN idem : idem[k] \in Nat
    /\ DOMAIN replicas \subseteq Devices
    /\ \A d \in DOMAIN replicas : replicas[d] \in RowType
    /\ manifests \subseteq ManifestType
    /\ commitBlobs \subseteq Nat \X Uploads
    /\ snapBlobs \subseteq Nat
    /\ pc \in [Slots -> PCs]
    /\ row \in [Slots -> RowType]
    /\ up \in [Slots -> Uploads]
    /\ snap \in [Slots -> SnapshotType]
    /\ snapCount \in Nat /\ now \in Nat /\ failures \in Nat
    /\ hinted \subseteq Nat
    /\ replies \subseteq ReplyType

\* However the handlers interleave, conflict and fail, the accepted commits
\* occupy exactly the positions 1..current_stream_seq: a client that pulls by
\* after_seq meets no gap and no commit lies beyond the head.
StreamDense == DOMAIN commits = 1..vault.seq

\* The ledger and the stream name each other: a retried upload is in the
\* stream once, at the position the ledger answers with.
AcceptedOnce ==
    /\ \A s \in DOMAIN commits :
          KeyOf(commits[s].up) \in DOMAIN idem /\ idem[KeyOf(commits[s].up)] = s
    /\ \A k \in DOMAIN idem :
          idem[k] \in DOMAIN commits /\ KeyOf(commits[idem[k]].up) = k

\* "a D1 failure after an R2 write can leave an orphan blob, but not a visible
\* partial commit": every row a reader can find has its object in R2, and
\* latest_snapshot_id has its manifest.
NoPartialCommit ==
    /\ \A s \in DOMAIN commits : <<s, commits[s].up>> \in commitBlobs
    /\ \A m \in manifests : m.id \in snapBlobs
    /\ \E m \in manifests : m.id = vault.latest

\* The logical head covers every accepted commit and result clocks never fall
\* along the stream, although each is computed from a row read earlier.
HeadCoversCommits ==
    \A s \in DOMAIN commits :
        /\ commits[s].clock <= vault.clock
        /\ \A t \in DOMAIN commits : s <= t => commits[s].clock <= commits[t].clock

\* What a 200 told a client stays true: its upload is the commit at the
\* stream_seq it was given.
AckedIsCommitted ==
    \A a \in replies : a.seq \in DOMAIN commits /\ commits[a.seq].up = a.up

\* A commit_available hint is sent only for a commit a pull will return.
HintsFollowCommit == hinted \subseteq DOMAIN commits

\* vault_replicas holds, for each device, its newest accepted commit, not the
\* one whose handler finished last.
ReplicaIsNewestCommit ==
    \A s \in DOMAIN commits :
        LET d == commits[s].up.device
        IN  d \in DOMAIN replicas /\ s <= replicas[d].seq

\* What a commit sets off is true of the stream, in well-typed states: the head,
\* the hints and the replica rows are written by handlers that race each other,
\* and none names a commit that is not there or falls behind one that is.
EffectsFollowCommit ==
    /\ TypeOK
    /\ HeadCoversCommits
    /\ HintsFollowCommit
    /\ ReplicaIsNewestCommit

\* Accepted commits are never rewritten, moved or dropped, and the stream head
\* never goes back.
AppendOnly ==
    [][ /\ vault'.seq >= vault.seq
        /\ \A s \in DOMAIN commits : s \in DOMAIN commits' /\ commits'[s] = commits[s] ]_vars

\* The vault's stream is an append-only log that contains each upload at most
\* once and in which every acknowledgement is true (CommitLog).
Log == INSTANCE CommitLog WITH
          length <- vault.seq,
          entry <- [s \in DOMAIN commits |-> commits[s].up],
          told <- {<<a.up, a.seq>> : a \in replies}
ImplementsCommitLog == Log!LogSpec

---------------------------------------------------------------------------
\* What makes these properties inductive.

\* The row a handler works from was the vault's row at some earlier moment: its
\* position is not beyond the head, and its clock covers the commits up to it.
RowsAreOld ==
    \A r \in Slots :
        /\ row[r].seq <= vault.seq
        /\ \A s \in DOMAIN commits : s <= row[r].seq => commits[s].clock <= row[r].clock

\* What a handler has done before the step it is about to take.
HandlersOnTrack ==
    \A r \in Slots :
        /\ pc[r] = "batch" => <<NextSeq(r), up[r]>> \in commitBlobs
        /\ pc[r] = "broadcast" => NextSeq(r) \in DOMAIN commits /\ commits[NextSeq(r)].up = up[r]
        /\ pc[r] = "snapManifest" => snap[r].id \in snapBlobs
        /\ pc[r] = "snapLatest" => \E m \in manifests : m.id = snap[r].id

\* The inductive invariant of the proofs: stale rows never let a handler write
\* anything the safety properties forbid.
Inv ==
    /\ TypeOK
    /\ StreamDense
    /\ AcceptedOnce
    /\ HeadCoversCommits
    /\ RowsAreOld
    /\ HandlersOnTrack
    /\ NoPartialCommit
    /\ AckedIsCommitted
    /\ HintsFollowCommit
    /\ ReplicaIsNewestCommit

---------------------------------------------------------------------------
\* A device that keeps retrying a well-formed upload with the same key is
\* eventually told where it is, among racing handlers whose batches conflict,
\* a handler that dies or whose answer is lost, and malformed uploads retried for
\* ever beside it.
EveryUploadAnswered == \A u \in Uploads : ~Malformed(u) => <>Answered(u)
=============================================================================
