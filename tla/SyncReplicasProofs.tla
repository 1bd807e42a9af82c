-------------------------- MODULE SyncReplicasProofs --------------------------
(***************************************************************************)
(* Proofs about the service and its readers: first about VaultAuthority,   *)
(* for every number of request slots, every set of uploads and every       *)
(* number of snapshots and failures, then about SyncReplicas, for any      *)
(* number of devices, handlers and uploads and any limits.  The readers    *)
(* change none of the writers' tables, so the invariant Inv of             *)
(* VaultAuthority holds beside them; a device's cursor is then sound       *)
(* because accepted commits are dense, never rewritten and appended only   *)
(* beyond the head that was read.                                          *)
(***************************************************************************)
EXTENDS SyncReplicas, TLAPS, FiniteSetTheorems

(***************************************************************************)
(* VaultAuthority.                                                         *)
(***************************************************************************)

---------------------------------------------------------------------------
\* Facts about the helpers

\* MaxOf is one of its arguments and bounds both.
LEMMA MaxOfNat ==
    ASSUME NEW a \in Nat, NEW b \in Nat
    PROVE  MaxOf(a, b) \in Nat /\ MaxOf(a, b) >= a /\ MaxOf(a, b) >= b
BY DEF MaxOf

\* resultLogicalClock is a clock at or above the row's.
LEMMA ResultClockNat ==
    ASSUME NEW vaultRow \in RowType, NEW u \in Uploads
    PROVE  ResultClock(vaultRow, u) \in Nat /\ ResultClock(vaultRow, u) >= vaultRow.clock
<1>1. u.to \in Nat /\ u.recordClock \in Nat
  BY UploadsAssumption
<1>2. MaxOf(u.to, u.recordClock) \in Nat
  BY <1>1, MaxOfNat
<1>. QED
  BY <1>2, MaxOfNat DEF ResultClock, RowType

\* A row carries an upload, and a default one exists.
LEMMA NoUploadIsUpload == NoUpload \in Uploads
BY UploadsAssumption DEF NoUpload

\* The ledger key determines the upload.
LEMMA KeyOfInjective ==
    ASSUME NEW u \in Uploads, NEW w \in Uploads, KeyOf(u) = KeyOf(w)
    PROVE  u = w
BY UploadsAssumption DEF KeyOf

---------------------------------------------------------------------------
\* Type correctness

\* Returning from a handler keeps the types of its locals.
LEMMA ReturnType ==
    ASSUME TypeOK, NEW r \in Slots, Return(r)
    PROVE  /\ pc' \in [Slots -> PCs]
           /\ row' \in [Slots -> RowType]
           /\ up' \in [Slots -> Uploads]
           /\ snap' \in [Slots -> SnapshotType]
BY NoUploadIsUpload DEF TypeOK, Return, PCs, RowType, SnapshotType, NoSnapshot, Snapshot

\* The initial state is well typed.
LEMMA InitType == Init => TypeOK
<1>. SUFFICES ASSUME Init PROVE TypeOK
  OBVIOUS
<1>1. manifests \subseteq ManifestType
  BY DEF Init, Manifest, NoSnapshot, Snapshot, ManifestType, MaxOf
<1>2. snap \in [Slots -> SnapshotType]
  BY DEF Init, NoSnapshot, Snapshot, SnapshotType
<1>. QED
  BY <1>1, <1>2, NoUploadIsUpload DEF Init, TypeOK, RowType, PCs

\* Every step keeps the types.
LEMMA StepType == TypeOK /\ [Next]_vars => TypeOK'
<1>. SUFFICES ASSUME TypeOK, [Next]_vars PROVE TypeOK'
  OBVIOUS
<1>1. ASSUME NEW r \in Slots, NEW u \in Uploads, PostCommit(r, u) PROVE TypeOK'
  BY <1>1 DEF PostCommit, TypeOK, tables, RowType, VaultRow, PCs, CommitRow
<1>2. ASSUME NEW r \in Slots, NEW base \in 0..vault.seq, NEW clock \in SnapshotClocks,
             NEW at \in now..MaxTime, PutSnapshot(r, base, clock, at)
      PROVE TypeOK'
  <2>1. base \in Nat /\ clock \in Nat /\ at \in Nat
    BY BoundsAssumption DEF TypeOK
  <2>. QED
    BY <1>2, <2>1 DEF PutSnapshot, TypeOK, tables, RowType, VaultRow, PCs, CommitRow,
                      Snapshot, SnapshotType
<1>3. ASSUME NEW r \in Slots, RejectCommit(r) PROVE TypeOK'
  BY <1>3, ReturnType DEF RejectCommit, TypeOK, tables, ReplyType, Reply, CommitRow
<1>4. ASSUME NEW r \in Slots, AnswerRetry(r) PROVE TypeOK'
  <2>1. Reply(up[r], idem[KeyOf(up[r])]) \in ReplyType
    BY <1>4 DEF AnswerRetry, TypeOK, ReplyType, Reply, RowType
  <2>. QED
    BY <1>4, <2>1, ReturnType DEF AnswerRetry, TypeOK, tables
<1>5. ASSUME NEW r \in Slots, AssignSeq(r) PROVE TypeOK'
  BY <1>5 DEF AssignSeq, TypeOK, tables, PCs
<1>6. ASSUME NEW r \in Slots, PutCommitBlob(r) PROVE TypeOK'
  <2>1. <<NextSeq(r), up[r]>> \in Nat \X Uploads
    BY DEF NextSeq, TypeOK, RowType
  <2>. QED
    BY <1>6, <2>1 DEF PutCommitBlob, TypeOK, PCs
<1>7. ASSUME NEW r \in Slots, CommitBatch(r) PROVE TypeOK'
  <2>. DEFINE n == NextSeq(r)
              u == up[r]
              c == ResultClock(row[r], u)
  <2>1. n \in Nat /\ u \in Uploads /\ c \in Nat
    BY ResultClockNat DEF NextSeq, TypeOK, RowType
  <2>2. DOMAIN commits' \subseteq Nat /\ \A s \in DOMAIN commits' : commits'[s] \in CommitRow
    BY <1>7, <2>1 DEF CommitBatch, TypeOK, CommitRow
  <2>3. /\ DOMAIN idem' \subseteq {KeyOf(w) : w \in Uploads}
        /\ \A k \in DOMAIN idem' : idem'[k] \in Nat
    BY <1>7, <2>1 DEF CommitBatch, TypeOK
  <2>4. /\ DOMAIN replicas' \subseteq Devices
        /\ \A d \in DOMAIN replicas' : replicas'[d] \in RowType
    BY <1>7, <2>1 DEF CommitBatch, TypeOK, UpsertReplica, Devices, RowType
  <2>5. vault' \in [seq : Nat, clock : Nat, latest : Nat]
    BY <1>7, <2>1 DEF CommitBatch, TypeOK
  <2>6. pc' \in [Slots -> PCs]
    BY <1>7 DEF CommitBatch, TypeOK, PCs
  <2>. QED
    BY <1>7, <2>2, <2>3, <2>4, <2>5, <2>6 DEF CommitBatch, TypeOK
<1>8. ASSUME NEW r \in Slots, ConflictBatch(r) PROVE TypeOK'
  BY <1>8, ReturnType DEF ConflictBatch, TypeOK, tables, ReplyType, Reply
<1>9. ASSUME NEW r \in Slots, BroadcastCommit(r) PROVE TypeOK'
  <2>1. NextSeq(r) \in Nat /\ ResultClock(row[r], up[r]) \in Nat
    BY ResultClockNat DEF NextSeq, TypeOK, RowType
  <2>2. Reply(up[r], NextSeq(r)) \in ReplyType
    BY <2>1 DEF TypeOK, ReplyType, Reply
  <2>. QED
    BY <1>9, <2>1, <2>2, ReturnType DEF BroadcastCommit, TypeOK, tables
<1>10. ASSUME NEW r \in Slots, PutSnapshotBlob(r) PROVE TypeOK'
  BY <1>10 DEF PutSnapshotBlob, TypeOK, PCs, SnapshotType
<1>11. ASSUME NEW r \in Slots, InsertSnapshotManifest(r) PROVE TypeOK'
  <2>1. Manifest(snap[r], row[r]) \in ManifestType
    BY MaxOfNat DEF Manifest, ManifestType, TypeOK, SnapshotType, RowType
  <2>. QED
    BY <1>11, <2>1 DEF InsertSnapshotManifest, TypeOK, PCs
<1>12. ASSUME NEW r \in Slots, SetLatestSnapshot(r) PROVE TypeOK'
  <2>1. vault' \in [seq : Nat, clock : Nat, latest : Nat]
    BY <1>12, MaxOfNat DEF SetLatestSnapshot, TypeOK, SnapshotType
  <2>. QED
    BY <1>12, <2>1, ReturnType DEF SetLatestSnapshot, TypeOK
<1>13. ASSUME NEW r \in Slots, Fail(r) PROVE TypeOK'
  BY <1>13, ReturnType DEF Fail, TypeOK, tables
<1>14. CASE UNCHANGED vars
  BY <1>14 DEF vars, tables, TypeOK
<1>. QED
  BY <1>1, <1>2, <1>3, <1>4, <1>5, <1>6, <1>7, <1>8, <1>9, <1>10, <1>11, <1>12, <1>13, <1>14
  DEF Next, HandlerStep

\* Every table and every handler keeps its type in every behaviour.
THEOREM TypeCorrect == Spec => []TypeOK
BY InitType, StepType, PTL DEF Spec

---------------------------------------------------------------------------
\* What a step may do

\* Only the batch adds to the stream, the ledger and the replicas; any other
\* step leaves them alone and does not lower the logical head.
LEMMA OnlyBatchCommits ==
    ASSUME TypeOK, [Next]_vars
    PROVE  \/ \E r \in Slots : CommitBatch(r)
           \/ /\ UNCHANGED <<commits, idem, replicas>>
              /\ vault'.seq = vault.seq
              /\ vault'.clock >= vault.clock
<1>1. CASE UNCHANGED vault /\ UNCHANGED <<commits, idem, replicas>>
  BY <1>1 DEF TypeOK
<1>2. ASSUME NEW r \in Slots, SetLatestSnapshot(r)
      PROVE  /\ UNCHANGED <<commits, idem, replicas>>
             /\ vault'.seq = vault.seq
             /\ vault'.clock >= vault.clock
  BY <1>2, MaxOfNat DEF SetLatestSnapshot, TypeOK, SnapshotType
<1>. QED
  BY <1>1, <1>2 DEF Next, HandlerStep, vars, tables, PostCommit, PutSnapshot, RejectCommit,
        AnswerRetry, AssignSeq, PutCommitBlob, ConflictBatch, BroadcastCommit, PutSnapshotBlob,
        InsertSnapshotManifest, Fail

\* A handler's row is kept, dropped, or the vault's row of this moment.
LEMMA RowStep ==
    ASSUME TypeOK, [Next]_vars, NEW r \in Slots
    PROVE  \/ row'[r] = row[r]
           \/ row'[r] = [seq |-> 0, clock |-> 0]
           \/ row'[r] = VaultRow /\ UNCHANGED tables
<1>. DEFINE Kept(q) == \/ row'[q] = row[q]
                       \/ row'[q] = [seq |-> 0, clock |-> 0]
                       \/ row'[q] = VaultRow /\ UNCHANGED tables
<1>1. row \in [Slots -> RowType]
  BY DEF TypeOK
<1>2. ASSUME NEW q \in Slots, Return(q) PROVE Kept(r)
  BY <1>1, <1>2 DEF Return
<1>3. ASSUME NEW q \in Slots, row' = [row EXCEPT ![q] = VaultRow], UNCHANGED tables PROVE Kept(r)
  BY <1>1, <1>3
<1>4. CASE UNCHANGED row
  BY <1>4
<1>. QED
  BY <1>2, <1>3, <1>4 DEF Next, HandlerStep, vars, PostCommit, PutSnapshot, RejectCommit,
        AnswerRetry, AssignSeq, PutCommitBlob, CommitBatch, ConflictBatch, BroadcastCommit,
        PutSnapshotBlob, InsertSnapshotManifest, SetLatestSnapshot, Fail

---------------------------------------------------------------------------
\* The stream

\* Handler r extends the stream by one commit, made from a row at its head.
AppendsAtHead(r) ==
    /\ vault.seq \in Nat
    /\ NextSeq(r) = vault.seq + 1
    /\ row[r].seq = vault.seq
    /\ DOMAIN commits = 1..vault.seq
    /\ DOMAIN commits' = DOMAIN commits \cup {vault.seq + 1}
    /\ vault'.seq = vault.seq + 1
    /\ vault'.clock = ResultClock(row[r], up[r])
    /\ \A s \in DOMAIN commits : commits'[s] = commits[s]
    /\ commits'[vault.seq + 1].up = up[r]
    /\ commits'[vault.seq + 1].clock = ResultClock(row[r], up[r])

\* A batch that goes through was computed from the current head: the stale rows
\* are exactly those whose stream_seq is taken.
LEMMA BatchAtHead ==
    ASSUME TypeOK, StreamDense, RowsAreOld, NEW r \in Slots, CommitBatch(r)
    PROVE  AppendsAtHead(r)
<1>1. row[r].seq \in Nat /\ vault.seq \in Nat /\ row[r].seq <= vault.seq
  BY DEF TypeOK, RowType, RowsAreOld
<1>2. NextSeq(r) \notin 1..vault.seq
  BY DEF CommitBatch, BatchConflicts, StreamDense
<1>3. NextSeq(r) = vault.seq + 1
  BY <1>1, <1>2 DEF NextSeq
<1>. QED
  BY <1>1, <1>3 DEF CommitBatch, StreamDense, NextSeq, AppendsAtHead

\* The stream stays dense.
LEMMA DenseStep ==
    ASSUME TypeOK, StreamDense, RowsAreOld, [Next]_vars
    PROVE  StreamDense'
<1>1. ASSUME NEW r \in Slots, CommitBatch(r) PROVE StreamDense'
  <2>1. AppendsAtHead(r)
    BY <1>1, BatchAtHead
  <2>. QED
    BY <2>1 DEF AppendsAtHead, StreamDense
<1>2. CASE UNCHANGED <<commits, idem, replicas>> /\ vault'.seq = vault.seq
  BY <1>2 DEF StreamDense
<1>. QED
  BY <1>1, <1>2, OnlyBatchCommits

\* Clocks never fall along the stream and stay at or below the head.
LEMMA HeadStep ==
    ASSUME TypeOK, StreamDense, RowsAreOld, HeadCoversCommits, [Next]_vars
    PROVE  HeadCoversCommits'
<1>1. \A s \in DOMAIN commits : commits[s].clock \in Nat /\ s \in Nat
  BY DEF TypeOK, CommitRow
<1>2. vault.seq \in Nat /\ vault.clock \in Nat /\ vault'.clock \in Nat
  BY StepType DEF TypeOK
<1>3. ASSUME NEW r \in Slots, CommitBatch(r) PROVE HeadCoversCommits'
  <2>. DEFINE n == vault.seq + 1
              c == ResultClock(row[r], up[r])
  <2>0. AppendsAtHead(r)
    BY <1>3, BatchAtHead
  <2>1. c \in Nat /\ c >= row[r].clock /\ row[r].clock \in Nat
    BY ResultClockNat DEF TypeOK, RowType
  <2>2. \A s \in DOMAIN commits : s <= vault.seq
    BY <1>2 DEF StreamDense
  <2>3. \A s \in DOMAIN commits : commits[s].clock <= c
    BY <1>1, <2>0, <2>1, <2>2 DEF AppendsAtHead, RowsAreOld
  <2>4. DOMAIN commits' = DOMAIN commits \cup {n}
    BY <2>0 DEF AppendsAtHead
  <2>5. commits'[n].clock = c /\ vault'.clock = c
    BY <2>0 DEF AppendsAtHead
  <2>6. \A s \in DOMAIN commits : commits'[s] = commits[s]
    BY <2>0 DEF AppendsAtHead
  <2>7. \A s \in DOMAIN commits' : commits'[s].clock <= c
    BY <2>1, <2>3, <2>4, <2>5, <2>6
  <2>8. ASSUME NEW s \in DOMAIN commits', NEW t \in DOMAIN commits', s <= t
        PROVE  commits'[s].clock <= commits'[t].clock
    <3>1. CASE t = n
      BY <3>1, <2>5, <2>7
    <3>2. CASE t \in DOMAIN commits /\ s \in DOMAIN commits
      BY <3>2, <2>6, <2>8 DEF HeadCoversCommits
    <3>3. CASE t \in DOMAIN commits /\ s = n
      BY <3>3, <2>2, <2>8, <1>1, <1>2
    <3>. QED
      BY <2>4, <3>1, <3>2, <3>3
  <2>. QED
    BY <2>5, <2>7, <2>8 DEF HeadCoversCommits
<1>4. CASE UNCHANGED <<commits, idem, replicas>> /\ vault'.clock >= vault.clock
  BY <1>1, <1>2, <1>4 DEF HeadCoversCommits
<1>. QED
  BY <1>3, <1>4, OnlyBatchCommits

\* The row a handler holds stays an old row of the vault.
LEMMA RowsStep ==
    ASSUME TypeOK, StreamDense, RowsAreOld, HeadCoversCommits, [Next]_vars
    PROVE  RowsAreOld'
<1>. SUFFICES ASSUME NEW r \in Slots
     PROVE  /\ row'[r].seq <= vault'.seq
            /\ \A s \in DOMAIN commits' :
                  s <= row'[r].seq => commits'[s].clock <= row'[r].clock
  BY DEF RowsAreOld
<1>0. (\E q \in Slots : AppendsAtHead(q)) \/ (UNCHANGED commits /\ vault'.seq = vault.seq)
  BY OnlyBatchCommits, BatchAtHead
<1>1. vault.seq \in Nat /\ vault'.seq \in Nat /\ vault'.seq >= vault.seq
  <2>1. vault.seq \in Nat
    BY DEF TypeOK
  <2>. QED
    BY <1>0, <2>1 DEF AppendsAtHead
<1>2. DOMAIN commits' = 1..vault'.seq
  BY DenseStep DEF StreamDense
<1>3. \A s \in 1..vault.seq : commits'[s] = commits[s]
  BY <1>0 DEF AppendsAtHead, StreamDense
<1>4. row[r].seq \in Nat /\ row[r].seq <= vault.seq
  BY DEF TypeOK, RowType, RowsAreOld
<1>5. CASE row'[r] = row[r]
  <2>1. \A s \in DOMAIN commits' : s <= row[r].seq => s \in 1..vault.seq
    BY <1>1, <1>2, <1>4
  <2>. QED
    BY <1>1, <1>3, <1>4, <1>5, <2>1 DEF RowsAreOld, StreamDense
<1>6. CASE row'[r] = [seq |-> 0, clock |-> 0]
  BY <1>1, <1>2, <1>6
<1>7. CASE row'[r] = VaultRow /\ UNCHANGED tables
  BY <1>1, <1>7 DEF VaultRow, tables, HeadCoversCommits
<1>. QED
  BY <1>5, <1>6, <1>7, RowStep

---------------------------------------------------------------------------
\* The ledger

\* A batch enters its upload in the ledger at the position it takes.
LEMMA LedgerStep ==
    ASSUME TypeOK, StreamDense, RowsAreOld, AcceptedOnce, [Next]_vars
    PROVE  AcceptedOnce'
<1>1. ASSUME NEW r \in Slots, CommitBatch(r) PROVE AcceptedOnce'
  <2>. DEFINE n == vault.seq + 1
              k0 == KeyOf(up[r])
  <2>1. AppendsAtHead(r)
    BY <1>1, BatchAtHead
  <2>2. /\ DOMAIN idem' = DOMAIN idem \cup {k0}
        /\ idem'[k0] = n
        /\ \A k \in DOMAIN idem : k # k0 /\ idem'[k] = idem[k]
    BY <1>1, <2>1 DEF CommitBatch, BatchConflicts, AppendsAtHead
  <2>3. n \notin DOMAIN commits
    BY <2>1 DEF AppendsAtHead
  <2>4. ASSUME NEW s \in DOMAIN commits'
        PROVE  KeyOf(commits'[s].up) \in DOMAIN idem' /\ idem'[KeyOf(commits'[s].up)] = s
    <3>1. CASE s = n
      BY <2>1, <2>2, <3>1 DEF AppendsAtHead
    <3>2. CASE s \in DOMAIN commits
      BY <2>1, <2>2, <3>2 DEF AppendsAtHead, AcceptedOnce
    <3>. QED
      BY <2>1, <3>1, <3>2 DEF AppendsAtHead
  <2>5. ASSUME NEW k \in DOMAIN idem'
        PROVE  idem'[k] \in DOMAIN commits' /\ KeyOf(commits'[idem'[k]].up) = k
    <3>1. CASE k = k0
      BY <2>1, <2>2, <3>1 DEF AppendsAtHead
    <3>2. CASE k \in DOMAIN idem
      BY <2>1, <2>2, <3>2 DEF AppendsAtHead, AcceptedOnce
    <3>. QED
      BY <2>2, <3>1, <3>2
  <2>. QED
    BY <2>4, <2>5 DEF AcceptedOnce
<1>2. CASE UNCHANGED <<commits, idem, replicas>>
  BY <1>2 DEF AcceptedOnce
<1>. QED
  BY <1>1, <1>2, OnlyBatchCommits

---------------------------------------------------------------------------
\* Objects, hints and answers

\* Accepted commits stay where they are, and nothing is deleted from R2, the
\* manifests, the hints or the answers.
Grows ==
    /\ \A s \in DOMAIN commits : s \in DOMAIN commits' /\ commits'[s] = commits[s]
    /\ commitBlobs \subseteq commitBlobs'
    /\ snapBlobs \subseteq snapBlobs'
    /\ manifests \subseteq manifests'

\* No step takes away what a row or an answer refers to.
LEMMA GrowsStep ==
    ASSUME TypeOK, StreamDense, RowsAreOld, [Next]_vars
    PROVE  Grows
<1>1. \A s \in DOMAIN commits : s \in DOMAIN commits' /\ commits'[s] = commits[s]
  <2>1. (\E q \in Slots : AppendsAtHead(q)) \/ UNCHANGED commits
    BY OnlyBatchCommits, BatchAtHead
  <2>. QED
    BY <2>1 DEF AppendsAtHead
<1>2. /\ commitBlobs \subseteq commitBlobs'
      /\ snapBlobs \subseteq snapBlobs'
      /\ manifests \subseteq manifests'
  BY DEF Next, HandlerStep, vars, tables, PostCommit, PutSnapshot, RejectCommit,
        AnswerRetry, AssignSeq, PutCommitBlob, CommitBatch, ConflictBatch, BroadcastCommit,
        PutSnapshotBlob, InsertSnapshotManifest, SetLatestSnapshot, Fail
<1>. QED
  BY <1>1, <1>2 DEF Grows

\* What a handler that did not move keeps: its place, its row and its request.
SameHandler(r) == pc'[r] = pc[r] /\ row'[r] = row[r] /\ up'[r] = up[r] /\ snap'[r] = snap[r]

\* A handler either stays as it is, or has just started or returned, or has
\* taken one of the steps that HandlersOnTrack is about.
LEMMA HandlerMoves ==
    ASSUME TypeOK, [Next]_vars, NEW r \in Slots
    PROVE  \/ SameHandler(r)
           \/ pc'[r] \in {"idle", "lookup", "put", "snapPut"}
           \/ PutCommitBlob(r) \/ CommitBatch(r) \/ PutSnapshotBlob(r) \/ InsertSnapshotManifest(r)
<1>. DEFINE Moved(q) ==
           \/ SameHandler(q)
           \/ pc'[q] \in {"idle", "lookup", "put", "snapPut"}
           \/ PutCommitBlob(q) \/ CommitBatch(q) \/ PutSnapshotBlob(q) \/ InsertSnapshotManifest(q)
<1>0. pc \in [Slots -> PCs] /\ row \in [Slots -> RowType] /\ up \in [Slots -> Uploads]
      /\ snap \in [Slots -> SnapshotType]
  BY DEF TypeOK
<1>1. ASSUME NEW q \in Slots, Return(q) PROVE Moved(r)
  BY <1>0, <1>1 DEF Return, SameHandler
<1>2. ASSUME NEW q \in Slots, NEW u \in Uploads, PostCommit(q, u) PROVE Moved(r)
  BY <1>0, <1>2 DEF PostCommit, SameHandler
<1>3. ASSUME NEW q \in Slots, NEW base, NEW clock, NEW at, PutSnapshot(q, base, clock, at)
      PROVE Moved(r)
  BY <1>0, <1>3 DEF PutSnapshot, SameHandler
<1>4. ASSUME NEW q \in Slots, AssignSeq(q) PROVE Moved(r)
  BY <1>0, <1>4 DEF AssignSeq, SameHandler
<1>5. ASSUME NEW q \in Slots,
             PutCommitBlob(q) \/ CommitBatch(q) \/ PutSnapshotBlob(q) \/ InsertSnapshotManifest(q)
      PROVE  Moved(r)
  <2>1. CASE q = r
    BY <1>5, <2>1
  <2>2. CASE q # r
    BY <1>0, <1>5, <2>2 DEF PutCommitBlob, CommitBatch, PutSnapshotBlob, InsertSnapshotManifest,
                            SameHandler
  <2>. QED
    BY <2>1, <2>2
<1>6. CASE UNCHANGED <<pc, row, up, snap>>
  BY <1>6 DEF SameHandler
<1>. QED
  BY <1>1, <1>2, <1>3, <1>4, <1>5, <1>6 DEF Next, HandlerStep, vars, RejectCommit, AnswerRetry,
        ConflictBatch, BroadcastCommit, SetLatestSnapshot, Fail

\* Every handler has done what its place says.
LEMMA TrackStep ==
    ASSUME TypeOK, StreamDense, RowsAreOld, HandlersOnTrack, [Next]_vars
    PROVE  HandlersOnTrack'
<1>. DEFINE OnTrack(r) ==
        /\ pc[r] = "batch" => <<NextSeq(r), up[r]>> \in commitBlobs
        /\ pc[r] = "broadcast" => NextSeq(r) \in DOMAIN commits /\ commits[NextSeq(r)].up = up[r]
        /\ pc[r] = "snapManifest" => snap[r].id \in snapBlobs
        /\ pc[r] = "snapLatest" => \E m \in manifests : m.id = snap[r].id
<1>. SUFFICES ASSUME NEW r \in Slots PROVE OnTrack(r)'
  BY DEF HandlersOnTrack
<1>0. Grows
  BY GrowsStep
<1>1. OnTrack(r)
  BY DEF HandlersOnTrack
<1>2. CASE SameHandler(r)
  BY <1>0, <1>1, <1>2 DEF SameHandler, Grows, NextSeq
<1>3. CASE pc'[r] \in {"idle", "lookup", "put", "snapPut"}
  BY <1>3
<1>4. CASE PutCommitBlob(r)
  BY <1>4 DEF PutCommitBlob, TypeOK, NextSeq
<1>5. CASE CommitBatch(r)
  <2>1. AppendsAtHead(r)
    BY <1>5, BatchAtHead
  <2>2. pc'[r] = "broadcast" /\ UNCHANGED <<row, up>>
    BY <1>5 DEF CommitBatch, TypeOK
  <2>. QED
    BY <2>1, <2>2 DEF AppendsAtHead, NextSeq
<1>6. CASE PutSnapshotBlob(r)
  BY <1>6 DEF PutSnapshotBlob, TypeOK
<1>7. CASE InsertSnapshotManifest(r)
  <2>1. Manifest(snap[r], row[r]).id = snap[r].id
    BY DEF Manifest
  <2>. QED
    BY <1>7, <2>1 DEF InsertSnapshotManifest, TypeOK
<1>. QED
  BY <1>2, <1>3, <1>4, <1>5, <1>6, <1>7, HandlerMoves

\* A row becomes visible only when its object is there.
LEMMA PartialStep ==
    ASSUME TypeOK, StreamDense, RowsAreOld, HandlersOnTrack, NoPartialCommit, [Next]_vars
    PROVE  NoPartialCommit'
<1>0. Grows
  BY GrowsStep
<1>1. \A s \in DOMAIN commits' : <<s, commits'[s].up>> \in commitBlobs'
  <2>1. ASSUME NEW r \in Slots, CommitBatch(r)
        PROVE  \A s \in DOMAIN commits' : <<s, commits'[s].up>> \in commitBlobs'
    <3>1. AppendsAtHead(r)
      BY <2>1, BatchAtHead
    <3>2. <<vault.seq + 1, up[r]>> \in commitBlobs
      BY <2>1, <3>1 DEF CommitBatch, HandlersOnTrack, AppendsAtHead
    <3>. QED
      BY <1>0, <3>1, <3>2 DEF AppendsAtHead, Grows, NoPartialCommit
  <2>2. CASE UNCHANGED commits
    BY <1>0, <2>2 DEF Grows, NoPartialCommit
  <2>. QED
    BY <2>1, <2>2, OnlyBatchCommits
<1>2. \A m \in manifests' : m.id \in snapBlobs'
  <2>1. ASSUME NEW r \in Slots, InsertSnapshotManifest(r)
        PROVE  \A m \in manifests' : m.id \in snapBlobs'
    <3>1. Manifest(snap[r], row[r]).id = snap[r].id
      BY DEF Manifest
    <3>. QED
      BY <2>1, <3>1 DEF InsertSnapshotManifest, HandlersOnTrack, NoPartialCommit
  <2>2. CASE UNCHANGED manifests
    BY <1>0, <2>2 DEF Grows, NoPartialCommit
  <2>. QED
    BY <2>1, <2>2 DEF Next, HandlerStep, vars, tables, PostCommit, PutSnapshot, RejectCommit,
        AnswerRetry, AssignSeq, PutCommitBlob, CommitBatch, ConflictBatch, BroadcastCommit,
        PutSnapshotBlob, SetLatestSnapshot, Fail
<1>3. \E m \in manifests' : m.id = vault'.latest
  <2>1. ASSUME NEW r \in Slots, SetLatestSnapshot(r)
        PROVE  \E m \in manifests' : m.id = vault'.latest
    BY <2>1 DEF SetLatestSnapshot, HandlersOnTrack
  <2>2. ASSUME vault'.latest = vault.latest PROVE \E m \in manifests' : m.id = vault'.latest
    BY <1>0, <2>2 DEF Grows, NoPartialCommit
  <2>3. ASSUME NEW r \in Slots, CommitBatch(r) PROVE vault'.latest = vault.latest
    BY <2>3 DEF CommitBatch
  <2>4. CASE UNCHANGED vault
    BY <2>2, <2>4
  <2>. QED
    BY <2>1, <2>2, <2>3, <2>4 DEF Next, HandlerStep, vars, tables, PostCommit, PutSnapshot, RejectCommit,
        AnswerRetry, AssignSeq, PutCommitBlob, ConflictBatch, BroadcastCommit,
        PutSnapshotBlob, InsertSnapshotManifest, Fail
<1>. QED
  BY <1>1, <1>2, <1>3 DEF NoPartialCommit

\* An answer or a hint is given only for a commit that is in the stream.
LEMMA AnswersStep ==
    ASSUME TypeOK, StreamDense, RowsAreOld, AcceptedOnce, HandlersOnTrack,
           AckedIsCommitted, HintsFollowCommit, [Next]_vars
    PROVE  AckedIsCommitted' /\ HintsFollowCommit'
<1>0. Grows
  BY GrowsStep
<1>1. ASSUME UNCHANGED <<replies, hinted>> PROVE AckedIsCommitted' /\ HintsFollowCommit'
  BY <1>0, <1>1 DEF Grows, AckedIsCommitted, HintsFollowCommit
<1>2. ASSUME NEW r \in Slots, RejectCommit(r) \/ ConflictBatch(r)
      PROVE  AckedIsCommitted' /\ HintsFollowCommit'
  <2>1. replies' = replies /\ UNCHANGED hinted
    BY <1>2 DEF RejectCommit, ConflictBatch, Reply
  <2>. QED
    BY <1>0, <2>1 DEF Grows, AckedIsCommitted, HintsFollowCommit
<1>3. ASSUME NEW r \in Slots, AnswerRetry(r) PROVE AckedIsCommitted' /\ HintsFollowCommit'
  <2>. DEFINE a == Reply(up[r], idem[KeyOf(up[r])])
  <2>1. a.up = up[r] /\ a.seq = idem[KeyOf(up[r])]
    BY DEF Reply
  <2>2. replies' = replies \cup {a} /\ UNCHANGED <<hinted, commits>>
    BY <1>3, <2>1 DEF AnswerRetry, tables
  <2>3. a.seq \in DOMAIN commits /\ KeyOf(commits[a.seq].up) = KeyOf(up[r])
    BY <1>3, <2>1 DEF AnswerRetry, AcceptedOnce
  <2>4. commits[a.seq].up = a.up
    <3>1. commits[a.seq].up \in Uploads /\ up[r] \in Uploads
      BY <2>3 DEF TypeOK, CommitRow
    <3>. QED
      BY <2>1, <2>3, <3>1, KeyOfInjective
  <2>. QED
    BY <2>2, <2>3, <2>4 DEF AckedIsCommitted, HintsFollowCommit
<1>4. ASSUME NEW r \in Slots, BroadcastCommit(r) PROVE AckedIsCommitted' /\ HintsFollowCommit'
  <2>. DEFINE a == Reply(up[r], NextSeq(r))
  <2>1. a.up = up[r] /\ a.seq = NextSeq(r)
    BY DEF Reply
  <2>2. replies' = replies \cup {a} /\ hinted' = hinted \cup {NextSeq(r)} /\ UNCHANGED commits
    BY <1>4, <2>1 DEF BroadcastCommit, tables
  <2>3. NextSeq(r) \in DOMAIN commits /\ commits[NextSeq(r)].up = up[r]
    BY <1>4 DEF BroadcastCommit, HandlersOnTrack
  <2>. QED
    BY <2>1, <2>2, <2>3 DEF AckedIsCommitted, HintsFollowCommit
<1>. QED
  BY <1>1, <1>2, <1>3, <1>4 DEF Next, HandlerStep, vars, PostCommit, PutSnapshot, AssignSeq,
        PutCommitBlob, CommitBatch, PutSnapshotBlob, InsertSnapshotManifest, SetLatestSnapshot,
        Fail

---------------------------------------------------------------------------
\* The invariant

\* The replica row of a device follows its newest commit: the batch that commits
\* writes the row, and at the head its position is above every other.
LEMMA ReplicaStep ==
    ASSUME TypeOK, StreamDense, RowsAreOld, ReplicaIsNewestCommit, [Next]_vars
    PROVE  ReplicaIsNewestCommit'
<1>1. ASSUME NEW r \in Slots, CommitBatch(r) PROVE ReplicaIsNewestCommit'
  <2>. DEFINE n == vault.seq + 1
              d0 == up[r].device
  <2>1. AppendsAtHead(r)
    BY <1>1, BatchAtHead
  <2>2. NextSeq(r) = n /\ vault.seq \in Nat
    BY <2>1 DEF AppendsAtHead, TypeOK
  <2>3. /\ DOMAIN replicas' = DOMAIN replicas \cup {d0}
        /\ replicas'[d0].seq = n
        /\ \A d \in DOMAIN replicas : d # d0 => replicas'[d] = replicas[d]
    BY <1>1, <2>2 DEF CommitBatch, UpsertReplica
  <2>4. /\ DOMAIN commits' = DOMAIN commits \cup {n}
        /\ commits'[n].up = up[r]
        /\ \A s \in DOMAIN commits : s # n => commits'[s] = commits[s]
    BY <1>1, <2>2 DEF CommitBatch
  <2>5. \A s \in DOMAIN commits : s \in Nat /\ s # n /\ s <= n
    BY <2>2 DEF StreamDense
  <2>6. ASSUME NEW s \in DOMAIN commits'
        PROVE  /\ commits'[s].up.device \in DOMAIN replicas'
               /\ s <= replicas'[commits'[s].up.device].seq
    <3>1. CASE s = n
      BY <2>2, <2>3, <2>4, <3>1
    <3>2. CASE s \in DOMAIN commits
      <4>1. commits'[s] = commits[s]
        BY <2>4, <2>5, <3>2
      <4>2. /\ commits[s].up.device \in DOMAIN replicas
            /\ s <= replicas[commits[s].up.device].seq
        BY <3>2 DEF ReplicaIsNewestCommit
      <4>. QED
        BY <2>3, <2>5, <3>2, <4>1, <4>2
    <3>. QED
      BY <2>4, <3>1, <3>2
  <2>. QED
    BY <2>6 DEF ReplicaIsNewestCommit
<1>2. ASSUME UNCHANGED <<commits, replicas>> PROVE ReplicaIsNewestCommit'
  BY <1>2 DEF ReplicaIsNewestCommit
<1>. QED
  BY <1>1, <1>2, OnlyBatchCommits

\* A new vault satisfies the invariant.
LEMMA InitInv == Init => Inv
<1>. SUFFICES ASSUME Init PROVE Inv
  OBVIOUS
<1>1. TypeOK
  BY InitType
<1>2. StreamDense /\ AcceptedOnce /\ HeadCoversCommits /\ RowsAreOld
  BY DEF Init, StreamDense, AcceptedOnce, HeadCoversCommits, RowsAreOld
<1>3. HandlersOnTrack
  BY DEF Init, HandlersOnTrack
<1>4. NoPartialCommit
  BY DEF Init, NoPartialCommit, Manifest, NoSnapshot, Snapshot
<1>5. AckedIsCommitted /\ HintsFollowCommit
  BY DEF Init, AckedIsCommitted, HintsFollowCommit
<1>6. ReplicaIsNewestCommit
  BY DEF Init, ReplicaIsNewestCommit
<1>. QED
  BY <1>1, <1>2, <1>3, <1>4, <1>5, <1>6 DEF Inv

\* Every step of every handler keeps the invariant.
LEMMA StepInv == Inv /\ [Next]_vars => Inv'
BY StepType, DenseStep, LedgerStep, HeadStep, RowsStep, TrackStep, PartialStep, AnswersStep,
   ReplicaStep DEF Inv

\* The invariant holds in every behaviour.
LEMMA Invariance == Spec => []Inv
BY InitInv, StepInv, PTL DEF Spec

\* For any number of concurrent requests, retries, conflicts and failures, the
\* accepted commits occupy exactly 1..current_stream_seq.
THEOREM StreamIsDense == Spec => []StreamDense
<1>1. Inv => StreamDense
  BY DEF Inv
<1>. QED
  BY <1>1, Invariance, PTL

\* A retried upload is accepted once: ledger and stream agree.
THEOREM UploadsAcceptedOnce == Spec => []AcceptedOnce
<1>1. Inv => AcceptedOnce
  BY DEF Inv
<1>. QED
  BY <1>1, Invariance, PTL

\* The logical head covers every accepted commit although it is computed from
\* stale rows.
THEOREM HeadCoversEveryCommit == Spec => []HeadCoversCommits
<1>1. Inv => HeadCoversCommits
  BY DEF Inv
<1>. QED
  BY <1>1, Invariance, PTL

\* No failure leaves a visible row without its object.
THEOREM NoCommitIsPartial == Spec => []NoPartialCommit
<1>1. Inv => NoPartialCommit
  BY DEF Inv
<1>. QED
  BY <1>1, Invariance, PTL

\* A 200 is true for ever, and a hint never runs ahead of the stream.
THEOREM AnswersAreTrue == Spec => [](AckedIsCommitted /\ HintsFollowCommit)
<1>1. Inv => AckedIsCommitted /\ HintsFollowCommit
  BY DEF Inv
<1>. QED
  BY <1>1, Invariance, PTL

\* Whatever handlers race each other, the head covers every commit, a hint names
\* a commit that is there, and a device's replica row its newest one.
THEOREM EffectsAreTrue == Spec => []EffectsFollowCommit
<1>1. Inv => EffectsFollowCommit
  BY DEF Inv, EffectsFollowCommit
<1>. QED
  BY <1>1, Invariance, PTL

\* No step rewrites, moves or drops an accepted commit or moves the head back.
THEOREM StreamIsAppendOnly == Spec => AppendOnly
<1>1. ASSUME Inv, [Next]_vars
      PROVE  [ /\ vault'.seq >= vault.seq
               /\ \A s \in DOMAIN commits : s \in DOMAIN commits' /\ commits'[s] = commits[s] ]_vars
  <2>1. Grows
    BY <1>1, GrowsStep DEF Inv
  <2>2. vault'.seq >= vault.seq
    <3>1. (\E q \in Slots : AppendsAtHead(q)) \/ vault'.seq = vault.seq
      BY <1>1, OnlyBatchCommits, BatchAtHead DEF Inv
    <3>2. vault.seq \in Nat
      BY <1>1 DEF Inv, TypeOK
    <3>. QED
      BY <3>1, <3>2 DEF AppendsAtHead
  <2>. QED
    BY <2>1, <2>2 DEF Grows
<1>. QED
  BY <1>1, Invariance, PTL DEF Spec, AppendOnly

---------------------------------------------------------------------------
\* Refinement

\* The positions and the answers of the new vault are those of the empty log.
LEMMA InitRefines == Init => Log!LogInit
<1>. SUFFICES ASSUME Init PROVE Log!LogInit
  OBVIOUS
<1>1. [s \in DOMAIN commits |-> commits[s].up] = [i \in {} |-> {}]
  BY DEF Init
<1>2. {<<a.up, a.seq>> : a \in replies} = {}
  BY DEF Init
<1>. QED
  BY <1>1, <1>2 DEF Init, Log!LogInit

\* Every step of a handler appends to the log, tells a client a position in it,
\* or leaves it alone.
LEMMA StepRefines ==
    ASSUME Inv, [Next]_vars
    PROVE  [Log!LogNext]_(Log!logVars)
<1>. DEFINE E == [s \in DOMAIN commits |-> commits[s].up]
            T == {<<a.up, a.seq>> : a \in replies}
<1>0. vault.seq \in Nat /\ DOMAIN commits = 1..vault.seq
  BY DEF Inv, TypeOK, StreamDense
<1>1. ASSUME NEW r \in Slots, CommitBatch(r) PROVE \E u \in Uploads : Log!Append(u)
  <2>1. AppendsAtHead(r)
    BY <1>1, BatchAtHead DEF Inv
  <2>2. \A i \in 1..vault.seq : E[i] # up[r]
    <3>1. KeyOf(up[r]) \notin DOMAIN idem
      BY <1>1 DEF CommitBatch, BatchConflicts
    <3>. QED
      BY <1>0, <3>1 DEF Inv, AcceptedOnce
  <2>3. vault'.seq = vault.seq + 1
    BY <2>1 DEF AppendsAtHead
  <2>4. E' = [i \in 1..(vault.seq + 1) |-> IF i = vault.seq + 1 THEN up[r] ELSE E[i]]
    <3>1. DOMAIN commits' = 1..(vault.seq + 1)
      BY <1>0, <2>1 DEF AppendsAtHead
    <3>2. \A i \in 1..(vault.seq + 1) : i # vault.seq + 1 => i \in DOMAIN commits
      BY <1>0
    <3>. QED
      BY <2>1, <3>1, <3>2 DEF AppendsAtHead
  <2>5. T' = T
    BY <1>1 DEF CommitBatch
  <2>6. up[r] \in Uploads
    BY DEF Inv, TypeOK
  <2>. QED
    BY <2>2, <2>3, <2>4, <2>5, <2>6 DEF Log!Append
<1>2. ASSUME NEW r \in Slots, AnswerRetry(r)
      PROVE  \E i \in 1..vault.seq : Log!Tell(i)
  <2>. DEFINE i == idem[KeyOf(up[r])]
              a == Reply(up[r], i)
  <2>1. i \in DOMAIN commits /\ KeyOf(commits[i].up) = KeyOf(up[r])
    BY <1>2 DEF AnswerRetry, AcceptedOnce, Inv
  <2>2. commits[i].up = up[r]
    <3>1. commits[i].up \in Uploads /\ up[r] \in Uploads
      BY <2>1 DEF TypeOK, CommitRow, Inv
    <3>. QED
      BY <2>1, <3>1, KeyOfInjective
  <2>3. a.up = up[r] /\ a.seq = i
    BY DEF Reply
  <2>4. replies' = replies \cup {a}
    BY <1>2, <2>3 DEF AnswerRetry
  <2>5. T' = T \cup {<<E[i], i>>}
    BY <2>1, <2>2, <2>3, <2>4
  <2>6. UNCHANGED <<vault, commits>>
    BY <1>2 DEF AnswerRetry, tables
  <2>. QED
    BY <1>0, <2>1, <2>5, <2>6 DEF Log!Tell
<1>3. ASSUME NEW r \in Slots, BroadcastCommit(r)
      PROVE  \E i \in 1..vault.seq : Log!Tell(i)
  <2>. DEFINE i == NextSeq(r)
              a == Reply(up[r], i)
  <2>1. i \in DOMAIN commits /\ commits[i].up = up[r]
    BY <1>3 DEF BroadcastCommit, HandlersOnTrack, Inv
  <2>3. a.up = up[r] /\ a.seq = i
    BY DEF Reply
  <2>4. replies' = replies \cup {a}
    BY <1>3, <2>3 DEF BroadcastCommit
  <2>5. T' = T \cup {<<E[i], i>>}
    BY <2>1, <2>3, <2>4
  <2>6. UNCHANGED <<vault, commits>>
    BY <1>3 DEF BroadcastCommit, tables
  <2>. QED
    BY <1>0, <2>1, <2>5, <2>6 DEF Log!Tell
<1>4. ASSUME vault'.seq = vault.seq, UNCHANGED commits, replies' = replies PROVE UNCHANGED Log!logVars
  BY <1>4 DEF Log!logVars
<1>5. ASSUME NEW r \in Slots, RejectCommit(r) \/ ConflictBatch(r) PROVE UNCHANGED Log!logVars
  BY <1>4, <1>5 DEF RejectCommit, ConflictBatch, Reply, tables
<1>6. ASSUME UNCHANGED replies, UNCHANGED commits, vault'.seq = vault.seq
      PROVE  UNCHANGED Log!logVars
  BY <1>4, <1>6
<1>7. ASSUME NEW r \in Slots, SetLatestSnapshot(r) PROVE UNCHANGED Log!logVars
  BY <1>6, <1>7 DEF SetLatestSnapshot
<1>8. ASSUME UNCHANGED replies, UNCHANGED commits, UNCHANGED vault PROVE UNCHANGED Log!logVars
  BY <1>6, <1>8
<1>9. ASSUME NEW r \in Slots, CommitBatch(r) \/ AnswerRetry(r) \/ BroadcastCommit(r)
      PROVE  Log!LogNext
  <2>2. CASE CommitBatch(r)
    <3>1. \E u \in Uploads : Log!Append(u)
      BY <1>1, <2>2
    <3>. QED
      BY <3>1 DEF Log!LogNext
  <2>3. CASE AnswerRetry(r) \/ BroadcastCommit(r)
    <3>1. \E i \in 1..vault.seq : Log!Tell(i)
      BY <1>2, <1>3, <2>3
    <3>. QED
      BY <3>1 DEF Log!LogNext
  <2>. QED
    BY <1>9, <2>2, <2>3
<1>10. \/ \E r \in Slots : CommitBatch(r) \/ AnswerRetry(r) \/ BroadcastCommit(r)
       \/ \E r \in Slots : RejectCommit(r) \/ ConflictBatch(r)
       \/ \E r \in Slots : SetLatestSnapshot(r)
       \/ UNCHANGED replies /\ UNCHANGED commits /\ UNCHANGED vault
  BY DEF Next, HandlerStep, vars, tables, PostCommit, PutSnapshot, AssignSeq, PutCommitBlob,
         PutSnapshotBlob, InsertSnapshotManifest, Fail
<1>. QED
  BY <1>5, <1>7, <1>8, <1>9, <1>10

\* The commit authority implements an append-only, exactly-once log with true
\* acknowledgements, whatever the interleaving of requests and failures.
THEOREM AuthorityImplementsCommitLog == Spec => ImplementsCommitLog
BY InitRefines, StepRefines, Invariance, PTL DEF Spec, ImplementsCommitLog, Log!LogSpec

---------------------------------------------------------------------------
(***************************************************************************)
(* SyncReplicas.                                                           *)
(***************************************************************************)

\* No cursor, kept or about to be answered, is beyond the head; the manifest a
\* bootstrap chose is one that was written; only booted devices pull.
ReadersOnTrack ==
    /\ DOMAIN origin = Readers
    /\ \A d \in Readers :
          /\ readRow[d].seq <= vault.seq /\ cursor[d] <= vault.seq
          /\ readFrom[d] \in manifests
          /\ rpc[d] = "list" => d \in booted

ReadersInv == Inv /\ RTypeOK /\ ReadersOnTrack /\ CursorComplete

---------------------------------------------------------------------------
\* The commits listCommitsAfterSeq returns

LEMMA IntervalSize ==
    \A a, b \in Int : Cardinality(a .. b) = IF a > b THEN 0 ELSE b - a + 1
BY FS_Interval

\* They are the n positions after the given one, cut at the head.
LEMMA CommitsAfterSeqInterval ==
    ASSUME Inv, NEW after \in Nat, NEW n \in Nat \ {0}
    PROVE  /\ vault.seq \in Nat /\ DOMAIN commits = 1 .. vault.seq
           /\ CommitsAfterSeq(after, n) =
                 (after + 1) .. (IF after + n <= vault.seq THEN after + n ELSE vault.seq)
<1>1. vault.seq \in Nat /\ DOMAIN commits = 1 .. vault.seq
    BY DEF Inv, TypeOK, StreamDense
<1>2. ASSUME NEW s \in 1 .. vault.seq, s > after
      PROVE  Cardinality({t \in DOMAIN commits : t > after /\ t < s}) = s - after - 1
    <2>1. {t \in DOMAIN commits : t > after /\ t < s} = (after + 1) .. (s - 1)
        BY <1>1, <1>2
    <2>2. Cardinality((after + 1) .. (s - 1)) = s - after - 1
        <3>1. Cardinality((after + 1) .. (s - 1)) =
                 IF after + 1 > s - 1 THEN 0 ELSE (s - 1) - (after + 1) + 1
            BY <1>1, IntervalSize
        <3> QED
            BY <1>1, <1>2, <3>1
    <2> QED
        BY <2>1, <2>2
<1>3. CommitsAfterSeq(after, n) = {s \in 1 .. vault.seq : s > after /\ s - after - 1 < n}
    BY <1>1, <1>2 DEF CommitsAfterSeq
<1> QED
    BY <1>1, <1>3

\* Fewer than the limit means that nothing was cut.
LEMMA UncutTail ==
    ASSUME Inv, NEW after \in Nat, NEW n \in Nat \ {0},
           Cardinality(CommitsAfterSeq(after, n)) < n
    PROVE  \A s \in DOMAIN commits : s > after => s \in CommitsAfterSeq(after, n)
<1> DEFINE last == IF after + n <= vault.seq THEN after + n ELSE vault.seq
<1>1. /\ vault.seq \in Nat /\ DOMAIN commits = 1 .. vault.seq
      /\ CommitsAfterSeq(after, n) = (after + 1) .. last
    BY CommitsAfterSeqInterval
<1>2. after + 1 \in Int /\ last \in Int
    BY <1>1
<1>3. Cardinality((after + 1) .. last) = IF after + 1 > last THEN 0 ELSE last - (after + 1) + 1
    <2> HIDE DEF last
    <2> QED
        BY <1>2, IntervalSize
<1> QED
    BY <1>1, <1>3

\* next_after_seq is the last position of the answer.
LEMMA NextAfterSeqIsLast ==
    ASSUME Inv, NEW after \in Nat, NEW n \in Nat \ {0}, after <= vault.seq
    PROVE  LET next == NextAfterSeq(after, CommitsAfterSeq(after, n))
           IN  /\ next \in Nat /\ next <= vault.seq
               /\ \A s \in DOMAIN commits : s <= next => s <= after \/ s \in CommitsAfterSeq(after, n)
<1> DEFINE last == IF after + n <= vault.seq THEN after + n ELSE vault.seq
           seqs == CommitsAfterSeq(after, n)
           next == NextAfterSeq(after, seqs)
<1>1. vault.seq \in Nat /\ DOMAIN commits = 1 .. vault.seq /\ seqs = (after + 1) .. last
    BY CommitsAfterSeqInterval
<1>2. last \in Nat /\ last <= vault.seq
    BY <1>1
<1> HIDE DEF last, seqs
<1>3. CASE seqs = {}
    BY <1>1, <1>3 DEF NextAfterSeq, seqs
<1>4. CASE seqs # {}
    <2>1. last \in seqs /\ \A s \in seqs : last >= s
        BY <1>1, <1>2, <1>4
    <2>2. Max(seqs) \in seqs /\ \A s \in seqs : Max(seqs) >= s
        BY <2>1 DEF Max
    <2>3. next = Max(seqs)
        BY <1>4 DEF NextAfterSeq
    <2> QED
        BY <1>1, <1>2, <2>2, <2>3 DEF seqs
<1> QED
    BY <1>3, <1>4 DEF seqs

---------------------------------------------------------------------------
\* Initially

LEMMA ReadersInit == RInit => ReadersInv
<1> SUFFICES ASSUME RInit PROVE ReadersInv
    OBVIOUS
<1>1. Inv
    BY InitInv DEF RInit
<1>2. Manifest(NoSnapshot, [seq |-> 0, clock |-> 0]) \in ManifestType
    BY DEF Manifest, NoSnapshot, Snapshot, ManifestType, MaxOf
<1>3. RTypeOK
    BY <1>2 DEF RInit, RTypeOK, RowType
<1>4. ReadersOnTrack
    BY DEF RInit, Init, ReadersOnTrack
<1>5. CursorComplete
    BY DEF RInit, CursorComplete
<1> QED
    BY <1>1, <1>3, <1>4, <1>5 DEF ReadersInv

---------------------------------------------------------------------------
\* A step of a writer: the stream grows beyond every cursor.

LEMMA WriterStep ==
    ASSUME ReadersInv, [Next]_vars, UNCHANGED readVars
    PROVE  ReadersInv'
<1>0. Inv /\ RTypeOK /\ ReadersOnTrack /\ CursorComplete
    BY DEF ReadersInv
<1>1. Inv'
    BY <1>0, StepInv
<1>2. Grows
    BY <1>0, GrowsStep DEF Inv
<1>3. /\ vault.seq \in Nat /\ vault'.seq \in Nat
      /\ DOMAIN commits = 1 .. vault.seq /\ DOMAIN commits' = 1 .. vault'.seq
    BY <1>0, <1>1 DEF Inv, TypeOK, StreamDense
<1>4. vault.seq <= vault'.seq
    <2>1. \A s \in 1 .. vault.seq : s \in 1 .. vault'.seq
        BY <1>2, <1>3 DEF Grows
    <2>2. CASE vault.seq = 0
        BY <1>3, <2>2
    <2>3. CASE vault.seq # 0
        <3>1. vault.seq \in 1 .. vault.seq
            BY <1>3, <2>3
        <3> QED
            BY <1>3, <2>1, <3>1
    <2> QED
        BY <2>2, <2>3
<1>5. RTypeOK'
    BY <1>0 DEF RTypeOK, readVars
<1>6. \A d \in Readers : readRow[d].seq \in Nat /\ cursor[d] \in Nat
    BY <1>0 DEF RTypeOK, RowType
<1>7. ReadersOnTrack'
    BY <1>0, <1>2, <1>3, <1>4, <1>6 DEF ReadersOnTrack, readVars, Grows
<1>8. CursorComplete'
    <2> SUFFICES ASSUME NEW d \in booted, Complete(d)
                 PROVE  \A s \in DOMAIN commits' : s <= cursor[d] => commits'[s].up \in have[d]
        BY <1>0 DEF CursorComplete, readVars, Complete
    <2>1. d \in Readers
        BY <1>0 DEF RTypeOK
    <2>2. cursor[d] <= vault.seq /\ cursor[d] \in Nat
        BY <1>0, <1>6, <2>1 DEF ReadersOnTrack
    <2> QED
        BY <1>2, <1>3, <2>2 DEF Complete, Grows
<1> QED
    BY <1>1, <1>5, <1>7, <1>8 DEF ReadersInv

---------------------------------------------------------------------------
\* A step of a reader

LEMMA InvUnread == Inv /\ UNCHANGED vars => Inv'
BY StepInv

\* What the commits carry are uploads.
LEMMA UploadsOfCommits ==
    ASSUME Inv, NEW seqs \in SUBSET DOMAIN commits
    PROVE  UploadsOf(seqs) \in SUBSET Uploads
BY DEF Inv, TypeOK, CommitRow, UploadsOf

LEMMA ReaderStep ==
    ASSUME ReadersInv, NEW d \in Readers, ReadStep(d)
    PROVE  ReadersInv'
<1>0. Inv /\ RTypeOK /\ ReadersOnTrack /\ CursorComplete
    BY DEF ReadersInv
<1>1. UNCHANGED vars
    BY DEF ReadStep, GetBootstrap, ReadManifest, AnswerBootstrap, GetCommits, AnswerCommits
<1>2. Inv' /\ UNCHANGED <<vault, commits, manifests, commitBlobs, snapBlobs>>
    BY <1>0, <1>1, InvUnread DEF vars, tables
<1>3. vault.seq \in Nat /\ VaultRow \in RowType /\ VaultRow.seq = vault.seq /\ manifests \subseteq ManifestType
    BY <1>0 DEF Inv, TypeOK, RowType, VaultRow
<1>4. CASE GetBootstrap(d) \/ GetCommits(d)
    <2>1. /\ readRow' = [readRow EXCEPT ![d] = VaultRow]
          /\ \/ rpc' = [rpc EXCEPT ![d] = "manifest"]
             \/ d \in booted /\ rpc' = [rpc EXCEPT ![d] = "list"]
          /\ UNCHANGED <<readFrom, booted, origin, cursor, have>>
        BY <1>4 DEF GetBootstrap, GetCommits
    <2>2. RTypeOK'
        BY <1>0, <1>3, <2>1 DEF RTypeOK
    <2>3. ReadersOnTrack'
        BY <1>0, <1>2, <1>3, <2>1 DEF RTypeOK, ReadersOnTrack
    <2>4. CursorComplete'
        BY <1>0, <1>2, <2>1 DEF CursorComplete, Complete
    <2> QED
        BY <1>2, <2>2, <2>3, <2>4 DEF ReadersInv
<1>5. ASSUME NEW m \in manifests, ReadManifest(d, m) PROVE ReadersInv'
    <2>1. /\ readFrom' = [readFrom EXCEPT ![d] = m] /\ rpc' = [rpc EXCEPT ![d] = "tail"]
          /\ UNCHANGED <<readRow, booted, origin, cursor, have>>
        BY <1>5 DEF ReadManifest
    <2>2. RTypeOK'
        BY <1>0, <1>3, <1>5, <2>1 DEF RTypeOK
    <2>3. ReadersOnTrack'
        BY <1>0, <1>2, <2>1 DEF RTypeOK, ReadersOnTrack
    <2>4. CursorComplete'
        BY <1>0, <1>2, <2>1 DEF CursorComplete, Complete
    <2> QED
        BY <1>2, <2>2, <2>3, <2>4 DEF ReadersInv
<1>6. CASE AnswerBootstrap(d)
    <2> DEFINE m == readFrom[d]
               tail == CommitsAfterSeq(m.seq, BootstrapLimit)
    <2>0. m.seq \in Nat /\ m.base \in Nat /\ readRow[d].seq \in Nat /\ readRow[d].seq <= vault.seq
        BY <1>0 DEF RTypeOK, ManifestType, RowType, ReadersOnTrack
    <2>1. tail \in SUBSET DOMAIN commits
        BY DEF CommitsAfterSeq
    <2>2. ContentOf(m) \cup UploadsOf(tail) \in SUBSET Uploads
        BY <1>0, <2>1, UploadsOfCommits DEF ContentOf
    <2>3. rpc' = [rpc EXCEPT ![d] = "idle"] /\ UNCHANGED <<readRow, readFrom>>
        BY <1>6 DEF AnswerBootstrap
    <2>4. CASE UNCHANGED <<booted, origin, have, cursor>>
        <3>1. RTypeOK' /\ ReadersOnTrack'
            BY <1>0, <1>2, <2>3, <2>4 DEF RTypeOK, ReadersOnTrack
        <3>2. CursorComplete'
            BY <1>0, <1>2, <2>4 DEF CursorComplete, Complete
        <3> QED
            BY <1>2, <3>1, <3>2 DEF ReadersInv
    <2>5. CASE /\ booted' = booted \cup {d}
               /\ origin' = [origin EXCEPT ![d] = [manifest |-> m, tail |-> Cardinality(tail)]]
               /\ have' = [have EXCEPT ![d] = ContentOf(m) \cup UploadsOf(tail)]
               /\ cursor' = [cursor EXCEPT ![d] = readRow[d].seq]
        <3>1. RTypeOK'
            BY <1>0, <2>0, <2>2, <2>3, <2>5 DEF RTypeOK
        <3>2. ReadersOnTrack'
            BY <1>0, <1>2, <2>0, <2>3, <2>5 DEF RTypeOK, ReadersOnTrack
        <3>3. ASSUME m.seq = m.base, Cardinality(tail) < BootstrapLimit, NEW s \in DOMAIN commits
              PROVE  commits[s].up \in ContentOf(m) \cup UploadsOf(tail)
            <4>1. s \in Nat
                BY <1>0 DEF Inv, TypeOK
            <4>2. CASE s <= m.seq
                BY <3>3, <4>2 DEF ContentOf, UploadsOf
            <4>3. CASE s > m.seq
                BY <1>0, <2>0, <3>3, <4>3, UncutTail, LimitsAssumption DEF UploadsOf
            <4> QED
                BY <2>0, <4>1, <4>2, <4>3
        <3>4. CursorComplete'
            <4> SUFFICES ASSUME NEW x \in booted',
                                origin'[x].manifest.seq = origin'[x].manifest.base,
                                origin'[x].tail < BootstrapLimit,
                                NEW s \in DOMAIN commits, s <= cursor'[x]
                         PROVE  commits[s].up \in have'[x]
                BY <1>2 DEF CursorComplete, Complete
            <4>1. x \in Readers
                BY <1>0, <2>5 DEF RTypeOK
            <4>2. CASE x = d
                <5>1. /\ origin'[d] = [manifest |-> m, tail |-> Cardinality(tail)]
                      /\ have'[d] = ContentOf(m) \cup UploadsOf(tail)
                    BY <1>0, <2>5 DEF RTypeOK, ReadersOnTrack
                <5> QED
                    BY <3>3, <4>2, <5>1
            <4>3. CASE x # d
                BY <1>0, <2>5, <4>1, <4>3 DEF RTypeOK, ReadersOnTrack, CursorComplete, Complete
            <4> QED
                BY <4>2, <4>3
        <3> QED
            BY <1>2, <3>1, <3>2, <3>4 DEF ReadersInv
    <2> QED
        BY <1>6, <2>4, <2>5 DEF AnswerBootstrap, BootstrapCursor
<1>7. CASE AnswerCommits(d)
    <2> DEFINE seqs == CommitsAfterSeq(cursor[d], PullLimit)
               next == NextAfterSeq(cursor[d], seqs)
    <2>0. cursor[d] \in Nat /\ cursor[d] <= vault.seq /\ have[d] \in SUBSET Uploads
        BY <1>0 DEF RTypeOK, ReadersOnTrack
    <2>1. UploadsOf(seqs) \in SUBSET Uploads
        BY <1>0, UploadsOfCommits DEF CommitsAfterSeq
    <2>2. /\ next \in Nat /\ next <= vault.seq
          /\ \A s \in DOMAIN commits : s <= next => s <= cursor[d] \/ s \in seqs
        BY <1>0, <2>0, NextAfterSeqIsLast, LimitsAssumption
    <2>3. rpc' = [rpc EXCEPT ![d] = "idle"] /\ UNCHANGED <<readRow, readFrom, booted, origin>>
        BY <1>7 DEF AnswerCommits
    <2>4. CASE UNCHANGED <<have, cursor>>
        <3>1. RTypeOK' /\ ReadersOnTrack'
            BY <1>0, <1>2, <2>3, <2>4 DEF RTypeOK, ReadersOnTrack
        <3>2. CursorComplete'
            BY <1>0, <1>2, <2>3, <2>4 DEF CursorComplete, Complete
        <3> QED
            BY <1>2, <3>1, <3>2 DEF ReadersInv
    <2>5. CASE /\ have' = [have EXCEPT ![d] = @ \cup UploadsOf(seqs)]
               /\ cursor' = [cursor EXCEPT ![d] = next]
        <3>1. RTypeOK'
            BY <1>0, <2>0, <2>1, <2>2, <2>3, <2>5 DEF RTypeOK
        <3>2. ReadersOnTrack'
            BY <1>0, <1>2, <2>2, <2>3, <2>5 DEF RTypeOK, ReadersOnTrack
        <3>3. ASSUME Complete(d), NEW s \in DOMAIN commits, s <= next
              PROVE  commits[s].up \in have[d] \cup UploadsOf(seqs)
            BY <2>2, <3>3 DEF Complete, UploadsOf
        <3>4. CursorComplete'
            <4> SUFFICES ASSUME NEW x \in booted,
                                origin[x].manifest.seq = origin[x].manifest.base,
                                origin[x].tail < BootstrapLimit,
                                NEW s \in DOMAIN commits, s <= cursor'[x]
                         PROVE  commits[s].up \in have'[x]
                BY <1>2, <2>3 DEF CursorComplete, Complete
            <4>1. x \in Readers /\ Complete(x)
                BY <1>0 DEF RTypeOK, CursorComplete
            <4>2. CASE x = d
                BY <1>0, <2>5, <3>3, <4>1, <4>2 DEF RTypeOK
            <4>3. CASE x # d
                BY <1>0, <2>5, <4>1, <4>3 DEF RTypeOK, Complete
            <4> QED
                BY <4>2, <4>3
        <3> QED
            BY <1>2, <3>1, <3>2, <3>4 DEF ReadersInv
    <2> QED
        BY <1>7, <2>4, <2>5 DEF AnswerCommits
<1> QED
    BY <1>4, <1>5, <1>6, <1>7 DEF ReadStep

---------------------------------------------------------------------------
\* The theorems

\* The readers are invisible to the writers: every theorem about VaultAuthority
\* holds with any number of devices bootstrapping and pulling beside it.
THEOREM ReadersLeaveWritersAlone == RSpec => Spec
<1>1. RInit => Init
    BY DEF RInit
<1>2. [RNext]_allVars => [Next]_vars
    BY DEF RNext, allVars, ReadStep, GetBootstrap, ReadManifest, AnswerBootstrap, GetCommits, AnswerCommits
<1> QED
    BY <1>1, <1>2, PTL DEF RSpec, Spec

\* ReadersInv holds in every reachable state of readers and writers.
THEOREM ReadersInvariant == RSpec => []ReadersInv
<1>1. ReadersInv /\ [RNext]_allVars => ReadersInv'
    <2> SUFFICES ASSUME ReadersInv, [RNext]_allVars PROVE ReadersInv'
        OBVIOUS
    <2>1. CASE [Next]_vars /\ UNCHANGED readVars
        BY <2>1, WriterStep
    <2>2. ASSUME NEW d \in Readers, ReadStep(d) PROVE ReadersInv'
        BY <2>2, ReaderStep
    <2> QED
        BY <2>1, <2>2 DEF RNext, allVars
<1> QED
    BY <1>1, ReadersInit, PTL DEF RSpec

\* CursorsSound for any limits and any interleaving of GET /bootstrap and GET
\* /commits with the writers: a device holds every commit up to the cursor it
\* resumes from, although the row, the manifest and the tail of its bootstrap
\* are read at three different moments.
THEOREM CursorsAreSound == RSpec => []CursorsSound
<1>1. ReadersInv => CursorsSound
    BY DEF ReadersInv, CursorsSound
<1> QED
    BY <1>1, ReadersInvariant, PTL

\* A bootstrap or a pull never meets a row whose object is missing: the 500s of
\* the read side are for lost objects only, never for a commit half written.
THEOREM ReadsFindTheirObjects ==
    RSpec => [](\A d \in Readers :
                   /\ readFrom[d].id \in snapBlobs
                   /\ \A after, n \in Nat :
                         \A s \in CommitsAfterSeq(after, n) : <<s, commits[s].up>> \in commitBlobs)
<1>1. ReadersInv =>
          \A d \in Readers :
             /\ readFrom[d].id \in snapBlobs
             /\ \A after, n \in Nat :
                   \A s \in CommitsAfterSeq(after, n) : <<s, commits[s].up>> \in commitBlobs
    BY DEF ReadersInv, Inv, NoPartialCommit, ReadersOnTrack, CommitsAfterSeq
<1> QED
    BY <1>1, ReadersInvariant, PTL

=============================================================================
