---------------------------- MODULE SyncReplicas ----------------------------
(***************************************************************************)
(* The read side of the hosted sync service and the devices it serves:    *)
(* GET /bootstrap and GET /commits (services/seance-sync/src/index.ts)    *)
(* run beside the writers of VaultAuthority, each read a step of its own. *)
(*                                                                         *)
(* The devices follow docs/VAULT-SYNC-PROTOCOL.md: bootstrap once, persist *)
(* the returned cursor, then pull with after_seq and apply what comes in  *)
(* order.  The client that does this is not part of the repository.       *)
(***************************************************************************)
EXTENDS VaultAuthority, FiniteSetsExt

CONSTANTS Readers,         \* devices that replicate the vault
          BootstrapLimit,  \* 200 in the code
          PullLimit        \* the limit of a pull, 1..200 after clamping

ASSUME LimitsAssumption == BootstrapLimit \in Nat \ {0} /\ PullLimit \in Nat \ {0}

VARIABLES
    rpc,       \* where each device's request is
    readRow,   \* the vault row its handler read first
    readFrom,  \* bootstrap: the manifest it chose
    booted,    \* devices that have bootstrapped
    origin,    \* the manifest each booted device started from, and its tail length
    cursor,    \* last applied stream_seq each device persists
    have       \* uploads whose records each device holds

readVars == <<rpc, readRow, readFrom, booted, origin, cursor, have>>
allVars == <<vars, readVars>>

RInit ==
    /\ Init
    /\ rpc = [d \in Readers |-> "idle"]
    /\ readRow = [d \in Readers |-> [seq |-> 0, clock |-> 0]]
    /\ readFrom = [d \in Readers |-> Manifest(NoSnapshot, [seq |-> 0, clock |-> 0])]
    /\ booted = {}
    /\ origin = [d \in Readers |-> [manifest |-> readFrom[d], tail |-> 0]]
    /\ cursor = [d \in Readers |-> 0]
    /\ have = [d \in Readers |-> {}]

---------------------------------------------------------------------------
\* Mutants: the first commit skipped, and one commit too few.
CommitsAfterNext(after, n) ==
    {s \in DOMAIN commits :
        s > after + 1 /\ Cardinality({t \in DOMAIN commits : t > after /\ t < s}) < n}
CommitsUnderLimit(after, n) ==
    {s \in DOMAIN commits :
        s > after /\ Cardinality({t \in DOMAIN commits : t > after /\ t < s}) < n - 1}

\* listCommitsAfterSeq: WHERE stream_seq > after ORDER BY stream_seq LIMIT n.
CommitsAfterSeq(after, n) ==
    {s \in DOMAIN commits :
        s > after /\ Cardinality({t \in DOMAIN commits : t > after /\ t < s}) < n}

UploadsOf(seqs) == {commits[s].up : s \in seqs}

\* What the uploads a snapshot was exported from contain.
ContentOf(m) == UploadsOf({s \in DOMAIN commits : s <= m.base})

\* getLatestSnapshotManifest orders by created_at, which has one-second
\* resolution; SQL leaves the order of rows of the same second open.
LatestManifests == {m \in manifests : \A o \in manifests : o.at <= m.at}

\* The cursor of the bootstrap answer: the head of the row read first.
BootstrapCursor(d) == readRow[d].seq

---------------------------------------------------------------------------
\* GET /v1/vaults/:id/bootstrap

GetBootstrap(d) ==
    /\ rpc[d] = "idle" /\ d \notin booted
    /\ readRow' = [readRow EXCEPT ![d] = VaultRow]
    /\ rpc' = [rpc EXCEPT ![d] = "manifest"]
    /\ UNCHANGED <<vars, readFrom, booted, origin, cursor, have>>

ReadManifest(d, m) ==
    /\ rpc[d] = "manifest"
    /\ m \in LatestManifests
    /\ readFrom' = [readFrom EXCEPT ![d] = m]
    /\ rpc' = [rpc EXCEPT ![d] = "tail"]
    /\ UNCHANGED <<vars, readRow, booted, origin, cursor, have>>

\* The snapshot object, the tail of commits with their objects, and the
\* answer; the device applies both and persists the cursor.  A missing object
\* is a 500 and leaves the device as it was.
AnswerBootstrap(d) ==
    LET m == readFrom[d]
        tail == CommitsAfterSeq(m.seq, BootstrapLimit)
    IN  /\ rpc[d] = "tail"
        /\ rpc' = [rpc EXCEPT ![d] = "idle"]
        /\ IF m.id \in snapBlobs /\ \A s \in tail : <<s, commits[s].up>> \in commitBlobs
           THEN /\ booted' = booted \cup {d}
                /\ origin' = [origin EXCEPT ![d] = [manifest |-> m, tail |-> Cardinality(tail)]]
                /\ have' = [have EXCEPT ![d] = ContentOf(m) \cup UploadsOf(tail)]
                /\ cursor' = [cursor EXCEPT ![d] = BootstrapCursor(d)]
           ELSE UNCHANGED <<booted, origin, have, cursor>>
        /\ UNCHANGED <<vars, readRow, readFrom>>

---------------------------------------------------------------------------
\* GET /v1/vaults/:id/commits?after_seq=cursor

GetCommits(d) ==
    /\ rpc[d] = "idle" /\ d \in booted
    /\ cursor[d] < vault.seq
    /\ readRow' = [readRow EXCEPT ![d] = VaultRow]
    /\ rpc' = [rpc EXCEPT ![d] = "list"]
    /\ UNCHANGED <<vars, readFrom, booted, origin, cursor, have>>

\* next_after_seq: the last commit returned, or after_seq when none is.
NextAfterSeq(after, seqs) == IF seqs = {} THEN after ELSE Max(seqs)

AnswerCommits(d) ==
    LET seqs == CommitsAfterSeq(cursor[d], PullLimit)
    IN  /\ rpc[d] = "list"
        /\ rpc' = [rpc EXCEPT ![d] = "idle"]
        /\ IF \A s \in seqs : <<s, commits[s].up>> \in commitBlobs
           THEN /\ have' = [have EXCEPT ![d] = @ \cup UploadsOf(seqs)]
                /\ cursor' = [cursor EXCEPT ![d] = NextAfterSeq(@, seqs)]
           ELSE UNCHANGED <<have, cursor>>
        /\ UNCHANGED <<vars, readRow, readFrom, booted, origin>>

---------------------------------------------------------------------------
ReadStep(d) ==
    \/ GetBootstrap(d)
    \/ \E m \in manifests : ReadManifest(d, m)
    \/ AnswerBootstrap(d)
    \/ GetCommits(d)
    \/ AnswerCommits(d)

RNext ==
    \/ Next /\ UNCHANGED readVars
    \/ \E d \in Readers : ReadStep(d)

RSpec == RInit /\ [][RNext]_allVars

\* Handlers run to completion, a client keeps retrying an upload that has no final
\* answer, and devices keep pulling while they are behind.  Fairness of a retry is
\* strong because the slots are a bound of the model: the service turns no request
\* away for the malformed ones that come again for ever.  Nothing is assumed of
\* failures, snapshots or time.
RFairness ==
    /\ \A r \in Slots : WF_allVars(HandlerStep(r) /\ UNCHANGED readVars)
    /\ \A u \in Uploads : SF_allVars((\E r \in Slots : PostCommit(r, u)) /\ UNCHANGED readVars)
    /\ \A d \in Readers : WF_allVars(ReadStep(d))

RFairSpec == RSpec /\ RFairness

---------------------------------------------------------------------------
\* Properties

\* Every request and every device is in one of its states.
RTypeOK ==
    /\ rpc \in [Readers -> {"idle", "manifest", "tail", "list"}]
    /\ readRow \in [Readers -> RowType]
    /\ readFrom \in [Readers -> ManifestType]
    /\ booted \subseteq Readers
    /\ cursor \in [Readers -> Nat]
    /\ have \in [Readers -> SUBSET Uploads]

Complete(d) == \A s \in DOMAIN commits : s <= cursor[d] => commits[s].up \in have[d]

\* A device holds every commit up to the cursor it persists, whatever commits,
\* snapshots and failures fell between the reads of its bootstrap and its pulls,
\* as long as the manifest it started from claimed no more than the snapshot
\* contained and the tail was not cut at the limit.
CursorComplete ==
    \A d \in booted :
        LET o == origin[d]
        IN  o.manifest.seq = o.manifest.base /\ o.tail < BootstrapLimit => Complete(d)

\* Requests are well formed and the cursor a device persists is one it may
\* resume from.
CursorsSound == RTypeOK /\ CursorComplete

\* Every device eventually reaches the head and stays there once uploads end.
ReplicasCatchUp == \A d \in Readers : <>[](d \in booted /\ cursor[d] = vault.seq)

=============================================================================
