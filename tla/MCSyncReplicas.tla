--------------------------- MODULE MCSyncReplicas ---------------------------
(***************************************************************************)
(* An instance of SyncReplicas for TLC.                                   *)
(***************************************************************************)
EXTENDS SyncReplicas

CONSTANTS d1, d2, k1, k2, theVault

Upload(d, k, records) ==
    [device |-> d, key |-> k, from |-> 0, to |-> 1,
     recordClock |-> 1, records |-> records, vault |-> theVault]

\* Two devices upload at the same clock, and one of them retries a delta with
\* too many records for ever.
MCUploads == {Upload(d1, k1, 1), Upload(d2, k1, 1), Upload(d2, k2, MaxRecords + 1)}

\* Bound: a snapshot or a failure before a device has booted.
MCNext ==
    /\ RNext
    /\ failures' # failures => snapCount = 0 /\ booted = {}
    /\ snapCount' # snapCount => failures = 0

\* Failures and snapshots are under no fairness, so the bound takes no fair step away.
MCFairSpec == RInit /\ [][MCNext]_allVars /\ RFairness
=============================================================================
