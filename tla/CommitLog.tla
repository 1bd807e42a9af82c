----------------------------- MODULE CommitLog -----------------------------
(***************************************************************************)
(* What the hosted sync service promises a device about its uploads: one  *)
(* append-only log per vault, in which an upload appears at most once     *)
(* however often it is retried, and an acknowledgement that names the     *)
(* position at which the upload really is.                                *)
(***************************************************************************)
EXTENDS Naturals

CONSTANT Uploads

VARIABLES length,  \* number of accepted commits
          entry,   \* entry[i] is the upload accepted as stream_seq i
          told     \* pairs <<upload, position>> acknowledged to clients

logVars == <<length, entry, told>>

LogInit ==
    /\ length = 0
    /\ entry = [i \in {} |-> {}]
    /\ told = {}

\* An upload that is not in the log becomes its next entry.
Append(u) ==
    /\ \A i \in 1..length : entry[i] # u
    /\ length' = length + 1
    /\ entry' = [i \in 1..(length + 1) |-> IF i = length + 1 THEN u ELSE entry[i]]
    /\ UNCHANGED told

\* A client learns where its upload is.
Tell(i) ==
    /\ told' = told \cup {<<entry[i], i>>}
    /\ UNCHANGED <<length, entry>>

LogNext ==
    \/ \E u \in Uploads : Append(u)
    \/ \E i \in 1..length : Tell(i)

LogSpec == LogInit /\ [][LogNext]_logVars
=============================================================================
