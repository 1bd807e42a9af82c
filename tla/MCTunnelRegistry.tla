-------------------------- MODULE MCTunnelRegistry --------------------------
(***************************************************************************)
(* An instance of TunnelRegistry for TLC: one tunnel id that is started    *)
(* twice, so that a task of an earlier start meets the one of a later      *)
(* start, or started once with two connections, which can pass the handle  *)
(* to each other while the task waits for it.                              *)
(***************************************************************************)
EXTENDS TunnelRegistry, FiniteSets

Used == {t \in Tasks : pc[t] # "unused" \/ call.task = t}
Accepted == {x \in Tasks \X Conns : conn[x] # "unused"}
First == CHOOSE c \in Conns : TRUE

\* Bound: the local start, then the remote one or a second connection.
MCNext ==
    /\ Next
    /\ Cardinality(Used') + Cardinality(Accepted') <= 3
    /\ Used' \subseteq Remote => Used' = {}
    /\ \A x \in Accepted' : x[2] # First => x[1] \notin Remote /\ <<x[1], First>> \in Accepted'

MCFairSpec == Init /\ [][MCNext]_vars /\ Fairness
=============================================================================
