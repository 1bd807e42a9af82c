------------------------------- MODULE MCVault -------------------------------
(***************************************************************************)
(* An instance for TLC of the two halves of a vault that share no state:   *)
(* its records on several devices (VaultReplicas) and its keys on one      *)
(* (VaultUnlock).  A behaviour is about the one or the other.              *)
(***************************************************************************)
EXTENDS VaultReplicas, VaultUnlock

VARIABLE half

MCInit == Init /\ UnlockInit /\ half \in {"records", "keys"}

MCNext ==
    /\ \/ half = "records" /\ Next /\ UNCHANGED unlockVars
       \/ half = "keys" /\ UnlockNext /\ UNCHANGED vars
    /\ UNCHANGED half

MCSpec == MCInit /\ [][MCNext]_<<vars, unlockVars, half>>
=============================================================================
