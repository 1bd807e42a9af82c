-------------------------- MODULE MCRemoteSessions --------------------------
(***************************************************************************)
(* Instance of RemoteSessions for TLC: two hosts and two attempts, so that *)
(* an attempt can be started, cancelled or closed while another is under   *)
(* way; the first may have led to a session at the start, so that four     *)
(* events reach the browser's prompts.                                     *)
(***************************************************************************)
EXTENDS RemoteSessions
=============================================================================
