------------------------- MODULE MCTerminalSession -------------------------
(***************************************************************************)
(* Instances of TerminalSession for TLC.                                   *)
(*                                                                         *)
(* TerminalSession.cfg: up to three chunks of output and two commands,     *)
(* three events together, so that a scroll batch meets a command that ends *)
(* it, a redundant resize meets drained output, and the exit finds one     *)
(* chunk drained, one in the channel and one with the reader; a transcript *)
(* queue and a file of one event each, so that both limits are reached.    *)
(* TerminalLiveness.cfg: two chunks and one that leaves the screen as it   *)
(* is, so that the shell can keep the channel from ever being empty.       *)
(***************************************************************************)
EXTENDS TerminalSession
=============================================================================
