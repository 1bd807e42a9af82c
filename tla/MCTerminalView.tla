--------------------------- MODULE MCTerminalView ---------------------------
(***************************************************************************)
(* Instance of TerminalView for TLC: two sessions, both of which may be    *)
(* open at the start, so that the window can begin a gesture on one and    *)
(* end it on the other within two events; one publication of either, which *)
(* can come at any point of a repaint.                                     *)
(***************************************************************************)
EXTENDS TerminalView
=============================================================================
