-------------------------- MODULE MCWorkspaceShell --------------------------
(***************************************************************************)
(* Instance of WorkspaceShell for TLC: two windows, and palette labels     *)
(* over two letters and a space, so that a query of two letters can match  *)
(* with a gap, at a word's start, in a hint only, or not at all.           *)
(***************************************************************************)
EXTENDS WorkspaceShell

MCLabel == [a \in {"new", "unlock", "lock", "panel", "theme", "prefs", "check", "install"} |->
    CASE a = "new" -> <<"b", "a">>
      [] a = "unlock" -> <<"a", " ", "b">>
      [] a = "lock" -> <<"b", "b">>
      [] a = "panel" -> <<"b", " ", "a">>
      [] a = "theme" -> <<"a", "b">>
      [] a = "prefs" -> <<"a", "a">>
      [] a = "check" -> <<"b">>
      [] a = "install" -> <<"a">>]
MCHint == [a \in DOMAIN MCLabel |-> IF a = "check" THEN <<"a", "b", "a">> ELSE <<>>]

MCChord == [m \in {"palette", "prefs", "quit"} |->
    CASE m = "palette" -> "k" [] m = "prefs" -> "," [] m = "quit" -> "q"]
MCOverride == [m \in {"palette", "prefs", "quit"} |->
    CASE m = "palette" -> "p" [] m = "prefs" -> "none" [] m = "quit" -> "off"]
MCCustom == {<<"x", "palette">>}

(* Typing: one window, opened with or without the palette, and four        *)
(* events.  Settings and vault: two windows and four events, so that both  *)
(* windows can write settings of which one is stale.  Updater: two windows *)
(* and two events, or one window and three.                                *)
AllVaults == {"none", "locked", "unlocked"}
MCScopes == {[kind |-> "typing", windows |-> 1, events |-> 4, vaults |-> AllVaults],
             [kind |-> "settings", windows |-> 2, events |-> 4, vaults |-> {"locked", "unlocked"}],
             [kind |-> "updates", windows |-> 2, events |-> 2, vaults |-> {"unlocked"}],
             [kind |-> "updates", windows |-> 1, events |-> 3, vaults |-> {"unlocked"}]}
MCTyping == {s \in MCScopes : s.kind = "typing"}
=============================================================================
