------------------------- MODULE RemoteSessionsProofs -------------------------
(* The connect tasks, the attempt tracker, the sessions and the SFTP browser of a  *)
(* window fit together for any number of hosts, attempts, authentication methods   *)
(* and events.  A session is listed only when its attempt was still awaited, an    *)
(* attempt stops being awaited when it is cancelled, and no event of the user      *)
(* reaches an attempt whose result was delivered: that is why a cancelled connect  *)
(* never opens, although cancelling races the task that resolves it.               *)
EXTENDS RemoteSessions, TLAPS, SequenceTheorems, WellFoundedInduction

---------------------------------------------------------------------------
(* The inductive invariant.                                                        *)

Task == [host : Hosts \union {"none"}, auth : 0 .. MaxAuth, cancel : {"open", "fired", "closed"},
         st : Running \union {"none", "resolved", "finished", "delivered"},
         res : {"none", "ok", "error", "timed_out", "cancelled"}]

Ids == Attempts \union {0}

ConnectTyped ==
  /\ task \in [Attempts -> Task]
  /\ sftp \subseteq Attempts /\ worker \in [Attempts -> {"none", "running", "ended"}]
  /\ pending \subseteq Attempts /\ byHost \in [Hosts -> Ids] /\ fg \in Ids

ShownTyped ==
  active \in Ids /\ recent \in Seq(Ids) /\ surface \in {"terminal", "sftp"} /\ open \in BOOLEAN

(* An awaited attempt was started, was not cancelled and, unless the window is     *)
(* closed, has not been delivered.                                                 *)
Tracked ==
  /\ TrackerConsistent
  /\ \A n \in pending : task[n].st # "none" /\ task[n].cancel # "fired" /\ (open => task[n].st # "delivered")
  /\ \A n \in Attempts : task[n].st # "none" => task[n].host \in Hosts

(* The sessions listed, besides the local ones, come from attempts that succeeded. *)
Listed ==
  /\ \A n \in Sessions : task[n].st = "delivered" /\ task[n].res = "ok" /\ task[n].cancel # "fired"
  /\ 0 \in ToSet(recent)
  /\ \A i, j \in DOMAIN recent : recent[i] = recent[j] => i = j

Stored ==
  \A n \in Attempts :
    /\ task[n].st \in {"resolved", "finished", "delivered"} /\ task[n].res = "ok" => n \in sftp
    /\ task[n].st \in {"finished", "delivered"} /\ task[n].res # "ok" => n \notin sftp

Browsers ==
  [ses : Ids, path : Paths, entries : Seq(Names), from : Paths, row : Nat \ {0}, sort : {"name", "size", "modified"},
   confirm : Names \union {"none"}, rename : [row : Nat, text : Names \union {""}], mkdir : {"none", "", "m"}]

(* The selected row is one of the entries, which are those of the path.            *)
Sound(b) ==
  /\ b \in Browsers
  /\ b.entries = <<>> => b.row = 1
  /\ b.entries # <<>> => b.row <= Len(b.entries) /\ b.from = b.path

BrowserInv == Sound(browser) /\ dir \in [Paths -> SUBSET Names]

(* The browser is of a listed session.                                             *)
BrowserListed == browser.ses # 0 => browser.ses \in Sessions

SettleInv ==
  /\ ConnectTyped /\ ShownTyped /\ events \in 0 .. MaxEvents
  /\ Tracked /\ Listed /\ Stored
  /\ BrowserInv /\ BrowserListed

---------------------------------------------------------------------------
(* The listing and its selected row.                                               *)

LEMMA NoBrowserSound == Sound(NoBrowser) /\ NoBrowser.ses = 0
<1>1. NoBrowser \in Browsers
  BY DEF NoBrowser, Browsers, NoRename, Paths, Ids
<1>2. QED BY <1>1 DEF Sound, NoBrowser

(* sort_entries gives names; of no names, none.                                    *)
LEMMA SortedTyped ==
  ASSUME NEW names \in SUBSET Names, NEW mode \in {"name", "size", "modified"}
  PROVE  Sorted(names, mode) \in Seq(Names) /\ (names = {} => Sorted(names, mode) = <<>>)
<1> DEFINE Item(i) == IF Order(mode)[i] \in names THEN <<Order(mode)[i]>> ELSE <<>>
<1>1. \A i \in 1 .. 6 : Item(i) \in Seq(Names) /\ (names = {} => Item(i) = <<>>)
  OBVIOUS
<1>2. Sorted(names, mode) = Item(1) \o Item(2) \o Item(3) \o Item(4) \o Item(5) \o Item(6)
  BY DEF Sorted
<1> HIDE DEF Item
<1>3. Item(1) \o Item(2) \in Seq(Names) /\ (names = {} => Item(1) \o Item(2) = <<>>)
  BY <1>1
<1>4. Item(1) \o Item(2) \o Item(3) \in Seq(Names) /\ (names = {} => Item(1) \o Item(2) \o Item(3) = <<>>)
  BY <1>1, <1>3
<1>5. Item(1) \o Item(2) \o Item(3) \o Item(4) \in Seq(Names)
      /\ (names = {} => Item(1) \o Item(2) \o Item(3) \o Item(4) = <<>>)
  BY <1>1, <1>4
<1>6. Item(1) \o Item(2) \o Item(3) \o Item(4) \o Item(5) \in Seq(Names)
      /\ (names = {} => Item(1) \o Item(2) \o Item(3) \o Item(4) \o Item(5) = <<>>)
  BY <1>1, <1>5
<1>7. Item(1) \o Item(2) \o Item(3) \o Item(4) \o Item(5) \o Item(6) \in Seq(Names)
      /\ (names = {} => Item(1) \o Item(2) \o Item(3) \o Item(4) \o Item(5) \o Item(6) = <<>>)
  BY <1>1, <1>6
<1>8. QED BY <1>2, <1>7

(* clamp_selection.                                                                *)
LEMMA ClampedSound ==
  ASSUME NEW b \in Browsers, b.entries # <<>> => b.from = b.path
  PROVE  Sound(Clamped(b)) /\ Clamped(b).ses = b.ses
<1> DEFINE row == IF b.entries = <<>> THEN 1 ELSE IF b.row > Len(b.entries) THEN Len(b.entries) ELSE b.row
<1>a. b.entries \in Seq(Names) /\ b.row \in Nat \ {0}
  BY DEF Browsers
<1>1. b.entries \in Seq(Names) /\ b.row \in Nat \ {0} /\ Len(b.entries) \in Nat
  BY <1>a
<1>2. b.entries # <<>> => Len(b.entries) # 0
  BY <1>1
<1>3. /\ row \in Nat \ {0}
      /\ b.entries = <<>> => row = 1
      /\ b.entries # <<>> => row <= Len(b.entries)
  BY <1>1, <1>2
<1>4. Clamped(b) = [b EXCEPT !.row = row]
  BY DEF Clamped
<1> HIDE DEF row
<1>5. Clamped(b) \in Browsers
  BY <1>3, <1>4 DEF Browsers
<1>6. /\ Clamped(b).row = row /\ Clamped(b).entries = b.entries /\ Clamped(b).from = b.from
      /\ Clamped(b).path = b.path /\ Clamped(b).ses = b.ses
  BY <1>4 DEF Browsers
<1>7. QED BY <1>3, <1>5, <1>6 DEF Sound

(* sftp_list_dir with apply_listing_result.                                        *)
LEMMA ListingsSound ==
  ASSUME NEW b \in Browsers, NEW d \in [Paths -> SUBSET Names], NEW c \in Listings(b, d)
  PROVE  Sound(c) /\ c.ses = b.ses
<1> DEFINE none == [b EXCEPT !.entries = <<>>]
           all == [b EXCEPT !.entries = Sorted(d[b.path], b.sort), !.from = b.path]
<1>1. c = Clamped(none) \/ c = Clamped(all)
  BY DEF Listings
<1>a. <<>> \in Seq(Names)
  OBVIOUS
<1>2. none \in Browsers /\ none.entries = <<>> /\ none.ses = b.ses
  BY <1>a DEF Browsers
<1>3. Sorted(d[b.path], b.sort) \in Seq(Names)
  BY SortedTyped DEF Browsers
<1>4. all \in Browsers /\ all.from = all.path /\ all.ses = b.ses
  BY <1>3 DEF Browsers
<1> HIDE DEF none, all
<1>5. QED BY <1>1, <1>2, <1>4, ClampedSound
---------------------------------------------------------------------------
(* Events of the browser.                                                          *)

BrowserStays == BrowserInv' /\ browser'.ses \in {browser.ses, 0}

LEMMA RefreshedSound ==
  ASSUME NEW b \in Browsers, b.ses = browser.ses, dir' \in [Paths -> SUBSET Names], browser' \in Refreshed(b, dir')
  PROVE  BrowserStays
<1>1. Sound(browser') /\ browser'.ses = b.ses
  BY ListingsSound DEF Refreshed
<1>2. QED BY <1>1 DEF BrowserStays, BrowserInv, Sound

LEMMA NavigateSound ==
  ASSUME BrowserInv, NEW path \in Paths, NavigateTo(path)
  PROVE  BrowserStays
<1> DEFINE b == [browser EXCEPT !.path = path, !.row = 1]
<1>a. browser \in Browsers /\ 1 \in Nat \ {0}
  BY DEF BrowserInv, Sound
<1>1. b \in Browsers /\ b.ses = browser.ses
  BY <1>a DEF Browsers
<1>2. browser' \in Refreshed(b, dir) /\ dir' = dir /\ dir \in [Paths -> SUBSET Names]
  BY DEF NavigateTo, BrowserInv
<1> HIDE DEF b
<1>3. browser' \in Refreshed(b, dir') /\ dir' \in [Paths -> SUBSET Names]
  BY <1>2
<1>4. QED BY <1>1, <1>3, RefreshedSound

LEMMA ViewSound ==
  ASSUME BrowserInv, NEW b, Sound(b), b.ses = browser.ses, View(b)
  PROVE  BrowserStays
  BY DEF View, BrowserInv, BrowserStays, Sound

(* The prompts change nothing else.                                                *)
LEMMA PromptSound ==
  ASSUME BrowserInv
  PROVE  /\ \A row \in Nat \ {0} : (browser.entries = <<>> => row = 1) /\ (browser.entries # <<>> => row <= Len(browser.entries))
              => Sound([browser EXCEPT !.row = row]) /\ [browser EXCEPT !.row = row].ses = browser.ses
         /\ \A x \in Names \union {"none"} :
              Sound([browser EXCEPT !.confirm = x]) /\ [browser EXCEPT !.confirm = x].ses = browser.ses
         /\ \A x \in {"none", "", "m"} :
              Sound([browser EXCEPT !.mkdir = x]) /\ [browser EXCEPT !.mkdir = x].ses = browser.ses
         /\ \A x \in [row : Nat, text : Names \union {""}] :
              Sound([browser EXCEPT !.rename = x]) /\ [browser EXCEPT !.rename = x].ses = browser.ses
<1>1. Sound(browser) /\ browser \in Browsers
  BY DEF BrowserInv, Sound
<1>2. ASSUME NEW row \in Nat \ {0}, browser.entries = <<>> => row = 1,
             browser.entries # <<>> => row <= Len(browser.entries)
      PROVE  Sound([browser EXCEPT !.row = row]) /\ [browser EXCEPT !.row = row].ses = browser.ses
  BY <1>1, <1>2 DEF Sound, Browsers
<1>3. ASSUME NEW x \in Names \union {"none"}
      PROVE  Sound([browser EXCEPT !.confirm = x]) /\ [browser EXCEPT !.confirm = x].ses = browser.ses
  BY <1>1, <1>3 DEF Sound, Browsers
<1>4. ASSUME NEW x \in {"none", "", "m"}
      PROVE  Sound([browser EXCEPT !.mkdir = x]) /\ [browser EXCEPT !.mkdir = x].ses = browser.ses
  BY <1>1, <1>4 DEF Sound, Browsers
<1>5. ASSUME NEW x \in [row : Nat, text : Names \union {""}]
      PROVE  Sound([browser EXCEPT !.rename = x]) /\ [browser EXCEPT !.rename = x].ses = browser.ses
  BY <1>1, <1>5 DEF Sound, Browsers
<1>6. QED BY <1>2, <1>3, <1>4, <1>5

LEMMA EntryTyped ==
  ASSUME BrowserInv, HasEntry
  PROVE  Entry(browser) \in Names /\ browser.row \in DOMAIN browser.entries
<1>1. browser.entries \in Seq(Names) /\ browser.row \in Nat \ {0} /\ browser.row <= Len(browser.entries)
  BY DEF BrowserInv, Sound, Browsers, HasEntry
<1>2. browser.row \in 1 .. Len(browser.entries)
  BY <1>1
<1>3. QED BY <1>1, <1>2 DEF Entry

LEMMA OpenEntrySound ==
  ASSUME BrowserInv, OpenEntry \/ NavigateUp
  PROVE  BrowserStays
<1>1. NavigateTo("top") \/ NavigateTo("sub")
  BY DEF OpenEntry, NavigateUp
<1>2. QED BY <1>1, NavigateSound DEF Paths

LEMMA SortSound ==
  ASSUME BrowserInv, Sort
  PROVE  BrowserStays
<1> DEFINE mode == CASE browser.sort = "name" -> "size" [] browser.sort = "size" -> "modified"
                     [] browser.sort = "modified" -> "name"
           b == [browser EXCEPT !.sort = mode, !.entries = Sorted(ToSet(browser.entries), mode)]
<1>1. View(Clamped(b))
  BY DEF Sort
<1>2. browser \in Browsers /\ browser.entries \in Seq(Names) /\ browser.sort \in {"name", "size", "modified"}
      /\ (browser.entries # <<>> => browser.from = browser.path)
  BY DEF BrowserInv, Sound, Browsers
<1>3. mode \in {"name", "size", "modified"}
  BY <1>2
<1> HIDE DEF mode
<1>4. ToSet(browser.entries) \in SUBSET Names /\ (browser.entries = <<>> => ToSet(browser.entries) = {})
  BY <1>2 DEF ToSet
<1>5. Sorted(ToSet(browser.entries), mode) \in Seq(Names)
      /\ (browser.entries = <<>> => Sorted(ToSet(browser.entries), mode) = <<>>)
  BY <1>3, <1>4, SortedTyped
<1>6. /\ b \in Browsers /\ b.ses = browser.ses /\ b.from = browser.from /\ b.path = browser.path
      /\ b.entries = Sorted(ToSet(browser.entries), mode)
  BY <1>2, <1>3, <1>5 DEF Browsers
<1>7. b.entries # <<>> => b.from = b.path
  BY <1>2, <1>5, <1>6
<1> HIDE DEF b
<1>8. Sound(Clamped(b)) /\ Clamped(b).ses = browser.ses
  BY <1>6, <1>7, ClampedSound
<1>9. QED BY <1>1, <1>8, ViewSound

LEMMA PromptsSound ==
  ASSUME BrowserInv, AskDelete \/ AskMkdir \/ AskRename \/ Dismiss \/ \E text \in {"", "n"} : Typed(text)
  PROVE  BrowserStays
<1>1. browser \in Browsers
  BY DEF BrowserInv, Sound
<1>2. CASE AskDelete
  <2>1. Entry(browser) \in Names /\ View([browser EXCEPT !.confirm = Entry(browser)])
    BY <1>2, EntryTyped DEF AskDelete
  <2>2. QED BY <2>1, PromptSound, ViewSound
<1>3. CASE AskMkdir
  BY <1>3, PromptSound, ViewSound DEF AskMkdir
<1>4. CASE AskRename
  <2> DEFINE x == [row |-> browser.row, text |-> Entry(browser)]
  <2>1. View([browser EXCEPT !.rename = x]) /\ Entry(browser) \in Names /\ browser.row \in Nat
    BY <1>1, <1>4, EntryTyped DEF AskRename, Browsers
  <2>2. x \in [row : Nat, text : Names \union {""}]
    BY <2>1
  <2> HIDE DEF x
  <2>3. QED BY <2>1, <2>2, PromptSound, ViewSound
<1>5. CASE Dismiss
  <2>1. NoRename \in [row : Nat, text : Names \union {""}]
    BY DEF NoRename
  <2>2. \/ View([browser EXCEPT !.mkdir = "none"])
        \/ View([browser EXCEPT !.rename = NoRename])
        \/ View([browser EXCEPT !.confirm = "none"])
    BY <1>5 DEF Dismiss
  <2>3. QED BY <2>1, <2>2, PromptSound, ViewSound
<1>6. ASSUME NEW text \in {"", "n"}, Typed(text) PROVE BrowserStays
  <2>1. CASE browser.mkdir # "none"
    <3>1. View([browser EXCEPT !.mkdir = ""]) \/ View([browser EXCEPT !.mkdir = "m"])
      BY <1>6, <2>1 DEF Typed
    <3>2. QED BY <3>1, PromptSound, ViewSound
  <2>2. CASE browser.mkdir = "none"
    <3> DEFINE x == [browser.rename EXCEPT !.text = text]
    <3>1. View([browser EXCEPT !.rename = x])
      BY <1>6, <2>2 DEF Typed
    <3>2. x \in [row : Nat, text : Names \union {""}]
      <4>1. text \in Names \union {""}
        BY DEF Names
      <4>2. browser.rename \in [row : Nat, text : Names \union {""}]
        BY <1>1 DEF Browsers
      <4>3. QED BY <4>1, <4>2
    <3> HIDE DEF x
    <3>3. QED BY <3>1, <3>2, PromptSound, ViewSound
  <2>3. QED BY <2>1, <2>2
<1>7. QED BY <1>2, <1>3, <1>4, <1>5, <1>6

(* The calls that change the server's files list again.                            *)
LEMMA ConfirmSound ==
  ASSUME BrowserInv, ConfirmDelete \/ ConfirmMkdir \/ ConfirmRename
  PROVE  BrowserStays
<1>1. browser \in Browsers /\ dir \in [Paths -> SUBSET Names] /\ browser.path \in Paths /\ browser.from \in Paths
  BY DEF BrowserInv, Sound, Browsers
<1>2. ASSUME NEW name, NEW p \in Paths, NEW names \in SUBSET Names, dir' \in Outcomes(name, [dir EXCEPT ![p] = names])
      PROVE  dir' \in [Paths -> SUBSET Names]
  <2>1. dir' = dir \/ dir' = [dir EXCEPT ![p] = names]
    BY <1>2 DEF Outcomes
  <2>2. QED BY <1>1, <2>1
<1>3. CASE ConfirmDelete
  <2> DEFINE b == [browser EXCEPT !.confirm = "none"]
  <2>1. dir' \in [Paths -> SUBSET Names]
    <3>1. dir[browser.from] \ {Entry(browser)} \in SUBSET Names
      BY <1>1
    <3>2. dir' \in Outcomes(Entry(browser), [dir EXCEPT ![browser.from] = dir[browser.from] \ {Entry(browser)}])
      BY <1>3 DEF ConfirmDelete
    <3>3. QED BY <1>1, <1>2, <3>1, <3>2
  <2>2. browser' \in Refreshed(b, dir')
    BY <1>3 DEF ConfirmDelete
  <2>3. b \in Browsers /\ b.ses = browser.ses
    BY <1>1 DEF Browsers
  <2> HIDE DEF b
  <2>4. QED BY <2>1, <2>2, <2>3, RefreshedSound
<1>4. CASE ConfirmMkdir
  <2> DEFINE b == [browser EXCEPT !.mkdir = "none"]
  <2>1. dir' \in [Paths -> SUBSET Names]
    <3>1. dir[browser.path] \union {"m"} \in SUBSET Names
      BY <1>1 DEF Names, Folders
    <3>2. dir' \in Outcomes("m", [dir EXCEPT ![browser.path] = dir[browser.path] \union {"m"}])
      BY <1>4 DEF ConfirmMkdir
    <3>3. QED BY <1>1, <1>2, <3>1, <3>2
  <2>2. browser' \in Refreshed(b, dir')
    BY <1>4 DEF ConfirmMkdir
  <2>3. b \in Browsers /\ b.ses = browser.ses
    BY <1>1 DEF Browsers
  <2> HIDE DEF b
  <2>4. QED BY <2>1, <2>2, <2>3, RefreshedSound
<1>5. CASE ConfirmRename
  <2> DEFINE b == [browser EXCEPT !.rename = NoRename]
             old == browser.entries[browser.rename.row]
             kept == IF browser.from = browser.path THEN {old} ELSE {}
             names == (dir[browser.path] \ kept) \union {browser.rename.text}
  <2>1. dir' \in [Paths -> SUBSET Names]
    <3>1. browser.rename.text \in Names
      BY <1>1, <1>5 DEF ConfirmRename, Browsers
    <3>2. names \in SUBSET Names
      BY <1>1, <3>1
    <3>3. dir' \in Outcomes(old, [dir EXCEPT ![browser.path] = names])
      BY <1>5 DEF ConfirmRename
    <3> HIDE DEF names, old
    <3>4. QED BY <1>1, <1>2, <3>2, <3>3
  <2>2. browser' \in Refreshed(b, dir')
    BY <1>5 DEF ConfirmRename
  <2>3. b \in Browsers /\ b.ses = browser.ses
    BY <1>1 DEF Browsers, NoRename
  <2> HIDE DEF b
  <2>4. QED BY <2>1, <2>2, <2>3, RefreshedSound
<1>6. QED BY <1>3, <1>4, <1>5

LEMMA BrowserEventSound ==
  ASSUME BrowserInv, BrowserEvent
  PROVE  BrowserStays
<1>1. browser \in Browsers /\ dir \in [Paths -> SUBSET Names]
  BY DEF BrowserInv, Sound
<1>2. CASE CloseBrowser
  BY <1>1, <1>2, NoBrowserSound DEF CloseBrowser, BrowserStays, BrowserInv, Sound
<1>3. CASE Breadcrumb
  <2>1. PICK p \in {"top", browser.path} : NavigateTo(p)
    BY <1>3 DEF Breadcrumb
  <2>2. p \in Paths
    BY <1>1 DEF Paths, Browsers
  <2>3. QED BY <2>1, <2>2, NavigateSound
<1>4. CASE Up \/ Backspace \/ Enter \/ DoubleClick
  BY <1>4, OpenEntrySound DEF Up, Backspace, Enter, DoubleClick
<1>5. CASE Refresh
  BY <1>1, <1>5, RefreshedSound DEF Refresh
<1>6. CASE Sort
  BY <1>6, SortSound
<1>7. CASE AskDelete \/ AskMkdir \/ AskRename \/ Dismiss \/ \E text \in {"", "n"} : Typed(text)
  BY <1>7, PromptsSound
<1>8. CASE ConfirmDelete \/ ConfirmMkdir \/ ConfirmRename
  BY <1>8, ConfirmSound
<1>9. CASE OtherClient
  <2> DEFINE names == IF "x" \in dir["top"] THEN dir["top"] \ {"x"} ELSE dir["top"] \union {"x"}
  <2>1. browser' = browser /\ dir' = [dir EXCEPT !["top"] = names]
    BY <1>9 DEF OtherClient
  <2>2. "top" \in Paths /\ dir["top"] \in SUBSET Names /\ "x" \in Names
    BY <1>1 DEF Paths, Names
  <2>3. names \in SUBSET Names
    BY <2>2
  <2> HIDE DEF names
  <2>4. dir' \in [Paths -> SUBSET Names]
    BY <1>1, <2>1, <2>2, <2>3
  <2>5. QED BY <2>1, <2>4 DEF BrowserStays, BrowserInv, Sound
<1>10. ASSUME NEW row \in 1 .. Len(browser.entries), View([browser EXCEPT !.row = row]) PROVE BrowserStays
  <2>1. browser.entries \in Seq(Names)
    BY <1>1 DEF Browsers
  <2>2. row \in Nat \ {0} /\ row <= Len(browser.entries) /\ browser.entries # <<>>
    BY <1>10, <2>1
  <2>3. QED BY <1>10, <2>2, PromptSound, ViewSound
<1>11. CASE \E step \in {-1, 1} : Move(step)
  BY <1>10, <1>11 DEF Move
<1>12. CASE \E i \in 1 .. Cardinality(Names) : ClickRow(i)
  <2>1. browser.entries \in Seq(Names)
    BY <1>1 DEF Browsers
  <2>2. DOMAIN browser.entries = 1 .. Len(browser.entries)
    BY <2>1
  <2>3. QED BY <1>10, <1>12, <2>2 DEF ClickRow
<1>13. QED
  BY <1>2, <1>3, <1>4, <1>5, <1>6, <1>7, <1>8, <1>9, <1>11, <1>12 DEF BrowserEvent

---------------------------------------------------------------------------
(* The list of sessions.                                                           *)

NoneTwice(s) == \A i, j \in DOMAIN s : s[i] = s[j] => i = j

LEMMA Appended ==
  ASSUME NEW S, NEW s \in Seq(S), NEW e \in S, e \notin ToSet(s), NoneTwice(s)
  PROVE  /\ Append(s, e) \in Seq(S) /\ NoneTwice(Append(s, e))
         /\ ToSet(Append(s, e)) = ToSet(s) \union {e}
<1> DEFINE t == Append(s, e)
<1>1. /\ t \in Seq(S) /\ Len(s) \in Nat /\ Len(t) = Len(s) + 1 /\ t[Len(s) + 1] = e
      /\ DOMAIN s = 1 .. Len(s) /\ DOMAIN t = 1 .. Len(s) + 1
      /\ \A j \in 1 .. Len(s) : t[j] = s[j]
  OBVIOUS
<1> HIDE DEF t
<1>2. \A j \in 1 .. Len(s) + 1 : j \in 1 .. Len(s) \/ j = Len(s) + 1
  BY <1>1
<1>3. \A j \in 1 .. Len(s) : s[j] # e
  BY <1>1 DEF ToSet
<1>4. NoneTwice(t)
  BY <1>1, <1>2, <1>3 DEF NoneTwice
<1>5. ToSet(t) = ToSet(s) \union {e}
  <2>1. ASSUME NEW x \in ToSet(t) PROVE x \in ToSet(s) \union {e}
    BY <1>1, <1>2, <2>1 DEF ToSet
  <2>2. ASSUME NEW x \in ToSet(s) PROVE x \in ToSet(t)
    <3>1. PICK j \in 1 .. Len(s) : x = s[j]
      BY <1>1, <2>2 DEF ToSet
    <3>2. j \in DOMAIN t /\ x = t[j]
      BY <1>1, <3>1
    <3>3. QED BY <3>2 DEF ToSet
  <2>3. e \in ToSet(t)
    <3>1. Len(s) + 1 \in DOMAIN t
      BY <1>1
    <3>2. QED BY <1>1, <3>1 DEF ToSet
  <2>4. QED BY <2>1, <2>2, <2>3
<1>6. QED BY <1>1, <1>4, <1>5 DEF t

LEMMA RemovedAt ==
  ASSUME NEW S, NEW s \in Seq(S), NEW i \in 1 .. Len(s), NoneTwice(s)
  PROVE  /\ RemoveAt(s, i) \in Seq(S) /\ NoneTwice(RemoveAt(s, i))
         /\ ToSet(RemoveAt(s, i)) = ToSet(s) \ {s[i]}
<1> DEFINE a == SubSeq(s, 1, i - 1)
           b == SubSeq(s, i + 1, Len(s))
           t == RemoveAt(s, i)
<1>1. Len(s) \in Nat /\ i \in Nat /\ 1 <= i /\ i <= Len(s) /\ DOMAIN s = 1 .. Len(s)
  OBVIOUS
<1>2. /\ a \in Seq(S) /\ Len(a) = i - 1 /\ \A j \in 1 .. i - 1 : a[j] = s[j]
  BY <1>1
<1>3. /\ b \in Seq(S) /\ Len(b) = Len(s) - i /\ \A j \in 1 .. Len(s) - i : b[j] = s[i + j]
  <2>1. \A j \in i + 1 .. Len(s) : s[j] \in S
    BY <1>1
  <2>2. /\ b \in Seq(S) /\ Len(b) = (IF i + 1 <= Len(s) THEN Len(s) - (i + 1) + 1 ELSE 0)
        /\ \A j \in 1 .. Len(s) - (i + 1) + 1 : b[j] = s[(i + 1) + j - 1]
    BY <1>1, <2>1, SubSeqProperties
  <2> HIDE DEF b
  <2>0. \A l, k \in Nat : k <= l => l - (k + 1) + 1 = l - k /\ (k + 1 <= l \/ l - k = 0)
    OBVIOUS
  <2>a. Len(s) - (i + 1) + 1 = Len(s) - i /\ (i + 1 <= Len(s) \/ Len(s) - i = 0)
    BY <1>1, <2>0
  <2>3. Len(s) - (i + 1) + 1 = Len(s) - i /\ Len(b) = Len(s) - i
    BY <2>a, <2>2
  <2>4. \A j \in 1 .. Len(s) - i : (i + 1) + j - 1 = i + j
    BY <1>1
  <2>5. QED BY <2>2, <2>3, <2>4
<1>4. t = a \o b
  BY DEF RemoveAt
<1> HIDE DEF a, b, t
<1>5. /\ t \in Seq(S) /\ Len(t) = Len(s) - 1 /\ DOMAIN t = 1 .. Len(s) - 1
  <2>1. t \in Seq(S) /\ Len(t) = Len(a) + Len(b)
    BY <1>2, <1>3, <1>4, ConcatProperties
  <2>2. Len(t) = Len(s) - 1
    BY <1>1, <1>2, <1>3, <2>1
  <2>3. QED BY <2>1, <2>2
<1>6. \A j \in 1 .. i - 1 : t[j] = s[j]
  BY <1>1, <1>2, <1>3, <1>4
<1>7. ASSUME NEW j \in i .. Len(s) - 1 PROVE t[j] = s[j + 1]
  <2>1. j - (i - 1) \in 1 .. Len(s) - i /\ j \in Len(a) + 1 .. Len(a) + Len(b)
    BY <1>1, <1>2, <1>3, <1>7
  <2>2. t[j] = b[j - (i - 1)]
    BY <1>1, <1>2, <1>3, <1>4, <2>1
  <2>3. i + (j - (i - 1)) = j + 1
    BY <1>1, <1>7
  <2>4. QED BY <1>3, <2>1, <2>2, <2>3
<1> DEFINE From(j) == IF j < i THEN j ELSE j + 1
<1>8. ASSUME NEW j \in DOMAIN t PROVE t[j] = s[From(j)] /\ From(j) \in 1 .. Len(s) /\ From(j) # i
  <2>1. j \in 1 .. i - 1 \/ j \in i .. Len(s) - 1
    BY <1>1, <1>5, <1>8
  <2>2. QED BY <1>1, <1>6, <1>7, <2>1
<1>9. NoneTwice(t)
  <2>1. SUFFICES ASSUME NEW j \in DOMAIN t, NEW k \in DOMAIN t, t[j] = t[k] PROVE j = k
    BY DEF NoneTwice
  <2>2. From(j) = From(k)
    BY <1>1, <1>8, <2>1 DEF NoneTwice
  <2>3. j \in Nat /\ k \in Nat
    BY <1>1, <1>5
  <2>4. QED BY <1>1, <2>2, <2>3
<1>10. ToSet(t) = ToSet(s) \ {s[i]}
  <2>1. ASSUME NEW x \in ToSet(t) PROVE x \in ToSet(s) \ {s[i]}
    <3>1. PICK j \in DOMAIN t : x = t[j]
      BY <2>1 DEF ToSet
    <3>2. x = s[From(j)] /\ From(j) \in DOMAIN s /\ From(j) # i /\ i \in DOMAIN s
      BY <1>1, <1>8, <3>1
    <3> HIDE DEF From
    <3>3. x # s[i]
      BY <3>2 DEF NoneTwice
    <3>4. QED BY <3>2, <3>3 DEF ToSet
  <2>2. ASSUME NEW x \in ToSet(s), x # s[i] PROVE x \in ToSet(t)
    <3>1. PICK j \in 1 .. Len(s) : x = s[j]
      BY <1>1, <2>2 DEF ToSet
    <3>2. CASE j < i
      <4>1. j \in DOMAIN t /\ t[j] = x
        BY <1>1, <1>5, <1>6, <3>1, <3>2
      <4>2. QED BY <4>1 DEF ToSet
    <3>3. CASE j > i
      <4>1. j - 1 \in i .. Len(s) - 1 /\ (j - 1) + 1 = j
        BY <1>1, <3>1, <3>3
      <4>2. j - 1 \in DOMAIN t /\ t[j - 1] = x
        BY <1>1, <1>5, <1>7, <3>1, <4>1
      <4>3. QED BY <4>2 DEF ToSet
    <3>4. j # i
      BY <2>2, <3>1
    <3>5. QED BY <1>1, <3>1, <3>2, <3>3, <3>4
  <2>3. QED BY <2>1, <2>2
<1>11. QED BY <1>5, <1>9, <1>10 DEF t

LEMMA WithoutFacts ==
  ASSUME recent \in Seq(Ids), NoneTwice(recent), NEW n \in ToSet(recent)
  PROVE  /\ Without(n) \in Seq(Ids) /\ NoneTwice(Without(n))
         /\ ToSet(Without(n)) = ToSet(recent) \ {n}
<1> DEFINE i == CHOOSE j \in DOMAIN recent : recent[j] = n
<1>1. \E j \in DOMAIN recent : recent[j] = n
  BY DEF ToSet
<1>2. i \in DOMAIN recent /\ recent[i] = n
  BY <1>1
<1>3. Without(n) = RemoveAt(recent, i)
  BY DEF Without
<1> HIDE DEF i
<1>4. i \in 1 .. Len(recent)
  BY <1>2
<1>5. QED BY <1>2, <1>3, <1>4, RemovedAt

LEMMA LastIsMember ==
  ASSUME NEW S, NEW s \in Seq(S), s # <<>>
  PROVE  Last(s) \in S
<1>1. Len(s) \in 1 .. Len(s)
  OBVIOUS
<1>2. QED BY <1>1 DEF Last

---------------------------------------------------------------------------
(* Tasks.                                                                          *)

(* A step of the task of attempt n before its result is delivered.                 *)
LEMMA TaskMoves ==
  ASSUME SettleInv, NEW n \in Attempts, NEW t \in Task, task' = [task EXCEPT ![n] = t],
         t.host = task[n].host, t.cancel = "fired" => task[n].cancel = "fired",
         task[n].st \notin {"none", "delivered"}, t.st \notin {"none", "delivered"},
         sftp' \subseteq Attempts, \A m \in Attempts : m # n => (m \in sftp' <=> m \in sftp),
         t.st \in {"resolved", "finished"} /\ t.res = "ok" => n \in sftp',
         t.st = "finished" /\ t.res # "ok" => n \notin sftp',
         worker' \in [Attempts -> {"none", "running", "ended"}],
         UNCHANGED <<tracker, shown, files, events>>
  PROVE  SettleInv'
<1>1. /\ ConnectTyped /\ ShownTyped /\ Tracked /\ Listed /\ Stored /\ BrowserInv /\ BrowserListed
      /\ UNCHANGED <<pending, byHost, fg, recent, active, surface, open, browser, dir, events>>
  BY DEF SettleInv, tracker, shown, files
<1>2. task' \in [Attempts -> Task] /\ task'[n] = t /\ \A m \in Attempts : m # n => task'[m] = task[m]
  BY <1>1 DEF ConnectTyped
<1>3. ConnectTyped' /\ ShownTyped'
  BY <1>1, <1>2 DEF ConnectTyped, ShownTyped
<1>4. \A m \in Attempts : task'[m].host = task[m].host
  BY <1>2
<1>5. Tracked'
  <2>1. TrackerConsistent'
    <3>1. pending \subseteq Attempts /\ byHost \in [Hosts -> Ids] /\ TrackerConsistent
      BY <1>1 DEF ConnectTyped, Tracked
    <3>2. \A h \in Hosts : byHost[h] # 0 => byHost[h] \in Attempts
      BY <3>1 DEF Ids
    <3>3. QED BY <1>1, <1>4, <3>1, <3>2 DEF TrackerConsistent
  <2>2. \A m \in pending : m \in Attempts
    BY <1>1 DEF ConnectTyped
  <2>3. \A m \in pending : task'[m].st # "none" /\ task'[m].cancel # "fired" /\ (open => task'[m].st # "delivered")
    BY <1>1, <1>2, <2>2 DEF Tracked
  <2>4. \A m \in Attempts : task'[m].st # "none" => task'[m].host \in Hosts
    BY <1>1, <1>2, <1>4 DEF Tracked
  <2>5. QED BY <1>1, <2>1, <2>3, <2>4 DEF Tracked
<1>6. Listed'
  <2>1. Sessions \subseteq Attempts
    BY <1>1 DEF ShownTyped, Sessions, Ids, ToSet
  <2>2. n \notin Sessions
    BY <1>1 DEF Listed
  <2>3. Sessions' = Sessions
    BY <1>1 DEF Sessions, ToSet
  <2>4. QED BY <1>1, <1>2, <2>1, <2>2, <2>3 DEF Listed, ToSet
<1>7. Stored'
  BY <1>1, <1>2 DEF Stored
<1>8. BrowserInv' /\ BrowserListed'
  BY <1>1 DEF BrowserInv, Sound, BrowserListed, Sessions, ToSet
<1>9. QED BY <1>1, <1>3, <1>5, <1>6, <1>7, <1>8 DEF SettleInv

LEMMA ResolvedIsTask ==
  ASSUME SettleInv, NEW n \in Attempts, NEW res \in {"ok", "error", "timed_out", "cancelled"}
  PROVE  \E t \in Task :
           /\ Resolved(n, res) = [task EXCEPT ![n] = t]
           /\ t.host = task[n].host /\ t.cancel = task[n].cancel /\ t.st = "resolved" /\ t.res = res
<1> DEFINE t == [task[n] EXCEPT !.st = "resolved", !.res = res]
<1>1. task[n] \in Task
  BY DEF SettleInv, ConnectTyped
<1>2. t \in Task /\ t.host = task[n].host /\ t.cancel = task[n].cancel /\ t.st = "resolved" /\ t.res = res
  BY <1>1 DEF Task
<1>3. Resolved(n, res) = [task EXCEPT ![n] = t]
  BY DEF Resolved
<1> HIDE DEF t
<1>4. QED BY <1>2, <1>3

LEMMA ResolvedStep ==
  ASSUME SettleInv, NEW n \in Attempts, NEW res \in {"ok", "error", "timed_out", "cancelled"},
         task[n].st \in Running, task' = Resolved(n, res),
         sftp' \subseteq Attempts, \A m \in Attempts : m # n => (m \in sftp' <=> m \in sftp),
         res = "ok" => n \in sftp',
         worker' \in [Attempts -> {"none", "running", "ended"}],
         UNCHANGED <<tracker, shown, files, events>>
  PROVE  SettleInv'
<1>1. PICK t \in Task :
         /\ task' = [task EXCEPT ![n] = t]
         /\ t.host = task[n].host /\ t.cancel = task[n].cancel /\ t.st = "resolved" /\ t.res = res
  BY ResolvedIsTask
<1>2. task[n].st \notin {"none", "delivered"}
  BY DEF Running
<1>3. QED BY <1>1, <1>2, TaskMoves

LEMMA StageStep ==
  ASSUME SettleInv, NEW n \in Attempts, NEW st \in Running, task[n].st \in Running,
         task' = [task EXCEPT ![n].st = st], UNCHANGED <<sftp, worker, tracker, shown, files, events>>
  PROVE  SettleInv'
<1> DEFINE t == [task[n] EXCEPT !.st = st]
<1>1. task[n] \in Task /\ sftp \subseteq Attempts /\ worker \in [Attempts -> {"none", "running", "ended"}]
  BY DEF SettleInv, ConnectTyped
<1>2. t \in Task /\ t.host = task[n].host /\ t.cancel = task[n].cancel /\ t.st = st
  BY <1>1 DEF Task
<1>3. task' = [task EXCEPT ![n] = t]
  OBVIOUS
<1>4. task[n].st \notin {"none", "delivered"} /\ st \notin {"none", "delivered", "resolved", "finished"}
  BY DEF Running
<1> HIDE DEF t
<1>5. sftp' = sftp /\ worker' = worker
  OBVIOUS
<1>6. QED BY <1>1, <1>2, <1>3, <1>4, <1>5, TaskMoves

LEMMA TaskStepSettles ==
  ASSUME SettleInv, NEW n \in Attempts, TaskStep(n)
  PROVE  SettleInv'
<1>1. sftp \subseteq Attempts /\ worker \in [Attempts -> {"none", "running", "ended"}] /\ task[n] \in Task
  BY DEF SettleInv, ConnectTyped
<1>2. CASE Cancelled(n)
  BY <1>1, <1>2, ResolvedStep DEF Cancelled
<1>3. CASE Expire(n)
  BY <1>1, <1>3, ResolvedStep DEF Expire, Polled
<1>4. CASE Advance(n)
  <2>1. task[n].st \in Running /\ UNCHANGED <<sftp, worker, tracker, shown, files, events>>
    BY <1>4 DEF Advance, Polled
  <2>2. CASE task' = Resolved(n, "error")
    BY <1>1, <2>1, <2>2, ResolvedStep
  <2>3. ASSUME NEW st \in {"auth", "shell", "bootstrap"}, task' = [task EXCEPT ![n].st = st] PROVE SettleInv'
    BY <2>1, <2>3, StageStep DEF Running
  <2>4. CASE task[n].auth > 1 /\ task' = [task EXCEPT ![n].auth = @ - 1]
    <3> DEFINE t == [task[n] EXCEPT !.auth = task[n].auth - 1]
    <3>1. task[n].auth - 1 \in 0 .. MaxAuth
      BY <1>1, <2>4, BoundsAssumption DEF Task
    <3>2. t \in Task /\ t.host = task[n].host /\ t.cancel = task[n].cancel /\ t.st = task[n].st
      BY <1>1, <3>1 DEF Task
    <3>3. task' = [task EXCEPT ![n] = t]
      BY <2>4
    <3>4. task[n].st \notin {"none", "delivered", "resolved", "finished"}
      BY <2>1 DEF Running
    <3> HIDE DEF t
    <3>5. sftp' = sftp /\ worker' = worker
      BY <2>1
    <3>6. QED BY <1>1, <2>1, <3>2, <3>3, <3>4, <3>5, TaskMoves
  <2>5. QED BY <1>4, <2>2, <2>3, <2>4 DEF Advance, Authenticated
<1>5. CASE Connect(n)
  <2>1. task[n].st \in Running /\ sftp' = sftp \union {n} /\ UNCHANGED <<tracker, shown, files, events>>
    BY <1>5 DEF Connect, Polled
  <2>2. worker' \in [Attempts -> {"none", "running", "ended"}] /\ (task' = Resolved(n, "ok") \/ task' = Resolved(n, "error"))
    BY <1>1, <1>5 DEF Connect
  <2>3. sftp' \subseteq Attempts /\ n \in sftp' /\ \A m \in Attempts : m # n => (m \in sftp' <=> m \in sftp)
    BY <1>1, <2>1
  <2>4. QED BY <2>1, <2>2, <2>3, ResolvedStep
<1>6. QED BY <1>2, <1>3, <1>4, <1>5 DEF TaskStep

LEMMA FinishSettles ==
  ASSUME SettleInv, NEW n \in Attempts, Finish(n)
  PROVE  SettleInv'
<1> DEFINE c == IF task[n].cancel = "open" THEN "closed" ELSE task[n].cancel
           t == [task[n] EXCEPT !.st = "finished", !.cancel = c]
<1>1. /\ sftp \subseteq Attempts /\ worker \in [Attempts -> {"none", "running", "ended"}] /\ task[n] \in Task
      /\ task[n].res = "ok" /\ task[n].st = "resolved" => n \in sftp
  BY DEF SettleInv, ConnectTyped, Stored
<1>2. /\ task[n].st = "resolved" /\ sftp' = Cleared(n)
      /\ UNCHANGED <<worker, tracker, shown, files, events>>
  BY DEF Finish
<1>3. c \in {"open", "fired", "closed"} /\ (c = "fired" => task[n].cancel = "fired")
  BY <1>1 DEF Task
<1>4. task' = [task EXCEPT ![n] = t]
  BY DEF Finish
<1> HIDE DEF c
<1>5. t \in Task /\ t.host = task[n].host /\ t.cancel = c /\ t.st = "finished" /\ t.res = task[n].res
  BY <1>1, <1>3 DEF Task
<1> HIDE DEF t
<1>6. /\ sftp' \subseteq Attempts /\ \A m \in Attempts : m # n => (m \in sftp' <=> m \in sftp)
      /\ task[n].res = "ok" => n \in sftp'
      /\ task[n].res # "ok" => n \notin sftp'
  BY <1>1, <1>2 DEF Cleared
<1>7. worker' = worker
  BY <1>2
<1>8. QED BY <1>1, <1>2, <1>3, <1>4, <1>5, <1>6, <1>7, TaskMoves

---------------------------------------------------------------------------
(* The tracker and the window.                                                     *)

(* ConnectAttemptTracker::remove.                                                  *)
LEMMA RemovedTracked ==
  ASSUME ConnectTyped, Tracked, NEW n \in pending, Removed(n),
         task' \in [Attempts -> Task], \A m \in Attempts : task'[m].host = task[m].host
  PROVE  /\ pending' = pending \ {n} /\ byHost' \in [Hosts -> Ids] /\ fg' \in Ids
         /\ TrackerConsistent'
<1>1. /\ pending \subseteq Attempts /\ byHost \in [Hosts -> Ids] /\ fg \in Ids /\ task[n].host \in Hosts
      /\ TrackerConsistent /\ 0 \in Ids /\ 0 \notin Attempts
  BY BoundsAssumption DEF ConnectTyped, Tracked, Ids, Attempts
<1>2. /\ pending' = pending \ {n} /\ byHost' = [byHost EXCEPT ![task[n].host] = 0]
      /\ fg' = (IF fg = n THEN 0 ELSE fg)
  BY DEF Removed
<1>3. /\ byHost' \in [Hosts -> Ids] /\ byHost'[task[n].host] = 0
      /\ \A h \in Hosts : h # task[n].host => byHost'[h] = byHost[h]
  BY <1>1, <1>2
<1>4. ASSUME NEW m \in pending' PROVE byHost'[task'[m].host] = m
  <2>1. m \in pending /\ m # n /\ m \in Attempts /\ task'[m].host = task[m].host /\ byHost[task[m].host] = m
    BY <1>1, <1>2, <1>4 DEF TrackerConsistent
  <2>2. byHost[task[n].host] = n /\ task[m].host \in Hosts
    BY <1>1, <2>1 DEF TrackerConsistent, Tracked
  <2>3. QED BY <1>3, <2>1, <2>2
<1>5. ASSUME NEW h \in Hosts, byHost'[h] # 0 PROVE byHost'[h] \in pending' /\ task'[byHost'[h]].host = h
  <2>1. h # task[n].host /\ byHost'[h] = byHost[h]
    BY <1>3, <1>5
  <2>2. byHost[h] \in pending /\ task[byHost[h]].host = h
    BY <1>1, <1>5, <2>1 DEF TrackerConsistent
  <2>3. QED BY <1>1, <1>2, <2>1, <2>2
<1>6. fg' # 0 => fg' \in pending'
  BY <1>1, <1>2 DEF TrackerConsistent
<1>7. QED BY <1>1, <1>2, <1>3, <1>4, <1>5, <1>6 DEF TrackerConsistent

LEMMA CompleteSettles ==
  ASSUME SettleInv, NEW n \in Attempts, Complete(n)
  PROVE  SettleInv'
<1> DEFINE t == [task[n] EXCEPT !.st = "delivered"]
<1>1. /\ ConnectTyped /\ ShownTyped /\ Tracked /\ Listed /\ Stored /\ BrowserInv /\ BrowserListed
      /\ events \in 0 .. MaxEvents /\ task[n] \in Task
  BY DEF SettleInv, ConnectTyped
<1>2. task[n].st = "finished" /\ task' = [task EXCEPT ![n] = t] /\ UNCHANGED <<sftp, worker, browser, dir, events>>
  BY DEF Complete, files
<1>3. t \in Task /\ t.host = task[n].host /\ t.cancel = task[n].cancel /\ t.st = "delivered" /\ t.res = task[n].res
  BY <1>1 DEF Task
<1> HIDE DEF t
<1>4. task' \in [Attempts -> Task] /\ task'[n] = t /\ \A m \in Attempts : m # n => task'[m] = task[m]
  BY <1>1, <1>2, <1>3 DEF ConnectTyped
<1>5. \A m \in Attempts : task'[m].host = task[m].host
  BY <1>3, <1>4
<1>6. Stored'
  BY <1>1, <1>2, <1>3, <1>4 DEF Stored
<1>7. BrowserInv'
  BY <1>1, <1>2 DEF BrowserInv, Sound
<1>8. \A m \in Attempts : task'[m].st # "none" => task'[m].host \in Hosts
  BY <1>1, <1>2, <1>4, <1>5 DEF Tracked
<1>9. Sessions \subseteq Attempts /\ n \notin Sessions
  BY <1>1, <1>2 DEF ShownTyped, Listed, Sessions, Ids, ToSet
<1>10. \A m \in Sessions : task'[m] = task[m]
  BY <1>4, <1>9
<1>11. CASE open /\ Awaited(n)
  <2>1. n \in pending /\ Removed(n) /\ open' = open
    BY <1>11 DEF Complete, Awaited, shown
  <2>2. pending' = pending \ {n} /\ byHost' \in [Hosts -> Ids] /\ fg' \in Ids /\ TrackerConsistent'
    BY <1>1, <1>4, <1>5, <2>1, RemovedTracked
  <2>3. ConnectTyped'
    BY <1>1, <1>2, <1>4, <2>2 DEF ConnectTyped
  <2>4. \A m \in pending' : task'[m].st # "none" /\ task'[m].cancel # "fired" /\ (open => task'[m].st # "delivered")
    <3>1. \A m \in pending' : m \in pending /\ m # n /\ task'[m] = task[m]
      BY <1>1, <1>4, <2>2 DEF ConnectTyped
    <3>2. QED BY <1>1, <3>1 DEF Tracked
  <2>5. Tracked'
    BY <1>8, <2>1, <2>2, <2>4 DEF Tracked
  <2>6. CASE task[n].res # "ok"
    <3>1. UNCHANGED <<recent, active, surface, open>>
      BY <1>11, <2>6 DEF Complete, shown
    <3>2. ShownTyped' /\ Sessions' = Sessions
      BY <1>1, <3>1 DEF ShownTyped, Sessions, ToSet
    <3>3. Listed'
      BY <1>1, <1>10, <3>1, <3>2 DEF Listed, ToSet
    <3>4. BrowserListed'
      BY <1>1, <1>2, <3>2 DEF BrowserListed
    <3>5. QED BY <1>1, <1>2, <1>6, <1>7, <2>3, <2>5, <3>2, <3>3, <3>4 DEF SettleInv
  <2>7. CASE task[n].res = "ok"
    <3>1. recent' = Append(recent, n) /\ active' \in {active, n} /\ surface' \in {surface, "terminal"}
      BY <1>11, <2>7 DEF Complete
    <3>2. n \in Ids /\ n # 0 /\ recent \in Seq(Ids) /\ NoneTwice(recent) /\ n \notin ToSet(recent)
      BY <1>1, <1>9, BoundsAssumption DEF Ids, Attempts, ShownTyped, Listed, NoneTwice, Sessions
    <3>3. recent' \in Seq(Ids) /\ NoneTwice(recent') /\ ToSet(recent') = ToSet(recent) \union {n}
      BY <3>1, <3>2, Appended
    <3>4. ShownTyped'
      BY <1>1, <2>1, <3>1, <3>2, <3>3 DEF ShownTyped
    <3>5. Sessions' = Sessions \union {n}
      BY <3>2, <3>3 DEF Sessions
    <3>6. task'[n].st = "delivered" /\ task'[n].res = "ok" /\ task'[n].cancel # "fired"
      BY <1>1, <1>3, <1>4, <2>1, <2>7 DEF Tracked
    <3>7. \A m \in Sessions' : task'[m].st = "delivered" /\ task'[m].res = "ok" /\ task'[m].cancel # "fired"
      BY <1>1, <1>10, <3>5, <3>6 DEF Listed
    <3>8. Listed'
      BY <1>1, <3>3, <3>7 DEF Listed, NoneTwice
    <3>9. BrowserListed'
      BY <1>1, <1>2, <3>5 DEF BrowserListed
    <3>10. QED BY <1>1, <1>2, <1>6, <1>7, <2>3, <2>5, <3>4, <3>8, <3>9 DEF SettleInv
  <2>8. QED BY <2>6, <2>7
<1>12. CASE ~(open /\ Awaited(n))
  <2>1. UNCHANGED <<pending, byHost, fg, recent, active, surface, open>> /\ (open => n \notin pending)
    BY <1>12 DEF Complete, Awaited, tracker, shown
  <2>2. ConnectTyped' /\ ShownTyped' /\ Sessions' = Sessions
    BY <1>1, <1>2, <1>4, <2>1 DEF ConnectTyped, ShownTyped, Sessions, ToSet
  <2>3. TrackerConsistent'
    <3>1. pending \subseteq Attempts /\ TrackerConsistent
      BY <1>1 DEF ConnectTyped, Tracked
    <3>2. QED BY <1>5, <2>1, <3>1 DEF TrackerConsistent
  <2>4. \A m \in pending : task'[m].st # "none" /\ task'[m].cancel # "fired" /\ (open => task'[m].st # "delivered")
    <3>1. \A m \in pending : m \in Attempts
      BY <1>1 DEF ConnectTyped
    <3>2. QED BY <1>1, <1>3, <1>4, <2>1, <3>1 DEF Tracked
  <2>5. Tracked'
    BY <1>8, <2>1, <2>3, <2>4 DEF Tracked
  <2>6. Listed' /\ BrowserListed'
    BY <1>1, <1>2, <1>10, <2>1, <2>2 DEF Listed, BrowserListed, ToSet
  <2>7. QED BY <1>1, <1>2, <1>6, <1>7, <2>2, <2>5, <2>6 DEF SettleInv
<1>13. QED BY <1>11, <1>12

LEMMA EventCounted ==
  ASSUME SettleInv, Event
  PROVE  events' \in 0 .. MaxEvents /\ open
  BY BoundsAssumption DEF SettleInv, Event

(* An event that leaves tasks and tracker alone and only uses the list of sessions.*)
LEMMA WindowSettles ==
  ASSUME SettleInv, UNCHANGED <<task, sftp, pending, byHost, fg>>,
         worker' \in [Attempts -> {"none", "running", "ended"}], ShownTyped', open' => open,
         events' \in 0 .. MaxEvents, Sessions' \subseteq Sessions, 0 \in ToSet(recent'), NoneTwice(recent'),
         BrowserInv', BrowserListed'
  PROVE  SettleInv'
<1>1. ConnectTyped /\ Tracked /\ Listed /\ Stored
  BY DEF SettleInv
<1>2. ConnectTyped' /\ Stored'
  BY <1>1 DEF ConnectTyped, Stored
<1>3. Tracked'
  BY <1>1 DEF Tracked, TrackerConsistent
<1>4. Listed'
  BY <1>1 DEF Listed, NoneTwice
<1>5. QED BY <1>2, <1>3, <1>4 DEF SettleInv

(* A set of attempts that is not empty has a first one.                            *)
LEMMA LeastAttempt ==
  ASSUME NEW S \in SUBSET Attempts, S # {}
  PROVE  \E m \in S : \A k \in S : m <= k
<1>1. S \subseteq Nat
  BY BoundsAssumption DEF Attempts
<1>2. \E m \in S : \A k \in S : ~(<<k, m>> \in OpToRel(<, Nat))
  BY <1>1, WFMin, NatLessThanWellFounded
<1>3. PICK m \in S : \A k \in S : ~(k < m)
  BY <1>1, <1>2 DEF OpToRel
<1>4. QED BY <1>1, <1>3

LEMMA StartConnectSettles ==
  ASSUME SettleInv, NEW h \in Hosts, StartConnect(h)
  PROVE  SettleInv'
<1>1. /\ ConnectTyped /\ ShownTyped /\ Tracked /\ Listed /\ Stored /\ BrowserInv /\ BrowserListed
      /\ events' \in 0 .. MaxEvents
      /\ UNCHANGED <<sftp, worker, recent, active, surface, open, browser, dir>>
  BY EventCounted DEF SettleInv, StartConnect, shown, files
<1>2. ShownTyped' /\ Sessions' = Sessions /\ BrowserInv' /\ BrowserListed'
  BY <1>1 DEF ShownTyped, Sessions, ToSet, BrowserInv, Sound, BrowserListed
<1>3. CASE UNCHANGED <<task, tracker>>
  <2>1. UNCHANGED <<task, sftp, pending, byHost, fg>>
    BY <1>1, <1>3 DEF tracker
  <2>2. worker' \in [Attempts -> {"none", "running", "ended"}] /\ 0 \in ToSet(recent') /\ NoneTwice(recent')
    BY <1>1 DEF ConnectTyped, Listed, NoneTwice
  <2>3. QED BY <1>1, <1>2, <2>1, <2>2, WindowSettles
<1>4. CASE ~UNCHANGED <<task, tracker>>
  <2> DEFINE n == CHOOSE m \in Fresh : \A k \in Fresh : m <= k
  <2>1. PICK methods \in 1 .. MaxAuth :
          /\ byHost[h] = 0 /\ Fresh # {}
          /\ task' = [task EXCEPT ![n] = [NoTask EXCEPT !.host = h, !.st = "connect", !.auth = methods]]
          /\ pending' = pending \union {n} /\ byHost' = [byHost EXCEPT ![h] = n] /\ fg' = n
    BY <1>4 DEF StartConnect
  <2>2. \E m \in Fresh : \A k \in Fresh : m <= k
    BY <2>1, LeastAttempt DEF Fresh
  <2>3. n \in Attempts /\ task[n].st = "none"
    BY <2>2 DEF Fresh
  <2> HIDE DEF n
  <2> DEFINE t == [NoTask EXCEPT !.host = h, !.st = "connect", !.auth = methods]
  <2>4. t \in Task /\ t.host = h /\ t.cancel = "open" /\ t.st = "connect"
    <3>1. methods \in 0 .. MaxAuth
      BY BoundsAssumption
    <3>2. NoTask \in Task /\ NoTask.cancel = "open"
      BY BoundsAssumption DEF NoTask, Task
    <3>3. "connect" \in Running
      BY DEF Running
    <3>4. QED BY <3>1, <3>2, <3>3 DEF Task
  <2> HIDE DEF t
  <2>5. task' \in [Attempts -> Task] /\ task'[n] = t /\ \A m \in Attempts : m # n => task'[m] = task[m]
    BY <1>1, <2>1, <2>3, <2>4 DEF ConnectTyped, t
  <2>6. n \in Ids /\ n # 0 /\ n \notin pending /\ n \notin Sessions /\ pending \subseteq Attempts
    BY <1>1, <2>3, BoundsAssumption DEF Ids, Attempts, Tracked, Listed, ConnectTyped
  <2>7. byHost' \in [Hosts -> Ids] /\ byHost'[h] = n /\ \A g \in Hosts : g # h => byHost'[g] = byHost[g]
    BY <1>1, <2>1, <2>6 DEF ConnectTyped
  <2>8. ConnectTyped'
    BY <1>1, <2>1, <2>3, <2>5, <2>6, <2>7 DEF ConnectTyped
  <2>9. TrackerConsistent'
    <3>1. TrackerConsistent
      BY <1>1 DEF Tracked
    <3>2. ASSUME NEW m \in pending' PROVE byHost'[task'[m].host] = m
      <4>1. CASE m = n
        BY <2>4, <2>5, <2>7, <4>1
      <4>2. CASE m # n
        <5>1. m \in pending /\ task'[m] = task[m] /\ byHost[task[m].host] = m /\ task[m].host \in Hosts
          BY <1>1, <2>1, <2>5, <2>6, <3>1, <3>2, <4>2 DEF TrackerConsistent, Tracked
        <5>2. m # 0
          BY <2>6, <5>1, BoundsAssumption DEF Attempts
        <5>3. QED BY <2>1, <2>7, <5>1, <5>2
      <4>3. QED BY <4>1, <4>2
    <3>3. ASSUME NEW g \in Hosts, byHost'[g] # 0 PROVE byHost'[g] \in pending' /\ task'[byHost'[g]].host = g
      <4>1. CASE g = h
        BY <2>1, <2>4, <2>5, <2>7, <4>1
      <4>2. CASE g # h
        <5>1. byHost'[g] = byHost[g] /\ byHost[g] \in pending /\ task[byHost[g]].host = g
          BY <2>7, <3>1, <3>3, <4>2 DEF TrackerConsistent
        <5>2. byHost[g] # n /\ byHost[g] \in Attempts
          BY <2>6, <5>1
        <5>3. QED BY <2>1, <2>5, <5>1, <5>2
      <4>3. QED BY <4>1, <4>2
    <3>4. QED BY <2>1, <3>2, <3>3 DEF TrackerConsistent
  <2>10. \A m \in pending' : task'[m].st # "none" /\ task'[m].cancel # "fired" /\ (open => task'[m].st # "delivered")
    <3>1. \A m \in pending : task'[m] = task[m]
      BY <2>5, <2>6
    <3>2. QED BY <1>1, <2>1, <2>4, <2>5, <3>1 DEF Tracked
  <2>11. \A m \in Attempts : task'[m].st # "none" => task'[m].host \in Hosts
    BY <1>1, <2>4, <2>5 DEF Tracked
  <2>12. Tracked'
    BY <1>1, <2>9, <2>10, <2>11 DEF Tracked
  <2>13. Sessions \subseteq Attempts
    BY <1>1 DEF ShownTyped, Sessions, Ids, ToSet
  <2>14. Listed'
    BY <1>1, <1>2, <2>5, <2>6, <2>13 DEF Listed
  <2>15. Stored'
    BY <1>1, <2>4, <2>5 DEF Stored
  <2>16. QED BY <1>1, <1>2, <2>8, <2>12, <2>14, <2>15 DEF SettleInv
<1>5. QED BY <1>3, <1>4

LEMMA CancelConnectSettles ==
  ASSUME SettleInv, NEW n \in Attempts, CancelConnect(n)
  PROVE  SettleInv'
<1> DEFINE c == IF task[n].cancel = "open" THEN "fired" ELSE task[n].cancel
           t == [task[n] EXCEPT !.cancel = c]
<1>1. /\ ConnectTyped /\ ShownTyped /\ Tracked /\ Listed /\ Stored /\ BrowserInv /\ BrowserListed
      /\ events' \in 0 .. MaxEvents /\ open /\ task[n] \in Task
      /\ UNCHANGED <<sftp, worker, recent, active, surface, open, browser, dir>>
  BY EventCounted DEF SettleInv, CancelConnect, shown, files, ConnectTyped
<1>2. ShownTyped' /\ Sessions' = Sessions /\ BrowserInv' /\ BrowserListed'
  BY <1>1 DEF ShownTyped, Sessions, ToSet, BrowserInv, Sound, BrowserListed
<1>3. n \in pending /\ task' = [task EXCEPT ![n] = t] /\ task[n].cancel # "fired"
  BY DEF CancelConnect
<1>4. c \in {"open", "fired", "closed"} /\ (task[n].cancel # "open" => c = task[n].cancel)
  BY <1>1 DEF Task
<1> HIDE DEF c
<1>5. t \in Task /\ t.host = task[n].host /\ t.cancel = c /\ t.st = task[n].st /\ t.res = task[n].res
  BY <1>1, <1>4 DEF Task
<1> HIDE DEF t
<1>6. task' \in [Attempts -> Task] /\ task'[n] = t /\ \A m \in Attempts : m # n => task'[m] = task[m]
  BY <1>1, <1>3, <1>5 DEF ConnectTyped
<1>7. \A m \in Attempts : task'[m].host = task[m].host /\ task'[m].st = task[m].st /\ task'[m].res = task[m].res
  BY <1>5, <1>6
<1>8. Stored'
  BY <1>1, <1>7 DEF Stored
<1>9. Sessions \subseteq Attempts /\ n \notin Sessions
  BY <1>1, <1>3 DEF ShownTyped, Listed, Tracked, Sessions, Ids, ToSet
<1>10. Listed'
  BY <1>1, <1>2, <1>6, <1>9 DEF Listed, ToSet
<1>11. \A m \in Attempts : task'[m].st # "none" => task'[m].host \in Hosts
  BY <1>1, <1>7 DEF Tracked
<1>12. CASE task[n].cancel = "open"
  <2>1. Removed(n)
    BY <1>12 DEF CancelConnect
  <2>2. pending' = pending \ {n} /\ byHost' \in [Hosts -> Ids] /\ fg' \in Ids /\ TrackerConsistent'
    BY <1>1, <1>3, <1>6, <1>7, <2>1, RemovedTracked
  <2>3. ConnectTyped'
    BY <1>1, <1>6, <2>2 DEF ConnectTyped
  <2>4. \A m \in pending' : m \in pending /\ task'[m] = task[m]
    BY <1>1, <1>6, <2>2 DEF ConnectTyped
  <2>5. Tracked'
    BY <1>1, <1>11, <2>2, <2>4 DEF Tracked
  <2>6. QED BY <1>1, <1>2, <1>8, <1>10, <2>3, <2>5 DEF SettleInv
<1>13. CASE task[n].cancel # "open"
  <2>1. UNCHANGED <<pending, byHost, fg>>
    BY <1>13 DEF CancelConnect, tracker
  <2>2. \A m \in Attempts : task'[m].cancel = task[m].cancel
    BY <1>4, <1>5, <1>6, <1>13
  <2>3. ConnectTyped' /\ pending \subseteq Attempts
    BY <1>1, <1>6, <2>1 DEF ConnectTyped
  <2>4. TrackerConsistent'
    BY <1>1, <1>7, <2>1, <2>3 DEF Tracked, TrackerConsistent
  <2>5. Tracked'
    BY <1>1, <1>7, <1>11, <2>1, <2>2, <2>3, <2>4 DEF Tracked
  <2>6. QED BY <1>1, <1>2, <1>8, <1>10, <2>3, <2>5 DEF SettleInv
<1>14. QED BY <1>12, <1>13

LEMMA SelectSettles ==
  ASSUME SettleInv, NEW n \in Ids, Select(n) \/ (n # 0 /\ CloseSession(n))
  PROVE  SettleInv'
<1>1. /\ ConnectTyped /\ ShownTyped /\ Listed /\ BrowserInv /\ BrowserListed /\ events' \in 0 .. MaxEvents
      /\ UNCHANGED <<task, sftp, worker, pending, byHost, fg, surface, open, dir>>
      /\ n \in ToSet(recent) /\ recent \in Seq(Ids) /\ NoneTwice(recent)
  BY EventCounted DEF SettleInv, Select, CloseSession, connecting, tracker, files, ShownTyped, Listed, NoneTwice, Sessions
<1>2. Without(n) \in Seq(Ids) /\ NoneTwice(Without(n)) /\ ToSet(Without(n)) = ToSet(recent) \ {n}
  BY <1>1, WithoutFacts
<1>3. worker' \in [Attempts -> {"none", "running", "ended"}]
  BY <1>1 DEF ConnectTyped
<1>4. CASE Select(n)
  <2>1. recent' = Append(Without(n), n) /\ active' = n /\ browser' = browser
    BY <1>4 DEF Select, files
  <2>2. recent' \in Seq(Ids) /\ NoneTwice(recent') /\ ToSet(recent') = ToSet(Without(n)) \union {n}
    BY <1>2, <2>1, Appended
  <2>3. ToSet(recent') = ToSet(recent)
    BY <1>1, <1>2, <2>2
  <2>4. ShownTyped' /\ Sessions' = Sessions /\ 0 \in ToSet(recent')
    BY <1>1, <2>1, <2>2, <2>3 DEF ShownTyped, Sessions, Listed
  <2>5. BrowserInv' /\ BrowserListed'
    BY <1>1, <2>1, <2>4 DEF BrowserInv, Sound, BrowserListed
  <2>6. QED BY <1>1, <1>3, <2>2, <2>4, <2>5, WindowSettles
<1>5. CASE n # 0 /\ CloseSession(n)
  <2>1. /\ recent' = Without(n) /\ active' = (IF active = n THEN Last(Without(n)) ELSE active)
        /\ browser' = IF browser.ses = n THEN NoBrowser ELSE browser
    BY <1>5 DEF CloseSession
  <2>2. 0 \in ToSet(recent') /\ Sessions' = Sessions \ {n}
    BY <1>1, <1>2, <1>5, <2>1 DEF Listed, Sessions
  <2>3. Without(n) # <<>>
    BY <2>1, <2>2 DEF ToSet
  <2>4. Last(Without(n)) \in Ids
    BY <1>2, <2>3, LastIsMember
  <2>5. ShownTyped'
    BY <1>1, <1>2, <2>1, <2>4 DEF ShownTyped
  <2>6. BrowserInv'
    BY <1>1, <2>1, NoBrowserSound DEF BrowserInv, Sound
  <2>7. BrowserListed'
    BY <1>1, <2>1, <2>2, NoBrowserSound DEF BrowserListed
  <2>8. QED BY <1>1, <1>2, <1>3, <2>1, <2>2, <2>5, <2>6, <2>7, WindowSettles
<1>6. QED BY <1>4, <1>5

(* Events of the browser and of the window, and the end of a connection.           *)
LEMMA OthersSettle ==
  ASSUME SettleInv,
         BrowserEvent \/ CloseWindow \/ \E n \in Attempts : OpenBrowser(n) \/ WorkerEnds(n)
  PROVE  SettleInv'
<1>1. /\ ConnectTyped /\ ShownTyped /\ Listed /\ BrowserInv /\ BrowserListed /\ events \in 0 .. MaxEvents
      /\ 0 \in ToSet(recent) /\ NoneTwice(recent)
  BY DEF SettleInv, Listed, NoneTwice
<1>2. ASSUME UNCHANGED <<task, sftp, pending, byHost, fg, recent, active>>,
             worker' \in [Attempts -> {"none", "running", "ended"}],
             surface' \in {"terminal", "sftp"}, open' \in {open, FALSE}, events' \in 0 .. MaxEvents,
             BrowserInv', browser'.ses \in Sessions \union {browser.ses, 0}
      PROVE  SettleInv'
  <2>1. ShownTyped' /\ Sessions' = Sessions
    BY <1>1, <1>2 DEF ShownTyped, Sessions, ToSet
  <2>2. BrowserListed' /\ (open' => open)
    BY <1>1, <1>2, <2>1 DEF BrowserListed, ShownTyped
  <2>3. 0 \in ToSet(recent') /\ NoneTwice(recent')
    BY <1>1, <1>2
  <2>4. QED BY <1>2, <2>1, <2>2, <2>3, WindowSettles
<1>3. worker \in [Attempts -> {"none", "running", "ended"}] /\ surface \in {"terminal", "sftp"}
  BY <1>1 DEF ConnectTyped, ShownTyped
<1>4. CASE BrowserEvent
  <2>1. /\ events' \in 0 .. MaxEvents
        /\ UNCHANGED <<task, sftp, worker, pending, byHost, fg, recent, active, open>>
        /\ surface' \in {surface, "terminal"}
    <3>1. Event /\ UNCHANGED <<connecting, tracker, recent, active, open>> /\ surface' \in {surface, "terminal"}
      BY <1>4 DEF BrowserEvent, Browse, CloseBrowser, Breadcrumb, Up, Refresh, Enter, Backspace, DoubleClick, Sort,
                  AskDelete, AskMkdir, AskRename, Dismiss, ConfirmDelete, ConfirmMkdir, ConfirmRename, OtherClient,
                  Move, ClickRow, Typed, shown
    <3>2. QED BY <3>1, EventCounted DEF connecting, tracker
  <2>2. BrowserStays
    BY <1>1, <1>4, BrowserEventSound
  <2>3. QED BY <1>2, <1>3, <2>1, <2>2 DEF BrowserStays
<1>5. CASE CloseWindow
  <2>1. /\ events' \in 0 .. MaxEvents /\ open' = FALSE
        /\ UNCHANGED <<task, sftp, worker, pending, byHost, fg, recent, active, surface, browser, dir>>
    BY <1>5, EventCounted DEF CloseWindow, connecting, tracker, files
  <2>2. BrowserInv'
    BY <1>1, <2>1 DEF BrowserInv, Sound
  <2>3. QED BY <1>2, <1>3, <2>1, <2>2
<1>6. ASSUME NEW n \in Attempts, OpenBrowser(n) PROVE SettleInv'
  <2> DEFINE b == [NoBrowser EXCEPT !.ses = n]
  <2>1. /\ events' \in 0 .. MaxEvents /\ n \in Sessions /\ surface' = "sftp" /\ browser' \in Listings(b, dir)
        /\ UNCHANGED <<task, sftp, worker, pending, byHost, fg, recent, active, open, dir>>
    BY <1>6, EventCounted DEF OpenBrowser, connecting, tracker
  <2>2. b \in Browsers /\ b.ses = n
    <3>1. n \in Ids
      BY DEF Ids
    <3>2. QED BY <3>1, NoBrowserSound DEF Sound, Browsers
  <2> HIDE DEF b
  <2>3. Sound(browser') /\ browser'.ses = n
    BY <1>1, <2>1, <2>2, ListingsSound DEF BrowserInv
  <2>4. BrowserInv'
    BY <1>1, <2>1, <2>3 DEF BrowserInv, Sound
  <2>5. QED BY <1>2, <1>3, <2>1, <2>3, <2>4
<1>7. ASSUME NEW n \in Attempts, WorkerEnds(n) PROVE SettleInv'
  <2>1. /\ worker' = [worker EXCEPT ![n] = "ended"]
        /\ UNCHANGED <<task, sftp, pending, byHost, fg, recent, active, surface, open, browser, dir, events>>
    BY <1>7 DEF WorkerEnds, tracker, shown, files
  <2>2. worker' \in [Attempts -> {"none", "running", "ended"}]
    BY <1>3, <2>1
  <2>3. BrowserInv'
    BY <1>1, <2>1 DEF BrowserInv, Sound
  <2>4. QED BY <1>1, <1>2, <1>3, <2>1, <2>2, <2>3
<1>8. QED BY <1>4, <1>5, <1>6, <1>7

---------------------------------------------------------------------------
LEMMA SettleInit == Init => SettleInv
<1> SUFFICES ASSUME Init PROVE SettleInv
  OBVIOUS
<1> DEFINE h0 == CHOOSE h \in Hosts : TRUE
<1>1. PICK up \in BOOLEAN :
        /\ task = [n \in Attempts |-> IF n = 1 /\ up
                    THEN [NoTask EXCEPT !.st = "delivered", !.res = "ok", !.cancel = "closed", !.host = h0]
                    ELSE NoTask]
        /\ sftp = IF up THEN {1} ELSE {}
        /\ worker = [n \in Attempts |-> IF n = 1 /\ up THEN "running" ELSE "none"]
        /\ pending = {} /\ byHost = [h \in Hosts |-> 0] /\ fg = 0
        /\ recent = (IF up THEN <<0, 1>> ELSE <<0>>) /\ active = IF up THEN 1 ELSE 0
        /\ surface = "terminal" /\ open = TRUE /\ events = 0
        /\ browser = NoBrowser
        /\ dir = [p \in Paths |-> IF p = "top" THEN {"d", "x", "y"} ELSE {"..", "x"}]
  BY DEF Init
<1>2. h0 \in Hosts
  BY HostsAssumption
<1> HIDE DEF h0
<1> DEFINE t1 == [NoTask EXCEPT !.st = "delivered", !.res = "ok", !.cancel = "closed", !.host = h0]
<1>3. NoTask \in Task /\ NoTask.st = "none"
  BY BoundsAssumption DEF NoTask, Task
<1>4. t1 \in Task /\ t1.st = "delivered" /\ t1.res = "ok" /\ t1.cancel = "closed" /\ t1.host = h0
  BY <1>2, <1>3 DEF Task
<1> HIDE DEF t1
<1>5. task = [n \in Attempts |-> IF n = 1 /\ up THEN t1 ELSE NoTask]
  BY <1>1 DEF t1
<1>6. 1 \in Attempts /\ 0 \in Ids /\ 1 \in Ids /\ 0 \in 0 .. MaxEvents /\ \A n \in Attempts : n # 0
  BY BoundsAssumption DEF Attempts, Ids
<1>7. ConnectTyped
  BY <1>1, <1>3, <1>4, <1>5, <1>6 DEF ConnectTyped
<1>8. recent \in Seq(Ids) /\ (up => ToSet(recent) = {0, 1}) /\ (~up => ToSet(recent) = {0})
      /\ \A i, j \in DOMAIN recent : recent[i] = recent[j] => i = j
  <2>1. CASE up
    <3>1. recent = <<0, 1>> /\ recent \in Seq(Ids) /\ Len(recent) = 2 /\ recent[1] = 0 /\ recent[2] = 1
      BY <1>1, <1>6, <2>1
    <3>2. DOMAIN recent = {1, 2}
      BY <3>1
    <3>3. QED BY <2>1, <3>1, <3>2 DEF ToSet
  <2>2. CASE ~up
    <3>1. recent = <<0>> /\ recent \in Seq(Ids) /\ Len(recent) = 1 /\ recent[1] = 0
      BY <1>1, <1>6, <2>2
    <3>2. DOMAIN recent = {1}
      BY <3>1
    <3>3. QED BY <2>2, <3>1, <3>2 DEF ToSet
  <2>3. QED BY <2>1, <2>2
<1>9. ShownTyped
  BY <1>1, <1>6, <1>8 DEF ShownTyped
<1>10. Tracked
  BY <1>1, <1>2, <1>3, <1>4, <1>5 DEF Tracked, TrackerConsistent
<1>11. Listed
  BY <1>4, <1>5, <1>6, <1>8 DEF Listed, Sessions
<1>12. Stored
  BY <1>1, <1>3, <1>4, <1>5 DEF Stored
<1>13. BrowserInv /\ BrowserListed
  <2>1. dir \in [Paths -> SUBSET Names]
    BY <1>1 DEF Names, Folders
  <2>2. QED BY <1>1, <2>1, NoBrowserSound DEF BrowserInv, BrowserListed
<1>14. QED BY <1>1, <1>6, <1>7, <1>9, <1>10, <1>11, <1>12, <1>13 DEF SettleInv

LEMMA SettleStep == SettleInv /\ [Next]_vars => SettleInv'
<1>1. ASSUME SettleInv, Next PROVE SettleInv'
  <2>1. CASE UserEvent
    <3>1. CASE BrowserEvent \/ CloseWindow \/ \E n \in Attempts : OpenBrowser(n)
      BY <1>1, <3>1, OthersSettle
    <3>2. CASE \E h \in Hosts : StartConnect(h)
      BY <1>1, <3>2, StartConnectSettles
    <3>3. CASE \E n \in Attempts : CancelConnect(n)
      BY <1>1, <3>3, CancelConnectSettles
    <3>4. CASE (\E n \in Attempts : CloseSession(n)) \/ \E n \in Attempts \union {0} : Select(n)
      <4>1. \A n \in Attempts : n \in Ids /\ n # 0
        BY BoundsAssumption DEF Ids, Attempts
      <4>2. QED BY <1>1, <3>4, <4>1, SelectSettles DEF Ids
    <3>5. QED BY <2>1, <3>1, <3>2, <3>3, <3>4 DEF UserEvent
  <2>2. CASE \E n \in Attempts : TaskStep(n) \/ Finish(n) \/ Complete(n) \/ WorkerEnds(n)
    BY <1>1, <2>2, TaskStepSettles, FinishSettles, CompleteSettles, OthersSettle
  <2>3. QED BY <1>1, <2>1, <2>2 DEF Next
<1>2. ASSUME SettleInv, UNCHANGED vars PROVE SettleInv'
  <2>1. UNCHANGED <<task, sftp, worker, pending, byHost, fg, recent, active, surface, open, browser, dir, events>>
    BY <1>2 DEF vars, connecting, tracker, shown, files
  <2>2. QED
    BY <1>2, <2>1 DEF SettleInv, ConnectTyped, ShownTyped, Tracked, TrackerConsistent, Listed, Stored, BrowserInv,
                      Sound, BrowserListed, Sessions, ToSet
<1>3. QED BY <1>1, <1>2

LEMMA SettleInvariant == Spec => []SettleInv
  BY SettleInit, SettleStep, PTL DEF Spec

(* start_connect_attempt, cancel_connect_attempt, run_connect_future and           *)
(* complete_connect_attempt: however connecting, cancelling, timing out and closing*)
(* interleave, the tracker's maps agree, what was cancelled never opens, a failed  *)
(* connect leaves no SFTP session, and every session listed has one.               *)
THEOREM ConnectAttemptsSettle == Spec => []AttemptsSettle
<1>1. SettleInv => TypeOK
  <2>1. ASSUME SettleInv PROVE TypeOK
    <3>1. /\ browser.entries \in Seq(Names) /\ browser.row \in Nat \ {0} /\ Len(browser.entries) \in Nat
          /\ (browser.entries = <<>> => browser.row = 1) /\ (browser.entries # <<>> => browser.row <= Len(browser.entries))
      <4>1. browser.entries \in Seq(Names) /\ browser.row \in Nat \ {0}
        BY <2>1 DEF SettleInv, BrowserInv, Sound, Browsers
      <4>2. QED BY <2>1, <4>1 DEF SettleInv, BrowserInv, Sound
    <3>2. browser.row \in 1 .. (IF browser.entries = <<>> THEN 1 ELSE Len(browser.entries))
      BY <3>1
    <3>3. QED BY <2>1, <3>1, <3>2 DEF SettleInv, ConnectTyped, ShownTyped, BrowserInv, Task, Ids, TypeOK
  <2>2. QED BY <2>1
<1>2. SettleInv => TrackerConsistent /\ CancelledNeverShown /\ FailureLeavesNoSftp
  BY DEF SettleInv, Tracked, Listed, Stored, CancelledNeverShown, FailureLeavesNoSftp
<1>3. SettleInv => SessionsHaveSftp
  <2>1. ASSUME SettleInv PROVE Sessions \subseteq sftp
    BY <2>1 DEF SettleInv, ShownTyped, Listed, Stored, Sessions, Ids, ToSet
  <2>2. QED BY <2>1 DEF SettleInv, BrowserListed, SessionsHaveSftp
<1>4. QED BY <1>1, <1>2, <1>3, SettleInvariant, PTL DEF AttemptsSettle

(* sftp_navigate, sftp_refresh_current and the calls that list again: the entries  *)
(* shown are of the path shown, so no delete, rename or mkdir acts elsewhere.      *)
THEOREM BrowserListsItsPath == Spec => []ListingIsOfPath
<1>1. SettleInv => ListingIsOfPath
  BY DEF SettleInv, BrowserInv, Sound, ListingIsOfPath
<1>2. QED BY <1>1, SettleInvariant, PTL

=============================================================================
