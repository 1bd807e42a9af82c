--------------------------- MODULE TerminalProofs ---------------------------
(***************************************************************************)
(* Proofs about a terminal session (TerminalSession) and about the pane of *)
(* a window that shows sessions (TerminalView), for any amount of output,  *)
(* any commands and limits, and any sessions, screens and events.          *)
(***************************************************************************)
EXTENDS TerminalSession, TerminalView, TLAPS, SequenceTheorems, WellFoundedInduction, FiniteSetTheorems

-----------------------------------------------------------------------------
(***************************************************************************)
(* Induction over numbers, by the least counterexample.                    *)
(***************************************************************************)

\* A set of numbers that is not empty has a least one.
LEMMA LeastNumber ==
  ASSUME NEW S \in SUBSET Nat, S # {}
  PROVE  \E m \in S : \A k \in S : m <= k
<1>1. \E m \in S : \A k \in S : ~(<<k, m>> \in OpToRel(<, Nat))
  BY WFMin, NatLessThanWellFounded
<1>2. PICK m \in S : \A k \in S : ~(k < m)
  BY <1>1 DEF OpToRel
<1>3. QED BY <1>2

\* A set that holds 0, and n + 1 whenever it holds n < N, holds every number up to N.
LEMMA UpTo ==
  ASSUME NEW N \in Nat, NEW S, 0 \in S, \A n \in 0 .. N - 1 : n \in S => n + 1 \in S
  PROVE  \A n \in 0 .. N : n \in S
<1> DEFINE Bad == {n \in 0 .. N : n \notin S}
<1>1. SUFFICES ASSUME Bad # {} PROVE FALSE
  OBVIOUS
<1>2. Bad \in SUBSET Nat
  OBVIOUS
<1>3. PICK m \in Bad : \A k \in Bad : m <= k
  BY <1>1, <1>2, LeastNumber
<1>4. m # 0 /\ m - 1 \in 0 .. N - 1 /\ m - 1 \notin Bad
  BY <1>3
<1>5. (m - 1) + 1 \in S
  BY <1>4
<1>6. QED BY <1>3, <1>5

-----------------------------------------------------------------------------
(***************************************************************************)
(* Session: the inductive invariant, by the parts of the state.            *)
(***************************************************************************)

PCs == {"start", "top", "writing", "after", "poll", "final", "publish", "burst", "done"}
Replies == [id : 0 .. MaxCmds, st : {"none", "waiting", "answered", "timed_out", "stopped"}]
Emulators == [rows : Nat, offset : Nat, bottom : BOOLEAN, geo : Geometries, alt : BOOLEAN,
              seenRows : Nat, seenOffset : Nat]
Turns == [line : BOOLEAN, primary : BOOLEAN, active : Nat, out : Nat, cut : BOOLEAN,
          completed : Seq(Nat)]
Views == [rows : Nat, offset : Nat, bottom : BOOLEAN, geo : Geometries,
          exit : {"none", "exited", "closed", "error"}]
Sinks == [queue : 0 .. SinkCapacity, hand : 0 .. 1, file : 0 .. FileCapacity, dropped : Nat,
          lost : Nat, recorded : Nat, truncated : BOOLEAN, dead : BOOLEAN]

CommandsInv ==
  /\ kind \in {"local", "ssh"} /\ handle \in BOOLEAN
  /\ cmds \in Seq(Commands) /\ pending \in Seq(Commands) /\ Len(pending) <= 1
  /\ sent \in 0 .. MaxCmds /\ applied \in 0 .. MaxCmds
  /\ copy \in Replies /\ pc \in PCs
  /\ CommandsAccounted

OutputInv ==
  /\ pty \in Seq(Data) /\ chan \in Seq(Data \cup {"exit", "eof"})
  /\ child \in [st : {"running", "exited", "closed"}, made : 0 .. MaxOut]

\* What was delivered when the exit was noticed is still in the channel while the last
\* drain runs, and nothing of it is left when that drain has ended.
DrainInv ==
  /\ owed \in Nat
  /\ pc = "final" => owed <= Len(chan)
  /\ pc = "publish" => owed = 0

ScreenInv ==
  /\ changed \in BOOLEAN /\ skipped \in BOOLEAN /\ exit \in {"none", "exited"}
  /\ emu \in Emulators /\ emu.offset <= emu.rows
  /\ view \in Views
  /\ NoSilentOutput

TurnInv == turn \in Turns /\ turn.out <= MaxText /\ Len(turn.completed) <= MaxTurns

SinkInv == sink \in Sinks /\ TranscriptAccounted

SessionInv == CommandsInv /\ OutputInv /\ DrainInv /\ ScreenInv /\ TurnInv /\ SinkInv

LEMMA SessionBounds ==
  /\ MaxOut \in Nat /\ MaxCmds \in Nat /\ Flood \in Nat /\ Transcripts \in BOOLEAN
  /\ SinkCapacity \in Nat \ {0} /\ FileCapacity \in Nat \ {0} /\ MaxTurns \in Nat \ {0}
  /\ Marker \in Nat \ {0} /\ MaxText \in Nat /\ MaxText >= Marker
BY BoundsAssumption, CapacityAssumption, TextAssumption

LEMMA SessionInvHolds ==
  ASSUME SessionInv PROVE SessionAccounted
<1>1. TypeOK
  BY DEF TypeOK, SessionInv, CommandsInv, OutputInv, DrainInv, ScreenInv, TurnInv, SinkInv,
         PCs, Replies, Emulators, Turns, Views, Sinks
<1>2. QED
  BY <1>1 DEF SessionAccounted, SessionInv, CommandsInv, ScreenInv, TurnInv, SinkInv, TurnTextBounded

LEMMA SessionStarts ==
  ASSUME Init PROVE SessionInv
<1>1. CommandsInv
  BY SessionBounds, EmptySeq DEF Init, CommandsInv, PCs, Replies, CommandsAccounted
<1>2. OutputInv /\ DrainInv
  BY SessionBounds, EmptySeq DEF Init, OutputInv, DrainInv
<1>3. ScreenInv
  <2>1. emu \in Emulators /\ emu.offset <= emu.rows
    BY DEF Init, Emulators, Geometries
  <2>2. view \in Views /\ emu.rows = view.rows
    BY DEF Init, Views, NoView, Geometries
  <2>3. QED BY <2>1, <2>2 DEF Init, ScreenInv, NoSilentOutput
<1>4. TurnInv
  BY SessionBounds, EmptySeq DEF Init, TurnInv, Turns, NewTracker
<1>5. SinkInv
  BY SessionBounds DEF Init, SinkInv, Sinks, NewSink, TranscriptAccounted
<1>6. QED BY <1>1, <1>2, <1>3, <1>4, <1>5 DEF SessionInv

-----------------------------------------------------------------------------
(***************************************************************************)
(* Session: what the parts of a step do.                                   *)
(***************************************************************************)

LEMMA EndKeepsCommands ==
  ASSUME CommandsInv, End, UNCHANGED <<kind, handle, sent>>
  PROVE  CommandsInv'
BY SMTT(30), SessionBounds, EmptySeq DEF CommandsInv, End, PCs, Replies, CommandsAccounted

\* The command that is applied next, and what it leaves.
LEMMA FirstAndRest ==
  ASSUME CommandsInv, HasCommand
  PROVE  /\ First \in Commands /\ Rest \in Seq(Commands)
         /\ applied + 1 + Len(Rest) = sent
<1>1. CASE pending # <<>>
  <2>0. pending \in Seq(Commands)
    BY DEF CommandsInv
  <2>a. Len(pending) \in Nat /\ Len(pending) # 0
    BY <1>1, <2>0, EmptySeq, LenProperties
  <2>b. Len(pending) <= 1
    BY DEF CommandsInv
  <2>c. Len(pending) = 1
    <3>1. \A n \in Nat : n # 0 /\ n <= 1 => n = 1
      OBVIOUS
    <3>2. QED BY <2>a, <2>b, <3>1
  <2>1. Len(pending) = 1 /\ pending[1] \in Commands
    <3>1. 1 \in 1 .. Len(pending)
      BY <2>c
    <3>2. pending[1] \in Commands
      BY <2>0, <3>1, ElementOfSeq
    <3>3. QED BY <2>c, <3>2
  <2>2. QED BY <1>1, <2>1, SessionBounds DEF CommandsInv, CommandsAccounted, First, Rest
<1>2. CASE pending = <<>>
  <2>1. cmds # <<>> /\ Len(pending) = 0
    BY <1>2 DEF HasCommand
  <2>2. Head(cmds) \in Commands /\ Tail(cmds) \in Seq(Commands) /\ Len(Tail(cmds)) = Len(cmds) - 1
    BY <2>1, HeadTailProperties DEF CommandsInv
  <2>3. Len(cmds) \in Nat
    BY LenProperties DEF CommandsInv
  <2>4. QED BY <1>2, <2>1, <2>2, <2>3, SessionBounds DEF CommandsInv, CommandsAccounted, First, Rest
<1>3. QED BY <1>1, <1>2

LEMMA TakenKeepsCommands ==
  ASSUME CommandsInv, Taken, UNCHANGED <<kind, handle, sent>>, pc' \in PCs, copy' \in Replies
  PROVE  CommandsInv'
<1>1. First \in Commands /\ Rest \in Seq(Commands) /\ applied + 1 + Len(Rest) = sent
  BY FirstAndRest DEF Taken
<1>2. Len(Rest) \in Nat
  BY <1>1, LenProperties
<1>3. pending' = <<>> /\ cmds' = Rest /\ applied' = applied + 1
  BY DEF Taken
<1>4. applied' + Len(cmds') = sent /\ applied' \in 0 .. MaxCmds
  BY <1>1, <1>2, <1>3, SessionBounds DEF CommandsInv
<1>5. QED BY <1>1, <1>2, <1>3, <1>4, EmptySeq, SessionBounds DEF CommandsInv, CommandsAccounted

LEMMA ContinueIsPlace == ASSUME Continue PROVE pc' \in PCs /\ pc' \notin {"done", "final", "publish"}
BY DEF Continue, PCs

\* What the invariant says of the sink, field by field.
LEMMA SinkFacts ==
  ASSUME SinkInv
  PROVE  /\ sink.queue \in 0 .. SinkCapacity /\ sink.hand \in 0 .. 1
         /\ sink.file \in 0 .. FileCapacity
         /\ sink.dropped \in Nat /\ sink.lost \in Nat /\ sink.recorded \in Nat
         /\ sink.file + sink.hand + sink.queue + sink.dropped + sink.lost = sink.recorded
         /\ sink.truncated => sink.file = FileCapacity /\ sink.dropped > 0 /\ sink.hand = 0
         /\ sink.dead => sink.queue = 0 /\ sink.hand = 0
         /\ ~sink.truncated => sink.lost <= IF sink.dead THEN SinkCapacity + 1 ELSE 0
BY DEF SinkInv, Sinks, TranscriptAccounted

LEMMA RecordedSound ==
  ASSUME SinkInv, sink' = sink \/ sink' = Recorded
  PROVE  SinkInv'
<1>1. CASE sink' = sink
  BY <1>1 DEF SinkInv, TranscriptAccounted
<1>2. CASE sink' = Recorded /\ sink' # sink /\ sink.queue < SinkCapacity /\ ~sink.dead
  <2>1. sink' = [sink EXCEPT !.queue = @ + 1, !.recorded = @ + 1]
    BY <1>2 DEF Recorded
  <2>2. sink.queue + 1 \in 0 .. SinkCapacity /\ sink.recorded + 1 \in Nat
    BY <1>2, SessionBounds DEF SinkInv, Sinks
  <2>3. sink' \in Sinks
    BY <2>1, <2>2 DEF SinkInv, Sinks
  <2>4. /\ sink'.queue = sink.queue + 1 /\ sink'.recorded = sink.recorded + 1
        /\ sink'.hand = sink.hand /\ sink'.file = sink.file /\ sink'.dropped = sink.dropped
        /\ sink'.lost = sink.lost /\ sink'.truncated = sink.truncated /\ sink'.dead = sink.dead
    BY <2>1 DEF SinkInv, Sinks
  <2>5. QED BY <1>2, <2>3, <2>4, SessionBounds, SinkFacts DEF SinkInv, TranscriptAccounted
<1>3. CASE sink' = Recorded /\ sink' # sink /\ ~(sink.queue < SinkCapacity /\ ~sink.dead)
  <2>1. sink' = [sink EXCEPT !.dropped = @ + 1, !.recorded = @ + 1]
    BY <1>3 DEF Recorded
  <2>2. sink.dropped + 1 \in Nat /\ sink.recorded + 1 \in Nat
    BY DEF SinkInv, Sinks
  <2>3. sink' \in Sinks
    BY <2>1, <2>2 DEF SinkInv, Sinks
  <2>4. /\ sink'.dropped = sink.dropped + 1 /\ sink'.recorded = sink.recorded + 1
        /\ sink'.queue = sink.queue /\ sink'.hand = sink.hand /\ sink'.file = sink.file
        /\ sink'.lost = sink.lost /\ sink'.truncated = sink.truncated /\ sink'.dead = sink.dead
    BY <2>1 DEF SinkInv, Sinks
  <2>5. QED BY <2>3, <2>4, SessionBounds, SinkFacts DEF SinkInv, TranscriptAccounted
<1>4. QED BY <1>1, <1>2, <1>3

\* The writer thread receives an event, or throws it away once the file is truncated.
LEMMA ReceiveEventSound ==
  ASSUME SinkInv, ReceiveEvent
  PROVE  SinkInv'
<1>0. ~sink.dead /\ sink.hand = 0
  BY SinkFacts DEF ReceiveEvent
<1>n. sink.queue - 1 \in 0 .. SinkCapacity /\ sink.lost + 1 \in Nat /\ 1 \in 0 .. 1
  BY SessionBounds, SinkFacts DEF ReceiveEvent
<1>1. CASE sink.truncated
  <2>1. sink' = [sink EXCEPT !.queue = @ - 1, !.lost = @ + 1]
    BY <1>1 DEF ReceiveEvent
  <2>2. sink' \in Sinks
    BY <1>n, <2>1 DEF SinkInv, Sinks
  <2>3. /\ sink'.queue = sink.queue - 1 /\ sink'.lost = sink.lost + 1
        /\ sink'.hand = sink.hand /\ sink'.file = sink.file /\ sink'.dropped = sink.dropped
        /\ sink'.recorded = sink.recorded /\ sink'.truncated = sink.truncated
        /\ sink'.dead = sink.dead
    BY <2>1 DEF SinkInv, Sinks
  <2>4. QED BY <1>0, <1>1, <2>2, <2>3, SessionBounds, SinkFacts DEF SinkInv, TranscriptAccounted
<1>2. CASE ~sink.truncated
  <2>1. sink' = [sink EXCEPT !.queue = @ - 1, !.hand = 1]
    BY <1>2 DEF ReceiveEvent
  <2>2. sink' \in Sinks
    BY <1>n, <2>1 DEF SinkInv, Sinks
  <2>3. /\ sink'.queue = sink.queue - 1 /\ sink'.hand = 1
        /\ sink'.lost = sink.lost /\ sink'.file = sink.file /\ sink'.dropped = sink.dropped
        /\ sink'.recorded = sink.recorded /\ sink'.truncated = sink.truncated
        /\ sink'.dead = sink.dead
    BY <2>1 DEF SinkInv, Sinks
  <2>4. QED BY <1>0, <1>2, <2>2, <2>3, SessionBounds, SinkFacts DEF SinkInv, TranscriptAccounted
<1>3. QED BY <1>1, <1>2

\* It writes the event, or marks the file that has no room for it.
LEMMA WriteEventSound ==
  ASSUME SinkInv, WriteEvent
  PROVE  SinkInv'
<1>0. ~sink.dead /\ ~sink.truncated /\ sink.hand = 1
  BY DEF SinkInv, TranscriptAccounted, WriteEvent
<1>n. sink.dropped + 1 \in Nat /\ 0 \in 0 .. 1 /\ TRUE \in BOOLEAN
  BY SinkFacts
<1>1. CASE sink.file = FileCapacity
  <2>1. sink' = [sink EXCEPT !.hand = 0, !.truncated = TRUE, !.dropped = @ + 1]
    BY <1>1 DEF WriteEvent
  <2>2. sink' \in Sinks
    BY <1>n, <2>1 DEF SinkInv, Sinks
  <2>3. /\ sink'.hand = 0 /\ sink'.truncated = TRUE /\ sink'.dropped = sink.dropped + 1
        /\ sink'.queue = sink.queue /\ sink'.file = sink.file /\ sink'.lost = sink.lost
        /\ sink'.recorded = sink.recorded /\ sink'.dead = sink.dead
    BY <2>1 DEF SinkInv, Sinks
  <2>4. QED BY <1>0, <1>1, <2>2, <2>3, SessionBounds, SinkFacts DEF SinkInv, TranscriptAccounted
<1>2. CASE sink.file # FileCapacity
  <2>1. sink' = [sink EXCEPT !.hand = 0, !.file = @ + 1]
    BY <1>2 DEF WriteEvent
  <2>2. sink.file + 1 \in 0 .. FileCapacity
    BY <1>2, SessionBounds DEF SinkInv, Sinks
  <2>3. sink' \in Sinks
    BY <1>n, <2>1, <2>2 DEF SinkInv, Sinks
  <2>4. /\ sink'.hand = 0 /\ sink'.file = sink.file + 1
        /\ sink'.queue = sink.queue /\ sink'.dropped = sink.dropped /\ sink'.lost = sink.lost
        /\ sink'.recorded = sink.recorded /\ sink'.truncated = sink.truncated
        /\ sink'.dead = sink.dead
    BY <2>1 DEF SinkInv, Sinks
  <2>5. QED BY <1>0, <2>3, <2>4, SessionBounds, SinkFacts DEF SinkInv, TranscriptAccounted
<1>3. QED BY <1>1, <1>2

\* It fails: what it held and had queued is all that is lost.
LEMMA WriterDiesSound ==
  ASSUME SinkInv, WriterDies
  PROVE  SinkInv'
<1>0. /\ ~sink.dead /\ ~sink.truncated /\ sink.lost = 0
      /\ sink.queue \in 0 .. SinkCapacity /\ sink.hand \in 0 .. 1
  BY DEF SinkInv, Sinks, TranscriptAccounted, WriterDies
<1>1. CASE sink.hand = 1 /\ sink.file = FileCapacity
  <2>1. sink' = [sink EXCEPT !.hand = 0, !.truncated = TRUE, !.dropped = @ + 1,
                             !.lost = @ + sink.queue, !.queue = 0, !.dead = TRUE]
    BY <1>1 DEF WriterDies
  <2>2. /\ sink.lost + sink.queue \in Nat /\ 0 \in 0 .. SinkCapacity /\ 0 \in 0 .. 1
        /\ sink.dropped + 1 \in Nat /\ TRUE \in BOOLEAN
    BY SinkFacts, SessionBounds
  <2>3. sink' \in Sinks
    BY <2>1, <2>2 DEF SinkInv, Sinks
  <2>4. /\ sink'.hand = 0 /\ sink'.truncated = TRUE /\ sink'.dropped = sink.dropped + 1
        /\ sink'.lost = sink.lost + sink.queue /\ sink'.queue = 0 /\ sink'.dead = TRUE
        /\ sink'.file = sink.file /\ sink'.recorded = sink.recorded
    BY <2>1 DEF SinkInv, Sinks
  <2>5. QED BY <1>0, <1>1, <2>3, <2>4, SessionBounds, SinkFacts DEF SinkInv, TranscriptAccounted
<1>2. CASE ~(sink.hand = 1 /\ sink.file = FileCapacity)
  <2>1. sink' = [sink EXCEPT !.hand = 0, !.lost = @ + sink.queue + sink.hand,
                             !.queue = 0, !.dead = TRUE]
    BY <1>2 DEF WriterDies
  <2>2. /\ sink.lost + sink.queue + sink.hand \in Nat /\ 0 \in 0 .. SinkCapacity
        /\ 0 \in 0 .. 1 /\ TRUE \in BOOLEAN
        /\ sink.lost + sink.queue + sink.hand <= SinkCapacity + 1
    BY <1>0, SessionBounds
  <2>3. sink' \in Sinks
    BY <2>1, <2>2 DEF SinkInv, Sinks
  <2>4. /\ sink'.hand = 0 /\ sink'.lost = sink.lost + sink.queue + sink.hand
        /\ sink'.queue = 0 /\ sink'.dead = TRUE /\ sink'.truncated = sink.truncated
        /\ sink'.dropped = sink.dropped /\ sink'.file = sink.file
        /\ sink'.recorded = sink.recorded
    BY <2>1 DEF SinkInv, Sinks
  <2>5. QED BY <1>0, <2>2, <2>3, <2>4, SessionBounds, SinkFacts DEF SinkInv, TranscriptAccounted
<1>3. QED BY <1>1, <1>2

\* A refresh publishes the screen, or an error in its place.
LEMMA PublishSound ==
  ASSUME ScreenInv, NEW e \in Emulators, e.offset <= e.rows, e.rows = emu.rows,
         NEW t \in Turns, t.out <= MaxText, Len(t.completed) <= MaxTurns,
         NEW status \in {"none", "exited", "closed", "error"},
         Publish(e, t, status), changed' \in BOOLEAN, exit' \in {"none", "exited"}
  PROVE  ScreenInv' /\ TurnInv' /\ emu'.rows = emu.rows
<1>1. Measured(e) \in Emulators /\ Measured(e).rows = e.rows /\ Measured(e).offset = e.offset
  BY DEF Measured, Emulators
<1>2. Refreshed(e) \in Emulators /\ Refreshed(e).rows = e.rows /\ Refreshed(e).offset = e.offset
  BY <1>1 DEF Refreshed, Emulators
<1>3. OnScreen(e, t) \in Turns /\ OnScreen(e, t).out = t.out /\ OnScreen(e, t).completed = t.completed
  BY DEF OnScreen, Turns, Emulators
<1>4. CASE /\ emu' = Refreshed(e) /\ turn' = OnScreen(e, t)
           /\ view' = Published(Refreshed(e), status) /\ skipped' = FALSE
  <2>1. view' \in Views /\ view'.rows = e.rows
    BY <1>2, <1>4 DEF Published, Views, Emulators
  <2>2. QED BY <1>2, <1>3, <1>4, <2>1 DEF ScreenInv, TurnInv, NoSilentOutput
<1>5. CASE RefreshFails(e, t) /\ skipped' = FALSE
  <2>1. view' \in Views /\ view'.exit = "error"
    BY <1>5 DEF RefreshFails, Error, NoView, Views, Emulators, Geometries
  <2>2. emu' \in Emulators /\ emu'.rows = e.rows /\ emu'.offset = e.offset
    BY <1>1, <1>5 DEF RefreshFails
  <2>3. turn' \in Turns /\ turn'.out = t.out /\ turn'.completed = t.completed
    BY <1>3, <1>5 DEF RefreshFails
  <2>4. QED BY <1>5, <2>1, <2>2, <2>3 DEF ScreenInv, TurnInv, NoSilentOutput
<1>6. QED BY <1>4, <1>5 DEF Publish

LEMMA OutputKept ==
  ASSUME OutputInv, UNCHANGED <<pty, chan, child>>
  PROVE  OutputInv'
BY DEF OutputInv

\* A step that does not enter the last drain keeps its books.
LEMMA DrainKept ==
  ASSUME DrainInv, owed' = owed,
         pc' \notin {"final", "publish"} \/ UNCHANGED <<pc, chan>>
  PROVE  DrainInv'
BY DEF DrainInv

LEMMA FailSound ==
  ASSUME SessionInv, Fail
  PROVE  SessionInv'
<1>1. CommandsInv'
  BY EndKeepsCommands DEF SessionInv, Fail
<1>2. OutputInv' /\ DrainInv'
  BY OutputKept, DrainKept DEF SessionInv, Fail, End, source, flags
<1>3. ScreenInv'
  <2>1. view' \in Views
    <3>1. NoView \in Views
      BY DEF NoView, Views, Geometries
    <3>2. QED BY <3>1 DEF Fail, Error, Views
  <2>2. pc' = "done" /\ UNCHANGED <<changed, skipped, exit, emu>>
    BY DEF Fail, End, flags
  <2>3. QED BY <2>1, <2>2 DEF SessionInv, ScreenInv, NoSilentOutput
<1>4. TurnInv' /\ SinkInv'
  BY RecordedSound DEF SessionInv, Fail, TurnInv
<1>5. QED BY <1>1, <1>2, <1>3, <1>4 DEF SessionInv

-----------------------------------------------------------------------------
(***************************************************************************)
(* Session: scroll batches.                                                *)
(***************************************************************************)

\* Emulators with so many rows, whose viewport lies within them.
Within(rows) == {e \in Emulators : e.rows = rows /\ e.offset <= rows}
Accs(rows) == [e : Within(rows), delta : Int, some : BOOLEAN]

LEMMA DeltaWithin ==
  ASSUME NEW rows \in Nat, NEW e \in Within(rows), NEW n \in Int
  PROVE  Delta(e, n) \in Within(rows)
<1>1. e \in Emulators /\ e.rows = rows
  BY DEF Within
<1>2. Clamp(e.offset + n, e) \in Nat /\ Clamp(e.offset + n, e) <= rows
  BY <1>1 DEF Clamp, Emulators
<1>3. Delta(e, n) \in Emulators /\ Delta(e, n).rows = rows
  BY <1>1, <1>2 DEF Delta, Emulators
<1>4. Delta(e, n).offset = Clamp(e.offset + n, e)
  BY <1>1 DEF Delta, Emulators
<1>5. QED BY <1>2, <1>3, <1>4 DEF Within

LEMMA FlushedWithin ==
  ASSUME NEW rows \in Nat, NEW acc \in Accs(rows)
  PROVE  Flushed(acc) \in Within(rows)
<1>1. acc.e \in Within(rows) /\ acc.delta \in Int
  BY DEF Accs
<1>2. QED BY <1>1, DeltaWithin DEF Flushed

LEMMA ScrollWithin ==
  ASSUME NEW rows \in Nat, NEW e \in Within(rows), NEW op \in Scrolls \ Deltas
  PROVE  ScrollViewport(e, op) \in Within(rows)
<1>1. e \in Emulators /\ e.rows = rows /\ e.offset <= rows /\ e.seenOffset \in Nat
  BY DEF Within, Emulators
<1>2. CASE op = "top"
  <2> DEFINE x == [e EXCEPT !.offset = 0, !.bottom = FALSE]
  <2>1. x \in Emulators /\ x.rows = rows /\ x.offset = 0
    BY <1>1 DEF Emulators
  <2>2. ScrollViewport(e, op) = x
    BY <1>2 DEF ScrollViewport
  <2> HIDE DEF x
  <2>3. QED BY <2>1, <2>2 DEF Within
<1>3. CASE op = "bottom"
  <2> DEFINE x == [e EXCEPT !.offset = e.rows, !.bottom = TRUE]
  <2>1. x \in Emulators /\ x.rows = rows /\ x.offset = rows
    BY <1>1 DEF Emulators
  <2>2. ScrollViewport(e, op) = x
    BY <1>3 DEF ScrollViewport
  <2> HIDE DEF x
  <2>3. QED BY <2>1, <2>2 DEF Within
<1>4. CASE op = "pageup"
  BY <1>4, DeltaWithin DEF ScrollViewport, Page
<1>5. CASE op = "pagedown"
  <2>1. Delta(e, Page) \in Within(rows)
    BY DeltaWithin DEF Page
  <2>2. QED BY <1>5, <2>1 DEF ScrollViewport, Within, Emulators
<1>6. CASE op = "offset0"
  <2>1. Delta(e, -e.seenOffset) \in Within(rows)
    BY <1>1, DeltaWithin
  <2>2. (e.seenRows = 0) \in BOOLEAN
    OBVIOUS
  <2>3. QED BY <1>6, <2>1, <2>2 DEF ScrollViewport, Within, Emulators
<1>7. QED BY <1>2, <1>3, <1>4, <1>5, <1>6 DEF Scrolls, Deltas

LEMMA CompactedWithin ==
  ASSUME NEW rows \in Nat, NEW acc \in Accs(rows), NEW c, Scroll(c)
  PROVE  Compacted(acc, c) \in Accs(rows)
<1>1. CASE c.op \in Deltas
  <2>1. acc.delta + (IF c.op = "up" THEN -1 ELSE 1) \in Int /\ TRUE \in BOOLEAN
    BY DEF Accs
  <2>2. QED BY <1>1, <2>1 DEF Compacted, Accs
<1>2. CASE c.op \notin Deltas
  <2>1. ScrollViewport(Flushed(acc), c.op) \in Within(rows)
    BY <1>2, FlushedWithin, ScrollWithin DEF Scroll
  <2>2. QED BY <1>2, <2>1 DEF Compacted, Accs
<1>3. QED BY <1>1, <1>2

\* However long a batch is, applying it leaves the rows and keeps the viewport in them.
LEMMA BatchWithin ==
  ASSUME NEW rows \in Nat, NEW e \in Within(rows), NEW batch \in Seq(Commands),
         \A i \in 1 .. Len(batch) : Scroll(batch[i])
  PROVE  ApplyBatch(e, batch) \in Within(rows)
<1> DEFINE N == Len(batch)
           a0 == [e |-> e, delta |-> 0, some |-> FALSE]
           Run(f, n) == /\ f \in [0 .. n -> Accs(rows)] /\ f[0] = a0
                        /\ \A k \in 1 .. n : f[k] = Compacted(f[k - 1], batch[k])
           Eq(f) == f = [n \in 0 .. N |-> IF n = 0 THEN a0 ELSE Compacted(f[n - 1], batch[n])]
           S == {n \in Nat : \E f : Run(f, n)}
<1>1. N \in Nat /\ a0 \in Accs(rows)
  BY LenProperties DEF Accs
<1> HIDE DEF a0
<1>2. 0 \in S
  <2>1. Run([k \in 0 .. 0 |-> a0], 0)
    BY <1>1
  <2>2. QED BY <2>1
<1>3. ASSUME NEW n \in 0 .. N - 1, n \in S PROVE n + 1 \in S
  <2>1. PICK f : Run(f, n)
    BY <1>3
  <2> DEFINE g == [k \in 0 .. n + 1 |-> IF k = n + 1 THEN Compacted(f[n], batch[n + 1]) ELSE f[k]]
  <2>2. f[n] \in Accs(rows) /\ Scroll(batch[n + 1])
    BY <1>1, <2>1
  <2>3. g \in [0 .. n + 1 -> Accs(rows)]
    <3>1. Compacted(f[n], batch[n + 1]) \in Accs(rows)
      BY <2>2, CompactedWithin
    <3>2. \A k \in 0 .. n + 1 : k # n + 1 => f[k] \in Accs(rows)
      BY <2>1
    <3>3. QED BY <3>1, <3>2
  <2>4. g[0] = a0
    <3>1. 0 \in 0 .. n + 1 /\ 0 # n + 1
      OBVIOUS
    <3>2. QED BY <2>1, <3>1
  <2>5. ASSUME NEW k \in 1 .. n + 1 PROVE g[k] = Compacted(g[k - 1], batch[k])
    <3>1. CASE k = n + 1
      <4>1. g[k] = Compacted(f[n], batch[n + 1]) /\ g[n] = f[n] /\ k - 1 = n
        BY <3>1
      <4>2. QED BY <3>1, <4>1
    <3>2. CASE k # n + 1
      <4>1. g[k] = f[k] /\ g[k - 1] = f[k - 1] /\ k \in 1 .. n
        BY <3>2
      <4>2. QED BY <2>1, <4>1
    <3>3. QED BY <3>1, <3>2
  <2>6. Run(g, n + 1)
    BY <2>3, <2>4, <2>5
  <2> HIDE DEF g
  <2>7. \E h : Run(h, n + 1)
    BY <2>6
  <2>8. QED BY SMTT(30), <2>7
<1>4. PICK f : Run(f, N)
  <2>1. \A n \in 0 .. N : n \in S
    <3> HIDE DEF S
    <3>1. QED BY <1>1, <1>2, <1>3, UpTo
  <2>2. N \in 0 .. N
    BY <1>1
  <2>3. N \in S
    BY <2>1, <2>2
  <2>4. QED BY <2>3
<1>5. Eq(f)
  <2>1. f = [n \in 0 .. N |-> f[n]]
    BY <1>4
  <2>2. \A n \in 0 .. N : f[n] = IF n = 0 THEN a0 ELSE Compacted(f[n - 1], batch[n])
    BY <1>1, <1>4
  <2>3. QED BY <2>1, <2>2
<1> DEFINE acc == CHOOSE g : Eq(g)
<1>6. Eq(acc)
  BY <1>5
<1>7. acc[0] = a0 /\ \A n \in 1 .. N : acc[n] = Compacted(acc[n - 1], batch[n])
  <2> HIDE DEF acc
  <2>1. QED BY <1>1, <1>6
<1>8. \A n \in 0 .. N : acc[n] \in Accs(rows)
  <2> DEFINE T == {n \in 0 .. N : acc[n] \in Accs(rows)}
  <2>1. 0 \in T
    BY <1>1, <1>7
  <2>2. ASSUME NEW n \in 0 .. N - 1, n \in T PROVE n + 1 \in T
    <3> HIDE DEF acc
    <3>1. acc[n] \in Accs(rows) /\ n + 1 \in 1 .. N /\ (n + 1) - 1 = n
      BY <1>1, <2>2
    <3>2. Scroll(batch[n + 1])
      BY <3>1
    <3>3. acc[n + 1] = Compacted(acc[n], batch[n + 1])
      BY <1>7, <3>1
    <3>4. QED BY <3>1, <3>2, <3>3, CompactedWithin
  <2>3. \A n \in 0 .. N : n \in T
    <3> HIDE DEF T
    <3>1. QED BY <1>1, <2>1, <2>2, UpTo
  <2>4. QED BY <2>3
<1>9. ApplyBatch(e, batch) = Flushed(acc[N])
  BY DEF ApplyBatch, a0
<1>10. acc[N] \in Accs(rows)
  BY <1>1, <1>8
<1>11. QED BY <1>9, <1>10, FlushedWithin

-----------------------------------------------------------------------------
(***************************************************************************)
(* Session: turns.                                                         *)
(***************************************************************************)

TurnOK(t) == t \in Turns /\ t.out <= MaxText /\ Len(t.completed) <= MaxTurns

LEMMA CompletedBounded ==
  ASSUME TurnInv
  PROVE  Completed \in Seq(Nat) /\ Len(Completed) <= MaxTurns
<1> DEFINE all == IF turn.active = 0 THEN turn.completed ELSE Append(turn.completed, turn.active)
<1>1. turn.completed \in Seq(Nat) /\ turn.active \in Nat /\ Len(turn.completed) \in Nat
  BY LenProperties DEF TurnInv, Turns
<1>2. all \in Seq(Nat) /\ Len(all) <= MaxTurns + 1 /\ Len(all) \in Nat
  BY <1>1, AppendProperties, LenProperties, SessionBounds DEF TurnInv
<1>3. Completed = IF Len(all) > MaxTurns THEN Tail(all) ELSE all
  BY DEF Completed
<1> HIDE DEF all
<1>4. CASE Len(all) > MaxTurns
  <2>1. all # <<>>
    BY <1>2, <1>4, SessionBounds, EmptySeq
  <2>2. Tail(all) \in Seq(Nat) /\ Len(Tail(all)) = Len(all) - 1
    BY <1>2, <2>1, HeadTailProperties
  <2>3. QED BY <1>2, <1>3, <1>4, <2>2, SessionBounds
<1>5. CASE ~(Len(all) > MaxTurns)
  BY <1>2, <1>3, <1>5, SessionBounds
<1>6. QED BY <1>4, <1>5

LEMMA TrackInputSound ==
  ASSUME TurnInv, NEW op
  PROVE  TurnOK(TrackInput(op))
<1>1. TurnOK(turn)
  BY DEF TurnInv, TurnOK
<1>2. TurnOK([turn EXCEPT !.line = TRUE])
  BY DEF TurnInv, TurnOK, Turns
<1>3. TurnOK(Submitted)
  <2>1. CASE ~turn.line
    BY <1>1, <2>1 DEF Submitted
  <2>2. CASE turn.line
    <3> DEFINE t == [turn EXCEPT !.line = FALSE, !.completed = Completed, !.active = @ + 1,
                                 !.out = 0, !.cut = FALSE]
    <3>1. turn.active + 1 \in Nat /\ Completed \in Seq(Nat) /\ Len(Completed) <= MaxTurns
      BY CompletedBounded DEF TurnInv, Turns
    <3>2. t \in Turns /\ t.out = 0 /\ t.completed = Completed
      BY <3>1 DEF TurnInv, Turns
    <3>3. Submitted = t
      BY <2>2 DEF Submitted
    <3> HIDE DEF t
    <3>4. QED BY <3>1, <3>2, <3>3, SessionBounds DEF TurnOK
  <2>3. QED BY <2>1, <2>2
<1>4. QED BY <1>1, <1>2, <1>3 DEF TrackInput, GroundByte

\* The text of a turn and its mark stay within the limit, wherever it is cut.
LEMMA AppendStaysBounded ==
  ASSUME NEW len \in 0 .. MaxText, NEW cut \in BOOLEAN, NEW n \in Nat,
         NEW t \in AppendBounded(len, cut, n)
  PROVE  t[1] \in 0 .. MaxText /\ t[2] \in BOOLEAN
<1> DEFINE remaining == MaxText - len
           budget == remaining - (IF Marker < remaining THEN Marker ELSE remaining)
           Marked(k) == IF k + Marker <= MaxText THEN k + Marker ELSE MaxText
<1>1. CASE n = 0 \/ cut
  <2>1. t = <<len, cut>>
    BY <1>1 DEF AppendBounded
  <2>2. QED BY <2>1
<1>2. CASE ~(n = 0 \/ cut) /\ n <= remaining /\ len < MaxText
  <2>1. t = <<len + n, FALSE>>
    BY <1>2 DEF AppendBounded
  <2>2. len + n \in 0 .. MaxText
    BY <1>2, SessionBounds
  <2>3. QED BY <2>1, <2>2
<1>3. CASE ~(n = 0 \/ cut) /\ ~(n <= remaining /\ len < MaxText)
  <2>1. PICK k \in 0 .. budget : t = <<Marked(len + k), TRUE>>
    BY <1>3 DEF AppendBounded
  <2>2. Marked(len + k) \in 0 .. MaxText
    BY SessionBounds
  <2>3. QED BY <2>1, <2>2
<1>4. QED BY <1>1, <1>2, <1>3

LEMMA TrackOutputSound ==
  ASSUME TurnInv, NEW n \in Nat, NEW t \in TrackOutput(n)
  PROVE  TurnOK(t)
<1>1. CASE t = turn
  BY <1>1 DEF TurnInv, TurnOK
<1>2. CASE t # turn
  <2>1. PICK u \in AppendBounded(turn.out, turn.cut, n) : t = [turn EXCEPT !.out = u[1], !.cut = u[2]]
    BY <1>2 DEF TrackOutput
  <2>2. turn.out \in 0 .. MaxText /\ turn.cut \in BOOLEAN
    BY SessionBounds DEF TurnInv, Turns
  <2>3. u[1] \in 0 .. MaxText /\ u[2] \in BOOLEAN
    BY <2>2, AppendStaysBounded
  <2>4. u[1] \in Nat /\ u[1] <= MaxText
    BY <2>3, SessionBounds
  <2>5. t \in Turns /\ t.out = u[1] /\ t.completed = turn.completed
    BY <2>1, <2>3, <2>4 DEF TurnInv, Turns
  <2>6. QED BY <2>4, <2>5 DEF TurnInv, TurnOK
<1>3. QED BY <1>1, <1>2

-----------------------------------------------------------------------------
(***************************************************************************)
(* Session: one lemma per action.                                          *)
(***************************************************************************)

LEMMA TurnKept == ASSUME TurnInv, turn' = turn \/ TurnOK(turn') PROVE TurnInv'
BY DEF TurnInv, TurnOK

\* A step that leaves emulator and view alone and is not the end of the session.
LEMMA ScreenKept ==
  ASSUME ScreenInv, pc # "done", UNCHANGED <<changed, skipped, exit, emu, view>>
  PROVE  ScreenInv'
BY DEF ScreenInv, NoSilentOutput

\* A command that is written waits as the pending one.
LEMMA StartWriteSound ==
  ASSUME CommandsInv, HasCommand, StartWrite, UNCHANGED <<kind, handle, sent>>
  PROVE  CommandsInv'
<1>1. First \in Commands /\ Rest \in Seq(Commands) /\ applied + 1 + Len(Rest) = sent
  BY FirstAndRest
<1>2. <<First>> \in Seq(Commands) /\ Len(<<First>>) = 1
  BY <1>1
<1>3. pending' = <<First>> /\ cmds' = Rest /\ pc' = "writing" /\ UNCHANGED <<applied, copy>>
  BY DEF StartWrite
<1>4. CommandsAccounted'
  BY <1>1, <1>2, <1>3 DEF CommandsAccounted
<1>5. QED BY <1>1, <1>2, <1>3, <1>4 DEF CommandsInv, PCs

\* The session ends with an error on the screen.
LEMMA ErrorShown ==
  ASSUME ScreenInv, view' = Error, pc' = "done", UNCHANGED <<changed, exit, emu>>,
         skipped' \in BOOLEAN
  PROVE  ScreenInv'
<1>1. NoView \in Views
  BY DEF NoView, Views, Geometries
<1>2. view' \in Views
  BY <1>1 DEF Error, Views
<1>3. QED BY <1>2 DEF ScreenInv, NoSilentOutput

LEMMA ApplyInputSound ==
  ASSUME SessionInv, ApplyInput
  PROVE  SessionInv'
<1>1. /\ pc = "top" /\ HasCommand /\ UNCHANGED <<kind, handle, sent, changed, skipped, owed, exit, emu>>
      /\ UNCHANGED <<pty, chan, child>>
  BY DEF ApplyInput, Working, source, flags
<1>2. OutputInv'
  BY <1>1, OutputKept DEF SessionInv
<1>3. CASE turn' = TrackInput(First.op) /\ sink' = Recorded /\ StartWrite
  <2>1. CommandsInv' /\ pc' = "writing" /\ view' = view
    BY <1>1, <1>3, StartWriteSound DEF SessionInv, StartWrite
  <2>2. ScreenInv' /\ DrainInv'
    BY <1>1, <2>1, ScreenKept, DrainKept DEF SessionInv
  <2>3. TurnInv' /\ SinkInv'
    BY <1>3, TrackInputSound, TurnKept, RecordedSound DEF SessionInv
  <2>4. QED BY <1>2, <2>1, <2>2, <2>3 DEF SessionInv
<1>4. CASE Taken /\ Continue /\ UNCHANGED <<copy, turn, view, sink>>
  <2>1. CommandsInv'
    BY <1>1, <1>4, ContinueIsPlace, TakenKeepsCommands DEF SessionInv, CommandsInv
  <2>2. ScreenInv' /\ DrainInv'
    BY <1>1, <1>4, ScreenKept, DrainKept, ContinueIsPlace DEF SessionInv
  <2>3. TurnInv' /\ SinkInv'
    BY <1>4, TurnKept, RecordedSound DEF SessionInv
  <2>4. QED BY <1>2, <2>1, <2>2, <2>3 DEF SessionInv
<1>5. CASE view' = Error /\ End /\ UNCHANGED <<turn, sink>>
  <2>1. CommandsInv' /\ pc' = "done"
    BY <1>1, <1>5, EndKeepsCommands DEF SessionInv, End
  <2>2. ScreenInv' /\ DrainInv'
    BY <1>1, <1>5, <2>1, ErrorShown, DrainKept DEF SessionInv, ScreenInv
  <2>3. TurnInv' /\ SinkInv'
    BY <1>5, TurnKept, RecordedSound DEF SessionInv
  <2>4. QED BY <1>2, <2>1, <2>2, <2>3 DEF SessionInv
<1>6. QED BY <1>3, <1>4, <1>5 DEF ApplyInput

LEMMA StatusTyped == ASSUME ScreenInv PROVE Status \in {"none", "exited", "closed", "error"}
BY DEF ScreenInv, Status

LEMMA WrittenSound ==
  ASSUME SessionInv, Written
  PROVE  SessionInv'
<1>1. /\ pc = "writing" /\ UNCHANGED <<kind, handle, sent, pty, chan, child, changed, owed, exit, sink>>
  BY DEF Written, source
<1>2. OutputInv' /\ SinkInv'
  BY <1>1, OutputKept, RecordedSound DEF SessionInv
<1>3. CASE /\ Taken /\ Continue /\ UNCHANGED copy
           /\ IF First.op = "resize"
              THEN \E geo \in {emu.geo, First.arg} : Publish([emu EXCEPT !.geo = geo], turn, Status)
              ELSE UNCHANGED <<emu, turn, view, skipped>>
  <2>1. CommandsInv' /\ DrainInv'
    BY <1>1, <1>3, ContinueIsPlace, TakenKeepsCommands, DrainKept DEF SessionInv, CommandsInv
  <2>2. CASE First.op # "resize"
    BY <1>1, <1>2, <1>3, <2>1, <2>2, ScreenKept, TurnKept DEF SessionInv
  <2>3. CASE First.op = "resize"
    <3>1. PICK geo \in {emu.geo, First.arg} : Publish([emu EXCEPT !.geo = geo], turn, Status)
      BY <1>3, <2>3
    <3>2. First \in Commands
      BY <1>3, FirstAndRest DEF SessionInv, Taken
    <3>3. geo \in Geometries
      BY <2>3, <3>1, <3>2, ScrollAssumption DEF Commands, Inputs, SessionInv, ScreenInv, Emulators
    <3> DEFINE e == [emu EXCEPT !.geo = geo]
    <3>4. e \in Emulators /\ e.rows = emu.rows /\ e.offset = emu.offset
      BY <3>3 DEF SessionInv, ScreenInv, Emulators
    <3>5. Publish(e, turn, Status)
      BY <3>1
    <3> HIDE DEF e
    <3>6. Status \in {"none", "exited", "closed", "error"} /\ exit' \in {"none", "exited"}
          /\ changed' \in BOOLEAN /\ e.offset <= e.rows
      BY <1>1, <3>4, StatusTyped DEF SessionInv, ScreenInv
    <3>7. turn \in Turns /\ turn.out <= MaxText /\ Len(turn.completed) <= MaxTurns
      BY DEF SessionInv, TurnInv
    <3>8. ScreenInv' /\ TurnInv'
      BY <3>4, <3>5, <3>6, <3>7, PublishSound DEF SessionInv
    <3>9. QED BY <1>2, <2>1, <3>8 DEF SessionInv
  <2>4. QED BY <2>2, <2>3
<1>4. CASE view' = Error /\ End /\ UNCHANGED <<emu, turn, skipped>>
  <2>1. CommandsInv' /\ pc' = "done"
    BY <1>1, <1>4, EndKeepsCommands DEF SessionInv, End
  <2>2. ScreenInv' /\ DrainInv' /\ TurnInv'
    BY <1>1, <1>4, <2>1, ErrorShown, DrainKept, TurnKept DEF SessionInv, ScreenInv
  <2>3. QED BY <1>2, <2>1, <2>2 DEF SessionInv
<1>5. QED BY <1>3, <1>4 DEF Written

LEMMA ApplyRedundantResizeSound ==
  ASSUME SessionInv, ApplyRedundantResize
  PROVE  SessionInv'
<1>1. /\ Taken /\ pc' = "top" /\ pc = "top"
      /\ skipped' = (skipped \/ changed) /\ changed' = FALSE
      /\ UNCHANGED <<kind, handle, sent, copy, pty, chan, child, owed, exit, emu, turn, view, sink>>
  BY DEF ApplyRedundantResize, Working, source
<1>2. CommandsInv' /\ DrainInv'
  BY <1>1, TakenKeepsCommands, DrainKept DEF SessionInv, CommandsInv, PCs
<1>3. ScreenInv'
  BY <1>1 DEF SessionInv, ScreenInv, NoSilentOutput
<1>4. OutputInv' /\ TurnInv' /\ SinkInv'
  BY <1>1, OutputKept, TurnKept, RecordedSound DEF SessionInv
<1>5. QED BY <1>2, <1>3, <1>4 DEF SessionInv

LEMMA ApplyResizeSound ==
  ASSUME SessionInv, ApplyResize
  PROVE  SessionInv'
<1>1. /\ pc = "top" /\ HasCommand /\ First.op = "resize"
      /\ UNCHANGED <<kind, handle, sent, pty, chan, child, changed, owed, exit, sink>>
  BY DEF ApplyResize, Working, source
<1>2. OutputInv' /\ SinkInv'
  BY <1>1, OutputKept, RecordedSound DEF SessionInv
<1>3. CASE kind = "ssh"
  <2>1. StartWrite /\ UNCHANGED <<skipped, emu, turn>>
    BY <1>3 DEF ApplyResize
  <2>2. CommandsInv' /\ pc' = "writing" /\ view' = view
    BY <1>1, <2>1, StartWriteSound DEF SessionInv, StartWrite
  <2>3. DrainInv' /\ ScreenInv' /\ TurnInv'
    BY <1>1, <2>1, <2>2, DrainKept, ScreenKept, TurnKept DEF SessionInv
  <2>4. QED BY <1>2, <2>2, <2>3 DEF SessionInv
<1>4. CASE kind # "ssh"
  <2>1. /\ Taken /\ Continue /\ UNCHANGED copy
        /\ Publish([emu EXCEPT !.geo = First.arg], turn, "none")
    BY <1>4 DEF ApplyResize
  <2>2. First \in Commands
    BY <1>1, FirstAndRest DEF SessionInv
  <2>3. First.arg \in Geometries
    BY <1>1, <2>2, ScrollAssumption DEF Commands, Inputs, Geometries
  <2> DEFINE e == [emu EXCEPT !.geo = First.arg]
  <2>4. e \in Emulators /\ e.rows = emu.rows /\ e.offset = emu.offset
    BY <2>3 DEF SessionInv, ScreenInv, Emulators
  <2>5. ScreenInv' /\ TurnInv'
    <3>1. turn \in Turns /\ turn.out <= MaxText /\ Len(turn.completed) <= MaxTurns
      BY DEF SessionInv, TurnInv
    <3>2. Publish(e, turn, "none") /\ e.offset <= e.rows /\ e.rows = emu.rows
      BY <2>1, <2>4 DEF SessionInv, ScreenInv
    <3>3. changed' \in BOOLEAN /\ exit' \in {"none", "exited"}
      BY <1>1 DEF SessionInv, ScreenInv
    <3> HIDE DEF e
    <3>4. QED BY <2>4, <3>1, <3>2, <3>3, PublishSound DEF SessionInv
  <2>6. CommandsInv' /\ DrainInv'
    BY <1>1, <2>1, ContinueIsPlace, TakenKeepsCommands, DrainKept DEF SessionInv, CommandsInv
  <2>7. QED BY <1>2, <2>5, <2>6 DEF SessionInv
<1>5. QED BY <1>3, <1>4

\* The batch is the longest run of scroll commands at the head of the channel.
LEMMA BatchLengthDef ==
  ASSUME Rest \in Seq(Commands)
  PROVE  /\ BatchLength \in 0 .. Len(Rest)
         /\ \A i \in 1 .. BatchLength : Scroll(Rest[i])
<1> DEFINE Stops(i) == i <= Len(Rest) => ~Scroll(Rest[i])
           Is(n) == Stops(n + 1) /\ \A i \in 1 .. n : Scroll(Rest[i])
           S == {n \in 0 .. Len(Rest) : Stops(n + 1)}
<1>1. Len(Rest) \in Nat
  BY LenProperties
<1>2. S \in SUBSET Nat /\ Len(Rest) \in S
  BY <1>1
<1>3. PICK m \in S : \A k \in S : m <= k
  BY <1>2, LeastNumber
<1>4. ASSUME NEW i \in 1 .. m PROVE Scroll(Rest[i])
  <2>1. m \in 0 .. Len(Rest)
    BY <1>3
  <2>2. i - 1 \in 0 .. Len(Rest) /\ (i - 1) + 1 = i /\ ~(m <= i - 1)
    BY <1>1, <2>1
  <2>3. i - 1 \notin S
    BY <1>3, <2>2
  <2>4. QED BY <2>2, <2>3
<1>5. \E n \in 0 .. Len(Rest) : Is(n)
  BY <1>3, <1>4
<1>6. BatchLength = CHOOSE n \in 0 .. Len(Rest) : Is(n)
  BY DEF BatchLength
<1> HIDE DEF Is
<1>7. BatchLength \in 0 .. Len(Rest) /\ Is(BatchLength)
  BY <1>5, <1>6
<1>8. QED BY <1>7 DEF Is

LEMMA ApplyScrollSound ==
  ASSUME SessionInv, ApplyScroll
  PROVE  SessionInv'
<1> DEFINE n == BatchLength
           batch == <<First>> \o SubSeq(Rest, 1, n)
<1>1. /\ pc = "top" /\ HasCommand /\ Scroll(First)
      /\ Publish(ApplyBatch(emu, batch), turn, Status)
      /\ UNCHANGED <<kind, handle, sent, pty, chan, child, changed, owed, exit, sink>>
  BY DEF ApplyScroll, Working, source
<1>2. /\ First \in Commands /\ Rest \in Seq(Commands) /\ applied + 1 + Len(Rest) = sent
      /\ Len(Rest) \in Nat
  BY <1>1, FirstAndRest, LenProperties DEF SessionInv
<1>3. n \in 0 .. Len(Rest) /\ \A i \in 1 .. n : Scroll(Rest[i])
  BY <1>2, BatchLengthDef
<1>4. batch \in Seq(Commands) /\ \A i \in 1 .. Len(batch) : Scroll(batch[i])
  <2> DEFINE tail == SubSeq(Rest, 1, n)
  <2>1. tail \in Seq(Commands) /\ Len(tail) = n /\ \A i \in 1 .. n : tail[i] = Rest[i]
    BY <1>2, <1>3, SubSeqProperties
  <2>2. <<First>> \in Seq(Commands) /\ Len(<<First>>) = 1 /\ <<First>>[1] = First
    BY <1>2
  <2> HIDE DEF tail, n
  <2>3. batch \in Seq(Commands) /\ Len(batch) = n + 1
    BY <1>2, <1>3, <2>1, <2>2, ConcatProperties DEF tail
  <2>4. ASSUME NEW i \in 1 .. n + 1 PROVE Scroll(batch[i])
    <3>1. CASE i = 1
      <4>1. batch[i] = First
        BY <1>3, <2>1, <2>2, <3>1, ConcatProperties DEF tail
      <4>2. QED BY <1>1, <4>1
    <3>2. CASE i # 1
      <4>1. i - 1 \in 1 .. n /\ batch[i] = tail[i - 1]
        BY <1>3, <2>1, <2>2, <3>2, ConcatProperties DEF tail
      <4>2. QED BY <1>3, <2>1, <4>1
    <3>3. QED BY <3>1, <3>2
  <2>5. QED BY <2>3, <2>4
<1> HIDE DEF batch
<1>5. ScreenInv' /\ TurnInv' /\ emu'.rows = emu.rows
  <2> DEFINE e == ApplyBatch(emu, batch)
  <2>1. emu.rows \in Nat /\ emu \in Within(emu.rows)
    BY DEF SessionInv, ScreenInv, Emulators, Within
  <2>2. e \in Within(emu.rows)
    BY <1>4, <2>1, BatchWithin
  <2> HIDE DEF e
  <2>3. e \in Emulators /\ e.offset <= e.rows /\ e.rows = emu.rows
    BY <2>2 DEF Within
  <2>4. turn \in Turns /\ turn.out <= MaxText /\ Len(turn.completed) <= MaxTurns
    BY DEF SessionInv, TurnInv
  <2>5. Publish(e, turn, Status) /\ changed' \in BOOLEAN /\ exit' \in {"none", "exited"}
    BY <1>1 DEF SessionInv, ScreenInv, e
  <2>6. QED BY <2>3, <2>4, <2>5, PublishSound, StatusTyped DEF SessionInv
<1>6. CommandsInv'
  <2>1. CASE End
    BY <1>1, <2>1, EndKeepsCommands DEF SessionInv
  <2>2. CASE ~End
    <3>1. /\ Continue /\ pending' = Deferred /\ cmds' = SubSeq(Rest, n + 2, Len(Rest))
          /\ applied' = applied + 1 + n /\ UNCHANGED copy
      BY <2>2 DEF ApplyScroll
    <3>2. CASE n < Len(Rest)
      <4>1. pending' = <<Rest[n + 1]>> /\ Rest[n + 1] \in Commands
        BY <1>2, <1>3, <3>1, <3>2, ElementOfSeq DEF Deferred
      <4>2. cmds' \in Seq(Commands) /\ Len(cmds') = Len(Rest) - n - 1
        <5> HIDE DEF n
        <5>1. n + 2 \in 1 .. Len(Rest) + 1
          BY <1>2, <1>3, <3>2
        <5>2. cmds' \in Seq(Commands)
          BY <1>2, <1>3, <3>1, <5>1, SubSeqProperties
        <5>3. CASE n + 2 <= Len(Rest)
          BY <1>2, <1>3, <3>1, <5>1, <5>3, SubSeqProperties
        <5>4. CASE ~(n + 2 <= Len(Rest))
          BY <1>2, <1>3, <3>1, <5>1, <5>4, SubSeqProperties
        <5>5. QED BY <5>2, <5>3, <5>4
      <4>3. pending' \in Seq(Commands) /\ Len(pending') = 1
        BY <4>1
      <4>4. applied' + Len(pending') + Len(cmds') = sent /\ applied' \in 0 .. MaxCmds
        <5> HIDE DEF n
        <5>1. applied \in Nat /\ sent \in 0 .. MaxCmds
          BY SessionBounds DEF SessionInv, CommandsInv
        <5>2. applied' = applied + 1 + n /\ n \in Nat /\ n <= Len(Rest) - 1
          BY <1>2, <1>3, <3>1, <3>2
        <5>3. ASSUME NEW l \in Nat, NEW m \in Nat, NEW a \in Nat, NEW t \in 0 .. MaxCmds,
                     m <= l - 1, a + 1 + l = t
              PROVE  (a + 1 + m) + 1 + (l - m - 1) = t /\ a + 1 + m \in 0 .. MaxCmds
          BY <5>3, SessionBounds
        <5>4. (applied + 1 + n) + 1 + (Len(Rest) - n - 1) = sent /\ applied + 1 + n \in 0 .. MaxCmds
          BY <1>2, <5>1, <5>2, <5>3
        <5>5. QED BY <4>2, <4>3, <5>2, <5>4
      <4>5. QED BY <1>1, <3>1, <4>2, <4>3, <4>4, ContinueIsPlace DEF SessionInv, CommandsInv, CommandsAccounted
    <3>3. CASE ~(n < Len(Rest))
      <4>1. n = Len(Rest) /\ pending' = <<>>
        BY <1>2, <1>3, <3>1, <3>3 DEF Deferred
      <4>2. cmds' = <<>>
        BY <1>2, <3>1, <4>1, SubSeqEmpty
      <4>3. applied' = sent
        BY <1>2, <3>1, <4>1
      <4> HIDE DEF n
      <4>4. <<>> \in Seq(Commands) /\ Len(<<>>) = 0
        BY EmptySeq
      <4>5. cmds' \in Seq(Commands) /\ pending' \in Seq(Commands) /\ Len(pending') <= 1
        BY <4>1, <4>2, <4>4
      <4>6. sent \in 0 .. MaxCmds /\ applied + 1 + Len(Rest) = sent
        BY <1>2 DEF SessionInv, CommandsInv
      <4>7. sent' = sent /\ applied' \in 0 .. MaxCmds /\ sent' \in 0 .. MaxCmds
        BY <1>1, <4>3, <4>6
      <4>8. CommandsAccounted'
        <5>1. Len(pending') = 0 /\ Len(cmds') = 0
          BY <4>1, <4>2, <4>4
        <5>2. applied' + 0 + 0 = sent'
          BY <4>3, <4>6, <4>7
        <5>3. QED BY <5>1, <5>2 DEF CommandsAccounted
      <4>9. kind' \in {"local", "ssh"} /\ handle' \in BOOLEAN /\ copy' \in Replies
        BY <1>1, <3>1 DEF SessionInv, CommandsInv
      <4>10. QED BY <3>1, <4>5, <4>7, <4>8, <4>9, ContinueIsPlace DEF CommandsInv
    <3>4. QED BY <3>2, <3>3
  <2>3. QED BY <2>1, <2>2
<1>7. OutputInv' /\ SinkInv'
  BY <1>1, OutputKept, RecordedSound DEF SessionInv
<1>8. DrainInv'
  <2>1. pc' \notin {"final", "publish"}
    BY ContinueIsPlace DEF ApplyScroll, End
  <2>2. QED BY <1>1, <2>1, DrainKept DEF SessionInv
<1>9. QED BY <1>5, <1>6, <1>7, <1>8 DEF SessionInv

LEMMA ApplyCopySound ==
  ASSUME SessionInv, ApplyCopy
  PROVE  SessionInv'
<1>1. /\ Taken /\ Continue /\ pc = "top"
      /\ UNCHANGED <<kind, handle, sent, pty, chan, child, changed, skipped, owed, exit>>
      /\ UNCHANGED <<emu, turn, view, sink>>
  BY DEF ApplyCopy, Working, source, flags
<1>2. copy' \in Replies
  BY DEF SessionInv, CommandsInv, ApplyCopy, Replies
<1>3. CommandsInv' /\ DrainInv'
  BY <1>1, <1>2, ContinueIsPlace, TakenKeepsCommands, DrainKept DEF SessionInv
<1>4. OutputInv' /\ ScreenInv' /\ TurnInv' /\ SinkInv'
  BY <1>1, OutputKept, ScreenKept, TurnKept, RecordedSound DEF SessionInv
<1>5. QED BY <1>3, <1>4 DEF SessionInv

LEMMA StartSound ==
  ASSUME SessionInv, Start
  PROVE  SessionInv'
<1>1. CASE Fail
  BY <1>1, FailSound
<1>2. CASE ~Fail
  <2>1. /\ Publish(emu, turn, "none") /\ pc' = "top"
        /\ UNCHANGED <<kind, handle, cmds, sent, copy, pending, applied, pty, chan, child>>
        /\ UNCHANGED <<changed, owed, exit, sink>>
    BY <1>2 DEF Start, ui, source
  <2>2. ScreenInv' /\ TurnInv'
    BY <2>1, PublishSound DEF SessionInv, ScreenInv, TurnInv
  <2>3. CommandsInv' /\ OutputInv' /\ DrainInv' /\ SinkInv'
    BY <2>1, OutputKept, DrainKept, RecordedSound DEF SessionInv, CommandsInv, PCs, CommandsAccounted
  <2>4. QED BY <2>2, <2>3 DEF SessionInv
<1>3. QED BY <1>1, <1>2

\* Taking the head off the channel.
LEMMA OutputTaken ==
  ASSUME OutputInv, chan # <<>>, chan' = Tail(chan), UNCHANGED <<pty, child>>
  PROVE  OutputInv' /\ Len(chan') = Len(chan) - 1 /\ Len(chan) \in Nat
<1>1. chan \in Seq(Data \cup {"exit", "eof"})
  BY DEF OutputInv
<1>2. /\ Tail(chan) \in Seq(Data \cup {"exit", "eof"}) /\ Len(Tail(chan)) = Len(chan) - 1
      /\ Len(chan) \in Nat
  BY <1>1, HeadTailProperties, LenProperties
<1>3. QED BY <1>2 DEF OutputInv

LEMMA WriteChunkSound ==
  ASSUME SessionInv, NEW chunk, WriteChunk(chunk), UNCHANGED <<skipped, exit, view>>
  PROVE  ScreenInv' /\ TurnInv' /\ SinkInv'
<1>1. emu \in Emulators /\ emu.offset <= emu.rows /\ emu' = VtWrite(emu, chunk) /\ changed' = TRUE
  BY DEF SessionInv, ScreenInv, WriteChunk
<1>2. emu' \in Emulators /\ emu'.offset <= emu'.rows
  <2>1. CASE chunk = "redraw"
    BY <1>1, <2>1 DEF VtWrite
  <2>2. CASE chunk = "alt"
    <3>1. emu' = [emu EXCEPT !.alt = ~@]
      BY <1>1, <2>2 DEF VtWrite
    <3>2. QED BY <1>1, <3>1 DEF Emulators
  <2>3. CASE chunk \notin {"alt", "redraw"}
    <3> DEFINE o == IF emu.offset = emu.rows THEN emu.offset + 1 ELSE emu.offset
    <3>1. emu' = [emu EXCEPT !.rows = emu.rows + 1, !.offset = o]
      BY <1>1, <2>3 DEF VtWrite
    <3>2. emu.rows + 1 \in Nat /\ o \in Nat /\ o <= emu.rows + 1
      BY <1>1 DEF Emulators
    <3> HIDE DEF o
    <3>3. emu' \in Emulators
      BY <1>1, <3>1, <3>2 DEF Emulators
    <3>4. emu'.rows = emu.rows + 1 /\ emu'.offset = o
      BY <1>1, <3>1 DEF Emulators
    <3>5. QED BY <3>2, <3>3, <3>4
  <2>4. QED BY <2>1, <2>2, <2>3
<1>3. ScreenInv'
  BY <1>1, <1>2 DEF SessionInv, ScreenInv, NoSilentOutput
<1>4. TurnInv'
  BY TrackOutputSound, TurnKept DEF SessionInv, WriteChunk
<1>5. SinkInv'
  BY RecordedSound DEF SessionInv, WriteChunk
<1>6. QED BY <1>3, <1>4, <1>5

LEMMA DrainOneSound ==
  ASSUME SessionInv, DrainOne
  PROVE  SessionInv'
<1>1. /\ chan # <<>> /\ WriteChunk(Head(chan)) /\ chan' = Tail(chan) /\ pc # "publish"
      /\ owed' = IF owed = 0 THEN 0 ELSE owed - 1
      /\ UNCHANGED <<kind, handle, cmds, sent, copy, pending, applied, pty, child, pc, skipped, exit, view>>
  BY DEF DrainOne, ui
<1>2. ScreenInv' /\ TurnInv' /\ SinkInv'
  BY <1>1, WriteChunkSound
<1>3. OutputInv' /\ Len(chan') = Len(chan) - 1 /\ Len(chan) \in Nat
  BY <1>1, OutputTaken DEF SessionInv
<1>4. Len(chan') \in Nat
  BY <1>3, LenProperties DEF OutputInv
<1>5. DrainInv'
  BY <1>1, <1>3, <1>4 DEF SessionInv, DrainInv
<1>6. CommandsInv'
  BY <1>1 DEF SessionInv, CommandsInv, CommandsAccounted
<1>7. QED BY <1>2, <1>3, <1>5, <1>6 DEF SessionInv

LEMMA NoCommandSound ==
  ASSUME SessionInv, NoCommand
  PROVE  SessionInv'
<1>1. /\ UNCHANGED <<kind, handle, sent, pty, chan, child, changed, skipped, owed, exit>>
      /\ UNCHANGED <<emu, turn, view, sink>>
      /\ pc = "top" /\ pc' \in {"after", "done"}
  BY DEF NoCommand, End, source, flags
<1>2. CommandsInv'
  <2>1. CASE End
    BY <1>1, <2>1, EndKeepsCommands DEF SessionInv
  <2>2. CASE ~End
    BY <1>1, <2>2 DEF SessionInv, NoCommand, CommandsInv, CommandsAccounted, PCs
  <2>3. QED BY <2>1, <2>2
<1>3. OutputInv' /\ DrainInv' /\ ScreenInv' /\ TurnInv' /\ SinkInv'
  BY <1>1, OutputKept, DrainKept, ScreenKept, TurnKept, RecordedSound DEF SessionInv
<1>4. QED BY <1>2, <1>3 DEF SessionInv

LEMMA RefreshOutputSound ==
  ASSUME SessionInv, RefreshOutput
  PROVE  SessionInv'
<1>1. /\ pc' = "poll" /\ changed' = FALSE /\ pc = "after"
      /\ UNCHANGED <<kind, handle, cmds, sent, copy, pending, applied, pty, chan, child>>
      /\ UNCHANGED <<owed, exit, sink>>
      /\ IF changed THEN Publish(emu, turn, "none") ELSE UNCHANGED <<emu, turn, view, skipped>>
  BY DEF RefreshOutput, ui, source
<1>2. ScreenInv' /\ TurnInv'
  <2>1. CASE changed
    BY <1>1, <2>1, PublishSound DEF SessionInv, ScreenInv, TurnInv
  <2>2. CASE ~changed
    BY <1>1, <2>2 DEF SessionInv, ScreenInv, TurnInv, NoSilentOutput
  <2>3. QED BY <2>1, <2>2
<1>3. CommandsInv' /\ DrainInv'
  BY <1>1, DrainKept DEF SessionInv, CommandsInv, CommandsAccounted, PCs
<1>4. OutputInv' /\ SinkInv'
  BY <1>1, OutputKept, RecordedSound DEF SessionInv
<1>5. QED BY <1>2, <1>3, <1>4 DEF SessionInv

LEMMA PollSound ==
  ASSUME SessionInv, Poll
  PROVE  SessionInv'
<1>1. CASE Fail
  BY <1>1, FailSound
<1>2. CASE ~Fail
  <2>1. /\ pc = "poll"
        /\ \/ pc' = "final" /\ owed' = Len(chan)
           \/ pc' = "top" /\ owed' = owed
        /\ UNCHANGED <<kind, handle, cmds, sent, copy, pending, applied, pty, chan, child>>
        /\ UNCHANGED <<changed, skipped, exit, emu, turn, view, sink>>
    BY <1>2 DEF Poll, ui, source
  <2>2. Len(chan) \in Nat
    BY LenProperties DEF SessionInv, OutputInv
  <2>3. DrainInv'
    BY <2>1, <2>2 DEF SessionInv, DrainInv
  <2>4. CommandsInv' /\ OutputInv' /\ ScreenInv' /\ TurnInv' /\ SinkInv'
    BY <2>1, OutputKept, ScreenKept, TurnKept, RecordedSound
       DEF SessionInv, CommandsInv, CommandsAccounted, PCs
  <2>5. QED BY <2>3, <2>4 DEF SessionInv
<1>3. QED BY <1>1, <1>2

\* The last drain ends with the channel empty: nothing is owed any more.
LEMMA FinalDrainEndsSound ==
  ASSUME SessionInv, FinalDrainEnds
  PROVE  SessionInv'
<1>1. /\ pc = "final" /\ chan = <<>> /\ pc' = "publish"
      /\ UNCHANGED <<kind, handle, cmds, sent, copy, pending, applied, pty, chan, child>>
      /\ UNCHANGED <<changed, skipped, owed, exit, emu, turn, view, sink>>
  BY DEF FinalDrainEnds, ui, source, flags
<1>2. DrainInv'
  <2>1. owed <= 0 /\ owed \in Nat
    BY <1>1, EmptySeq DEF SessionInv, DrainInv
  <2>2. owed = 0
    BY <2>1
  <2>3. QED BY <1>1, <2>2 DEF DrainInv
<1>3. CommandsInv' /\ OutputInv' /\ ScreenInv' /\ TurnInv' /\ SinkInv'
  BY <1>1, OutputKept, ScreenKept, TurnKept, RecordedSound
     DEF SessionInv, CommandsInv, CommandsAccounted, PCs
<1>4. QED BY <1>2, <1>3 DEF SessionInv

LEMMA FinalRefreshSound ==
  ASSUME SessionInv, FinalRefresh
  PROVE  SessionInv'
<1>1. /\ Publish(emu, turn, "exited") /\ End /\ pc' = "done"
      /\ UNCHANGED <<kind, handle, sent, pty, chan, child, changed, owed, exit, sink>>
  BY DEF FinalRefresh, End, source
<1>2. ScreenInv' /\ TurnInv'
  BY <1>1, PublishSound DEF SessionInv, ScreenInv, TurnInv
<1>3. CommandsInv' /\ OutputInv' /\ DrainInv' /\ SinkInv'
  BY <1>1, EndKeepsCommands, OutputKept, DrainKept, RecordedSound DEF SessionInv
<1>4. QED BY <1>2, <1>3 DEF SessionInv

LEMMA SshDataSound ==
  ASSUME SessionInv, SshData
  PROVE  SessionInv'
<1>1. /\ chan # <<>> /\ WriteChunk(Head(chan)) /\ chan' = Tail(chan) /\ pc' = "burst"
      /\ UNCHANGED <<kind, handle, cmds, sent, copy, pending, applied, pty, child>>
      /\ UNCHANGED <<skipped, owed, exit, view>>
  BY DEF SshData, CanRead, ui
<1>2. ScreenInv' /\ TurnInv' /\ SinkInv'
  BY <1>1, WriteChunkSound
<1>3. OutputInv' /\ DrainInv'
  BY <1>1, OutputTaken, DrainKept DEF SessionInv
<1>4. CommandsInv'
  BY <1>1 DEF SessionInv, CommandsInv, CommandsAccounted, PCs
<1>5. QED BY <1>2, <1>3, <1>4 DEF SessionInv

LEMMA SshBurstEndsSound ==
  ASSUME SessionInv, SshBurstEnds
  PROVE  SessionInv'
<1>1. /\ Publish(emu, turn, exit) /\ pc' = "top" /\ changed' = FALSE
      /\ UNCHANGED <<kind, handle, cmds, sent, copy, pending, applied, pty, chan, child>>
      /\ UNCHANGED <<owed, exit, sink>>
  BY DEF SshBurstEnds, ui, source
<1>2. ScreenInv' /\ TurnInv'
  BY <1>1, PublishSound DEF SessionInv, ScreenInv, TurnInv
<1>3. CommandsInv' /\ OutputInv' /\ DrainInv' /\ SinkInv'
  BY <1>1, OutputKept, DrainKept, RecordedSound DEF SessionInv, CommandsInv, PCs, CommandsAccounted
<1>4. QED BY <1>2, <1>3 DEF SessionInv

LEMMA SshExitStatusSound ==
  ASSUME SessionInv, SshExitStatus
  PROVE  SessionInv'
<1>1. /\ chan # <<>> /\ chan' = Tail(chan) /\ exit' = "exited" /\ Publish(emu, turn, "exited")
      /\ pc' = "top" /\ changed' = FALSE
      /\ UNCHANGED <<kind, handle, cmds, sent, copy, pending, applied, pty, child, owed, sink>>
  BY DEF SshExitStatus, CanRead, ui
<1>2. ScreenInv' /\ TurnInv'
  BY <1>1, PublishSound DEF SessionInv, ScreenInv, TurnInv
<1>3. OutputInv' /\ DrainInv'
  BY <1>1, OutputTaken, DrainKept DEF SessionInv
<1>4. CommandsInv' /\ SinkInv'
  BY <1>1, RecordedSound DEF SessionInv, CommandsInv, PCs, CommandsAccounted
<1>5. QED BY <1>2, <1>3, <1>4 DEF SessionInv

LEMMA SshClosedSound ==
  ASSUME SessionInv, SshClosed
  PROVE  SessionInv'
<1> DEFINE status == IF exit # "none" THEN exit ELSE "closed"
<1>1. /\ chan # <<>> /\ chan' = Tail(chan) /\ Publish(emu, turn, status) /\ End /\ pc' = "done"
      /\ changed' = FALSE
      /\ UNCHANGED <<kind, handle, sent, pty, child, owed, exit, sink>>
  BY DEF SshClosed, CanRead, End
<1>2. status \in {"none", "exited", "closed", "error"}
  BY DEF SessionInv, ScreenInv
<1> HIDE DEF status
<1>3. ScreenInv' /\ TurnInv'
  BY <1>1, <1>2, PublishSound DEF SessionInv, ScreenInv, TurnInv
<1>4. OutputInv' /\ DrainInv'
  BY <1>1, OutputTaken, DrainKept DEF SessionInv
<1>5. CommandsInv' /\ SinkInv'
  BY <1>1, EndKeepsCommands, RecordedSound DEF SessionInv
<1>6. QED BY <1>3, <1>4, <1>5 DEF SessionInv

LEMMA ReaderSound ==
  ASSUME SessionInv, Reader
  PROVE  SessionInv'
<1>1. /\ pty # <<>> /\ chan' = Append(chan, Head(pty)) /\ pty' = Tail(pty) /\ pc # "done"
      /\ UNCHANGED <<kind, handle, cmds, sent, copy, pending, applied, child, pc, changed, skipped>>
      /\ UNCHANGED <<owed, exit, emu, turn, view, sink>>
  BY DEF Reader, ui, flags
<1>2. pty \in Seq(Data) /\ chan \in Seq(Data \cup {"exit", "eof"}) /\ Len(chan) \in Nat
  BY LenProperties DEF SessionInv, OutputInv
<1>3. Head(pty) \in Data /\ Tail(pty) \in Seq(Data)
  BY <1>1, <1>2, HeadTailProperties
<1>4. chan' \in Seq(Data \cup {"exit", "eof"}) /\ Len(chan') = Len(chan) + 1
  BY <1>1, <1>2, <1>3, AppendProperties
<1>5. OutputInv' /\ DrainInv'
  BY <1>1, <1>2, <1>3, <1>4 DEF SessionInv, OutputInv, DrainInv
<1>6. CommandsInv' /\ ScreenInv' /\ TurnInv' /\ SinkInv'
  BY <1>1, ScreenKept, TurnKept, RecordedSound DEF SessionInv, CommandsInv, CommandsAccounted
<1>7. QED BY <1>5, <1>6 DEF SessionInv

LEMMA WriteTranscriptSound ==
  ASSUME SessionInv, WriteTranscript
  PROVE  SessionInv'
<1>1. /\ UNCHANGED <<kind, handle, cmds, sent, copy, pending, applied, pty, chan, child, pc>>
      /\ UNCHANGED <<changed, skipped, owed, exit, emu, turn, view>>
  BY DEF WriteTranscript, ui, source, flags
<1>2. CommandsInv' /\ OutputInv' /\ DrainInv' /\ ScreenInv' /\ TurnInv'
  BY <1>1, OutputKept, DrainKept, TurnKept
     DEF SessionInv, CommandsInv, CommandsAccounted, ScreenInv, NoSilentOutput
<1>3. SinkInv'
  BY ReceiveEventSound, WriteEventSound, WriterDiesSound DEF SessionInv, WriteTranscript
<1>4. QED BY <1>2, <1>3 DEF SessionInv

LEMMA ProduceSound ==
  ASSUME SessionInv, NEW chunk \in Data, Produce(chunk)
  PROVE  SessionInv'
<1>1. /\ IF chunk = "redraw" THEN UNCHANGED child
         ELSE child.made < MaxOut /\ child' = [child EXCEPT !.made = @ + 1]
      /\ IF kind = "local" THEN pty' = Append(pty, chunk) /\ UNCHANGED chan
         ELSE chan' = Append(chan, chunk) /\ UNCHANGED pty
      /\ UNCHANGED <<kind, handle, cmds, sent, copy, pending, applied, pc, changed, skipped>>
      /\ UNCHANGED <<owed, exit, emu, turn, view, sink>> /\ pc # "done"
  BY DEF Produce, ui, flags
<1>2. pty \in Seq(Data) /\ chan \in Seq(Data \cup {"exit", "eof"}) /\ Len(chan) \in Nat
  BY LenProperties DEF SessionInv, OutputInv
<1>3. child' \in [st : {"running", "exited", "closed"}, made : 0 .. MaxOut]
  <2>1. CASE chunk = "redraw"
    BY <1>1, <2>1 DEF SessionInv, OutputInv
  <2>2. CASE chunk # "redraw"
    <3>1. child.made + 1 \in 0 .. MaxOut /\ child' = [child EXCEPT !.made = @ + 1]
      BY SMTT(30), <1>1, <2>2, SessionBounds DEF SessionInv, OutputInv
    <3>2. QED BY <3>1 DEF SessionInv, OutputInv
  <2>3. QED BY <2>1, <2>2
<1>4. CASE kind = "local"
  <2>1. pty' \in Seq(Data) /\ chan' = chan
    BY <1>1, <1>2, <1>4, AppendProperties
  <2>2. QED
    BY <1>1, <1>2, <1>3, <2>1, DrainKept, ScreenKept, TurnKept, RecordedSound
       DEF SessionInv, OutputInv, CommandsInv, CommandsAccounted
<1>5. CASE kind # "local"
  <2>1. chan' \in Seq(Data \cup {"exit", "eof"}) /\ Len(chan') = Len(chan) + 1 /\ pty' = pty
    BY <1>1, <1>2, <1>5, AppendProperties
  <2>2. OutputInv' /\ DrainInv'
    BY <1>1, <1>2, <1>3, <2>1 DEF SessionInv, OutputInv, DrainInv
  <2>3. QED
    BY <1>1, <2>2, ScreenKept, TurnKept, RecordedSound DEF SessionInv, CommandsInv, CommandsAccounted
<1>6. QED BY <1>4, <1>5

LEMMA ChildEndsSound ==
  ASSUME SessionInv, NEW st \in {"exited", "closed"}, ChildEnds(st)
  PROVE  SessionInv'
<1>1. /\ child' = [child EXCEPT !.st = st] /\ pc # "done"
      /\ UNCHANGED <<kind, handle, cmds, sent, copy, pending, applied, pty, pc, changed, skipped>>
      /\ UNCHANGED <<owed, exit, emu, turn, view, sink>>
  BY DEF ChildEnds, ui, flags
<1>2. child' \in [st : {"running", "exited", "closed"}, made : 0 .. MaxOut]
  BY <1>1 DEF SessionInv, OutputInv
<1>3. chan \in Seq(Data \cup {"exit", "eof"}) /\ Len(chan) \in Nat
  BY LenProperties DEF SessionInv, OutputInv
<1>4. chan' \in Seq(Data \cup {"exit", "eof"}) /\ Len(chan') \in Nat /\ Len(chan) <= Len(chan')
  <2>1. CASE chan' = chan
    BY <1>3, <2>1
  <2>2. CASE chan' = Append(chan, IF st = "exited" THEN "exit" ELSE "eof")
    <3> DEFINE m == IF st = "exited" THEN "exit" ELSE "eof"
    <3>1. m \in Data \cup {"exit", "eof"}
      OBVIOUS
    <3> HIDE DEF m
    <3>2. chan' \in Seq(Data \cup {"exit", "eof"}) /\ Len(chan') = Len(chan) + 1
      BY <1>3, <2>2, <3>1, AppendProperties DEF m
    <3>3. QED BY <1>3, <3>2
  <2>3. CASE chan' = chan \o <<"eof", "exit">>
    <3> DEFINE m == <<"eof", "exit">>
    <3>1. m \in Seq(Data \cup {"exit", "eof"}) /\ Len(m) = 2
      OBVIOUS
    <3> HIDE DEF m
    <3>2. chan' \in Seq(Data \cup {"exit", "eof"}) /\ Len(chan') = Len(chan) + 2
      BY <1>3, <2>3, <3>1, ConcatProperties DEF m
    <3>3. QED BY <1>3, <3>2
  <2>4. QED BY <2>1, <2>2, <2>3 DEF ChildEnds
<1>5. OutputInv' /\ DrainInv'
  BY <1>1, <1>2, <1>3, <1>4 DEF SessionInv, OutputInv, DrainInv
<1>6. CommandsInv' /\ ScreenInv' /\ TurnInv' /\ SinkInv'
  BY <1>1, ScreenKept, TurnKept, RecordedSound DEF SessionInv, CommandsInv, CommandsAccounted
<1>7. QED BY <1>5, <1>6 DEF SessionInv

LEMMA SendSound ==
  ASSUME SessionInv, NEW c \in Commands, Send(c)
  PROVE  SessionInv'
<1>1. /\ cmds' = Append(cmds, c) /\ sent' = sent + 1 /\ sent < MaxCmds /\ pc # "done"
      /\ c.op = "copy" => c.arg = sent + 1
      /\ copy' = IF c.op = "copy" THEN [id |-> c.arg, st |-> "waiting"] ELSE copy
      /\ UNCHANGED <<kind, handle, pending, applied, pty, chan, child, pc, changed, skipped>>
      /\ UNCHANGED <<owed, exit, emu, turn, view, sink>>
  BY DEF Send, source, flags
<1>2. cmds' \in Seq(Commands) /\ Len(cmds') = Len(cmds) + 1 /\ Len(cmds) \in Nat /\ Len(pending) \in Nat
  BY <1>1, AppendProperties, LenProperties DEF SessionInv, CommandsInv
<1>3. sent' \in 0 .. MaxCmds
  BY <1>1, SessionBounds DEF SessionInv, CommandsInv
<1>4. copy' \in Replies
  BY <1>1, <1>3 DEF SessionInv, CommandsInv, Replies
<1>5. CommandsAccounted'
  <2>1. applied + Len(pending) + Len(cmds) = sent /\ applied \in Nat /\ sent \in Nat
    BY SessionBounds DEF SessionInv, CommandsInv, CommandsAccounted
  <2>2. applied + Len(pending) + (Len(cmds) + 1) = sent + 1
    BY <1>2, <2>1
  <2>3. QED BY <1>1, <1>2, <2>2 DEF CommandsAccounted
<1>6. CommandsInv'
  BY <1>1, <1>2, <1>3, <1>4, <1>5 DEF SessionInv, CommandsInv
<1>7. OutputInv' /\ DrainInv' /\ ScreenInv' /\ TurnInv' /\ SinkInv'
  BY <1>1, OutputKept, DrainKept, ScreenKept, TurnKept, RecordedSound DEF SessionInv
<1>8. QED BY <1>6, <1>7 DEF SessionInv

LEMMA CallerSound ==
  ASSUME SessionInv, CopyTimesOut \/ DropHandle
  PROVE  SessionInv'
<1>1. /\ UNCHANGED <<kind, cmds, sent, pending, applied, pty, chan, child, pc, changed, skipped>>
      /\ UNCHANGED <<owed, exit, emu, turn, view, sink>>
      /\ handle' \in BOOLEAN
      /\ copy' = copy \/ copy' = [copy EXCEPT !.st = "timed_out"]
  BY DEF CopyTimesOut, DropHandle, source, flags, SessionInv, CommandsInv
<1>2. copy' \in Replies
  BY <1>1 DEF SessionInv, CommandsInv, Replies
<1>3. CommandsInv' /\ OutputInv' /\ DrainInv' /\ ScreenInv' /\ TurnInv' /\ SinkInv'
  BY <1>1, <1>2, OutputKept, DrainKept, TurnKept, RecordedSound
     DEF SessionInv, CommandsInv, CommandsAccounted, ScreenInv, NoSilentOutput
<1>4. QED BY <1>3 DEF SessionInv

LEMMA SessionStep ==
  ASSUME SessionInv, [Next]_vars
  PROVE  SessionInv'
<1>1. CASE ApplyCommand
  BY <1>1, ApplyInputSound, ApplyRedundantResizeSound, ApplyResizeSound, ApplyScrollSound,
     ApplyCopySound, FailSound DEF ApplyCommand, LocalResizeFails
<1>2. CASE LocalWorker
  BY <1>2, DrainOneSound, NoCommandSound, RefreshOutputSound, PollSound, FinalDrainEndsSound,
     FinalRefreshSound DEF LocalWorker
<1>3. CASE SshWorker
  BY <1>3, SshDataSound, SshBurstEndsSound, SshExitStatusSound, SshClosedSound DEF SshWorker
<1>4. CASE Start \/ Written \/ Reader \/ WriteTranscript \/ CopyTimesOut \/ DropHandle
  BY <1>4, StartSound, WrittenSound, ReaderSound, WriteTranscriptSound, CallerSound
<1>5. CASE \E chunk \in Data : Produce(chunk)
  BY <1>5, ProduceSound
<1>6. CASE \E st \in {"exited", "closed"} : ChildEnds(st)
  BY <1>6, ChildEndsSound
<1>7. CASE \E c \in Commands : Send(c)
  BY <1>7, SendSound
<1>8. CASE UNCHANGED vars
  <2>1. /\ UNCHANGED <<kind, handle, cmds, sent, copy, pending, applied, pty, chan, child, pc>>
        /\ UNCHANGED <<changed, skipped, owed, exit, emu, turn, view, sink>>
    BY <1>8 DEF vars, ui, source, flags
  <2>2. QED
    BY <2>1, OutputKept, DrainKept, TurnKept, RecordedSound
       DEF SessionInv, CommandsInv, CommandsAccounted, ScreenInv, NoSilentOutput
<1>9. QED BY <1>1, <1>2, <1>3, <1>4, <1>5, <1>6, <1>7, <1>8 DEF Next, Worker

\* Nothing is lost unnoticed on its way through a session (run_local_session,
\* run_ssh_session, TerminalEmulator::refresh, TurnTracker, write_transcript_events),
\* whichever refresh, write or transcript file fails: every command is applied, deferred
\* or queued, also across scroll batches of any length; output in the emulator is
\* published, about to be or replaced by an error; a transcript event is kept, counted,
\* or lost by a writer that stopped, which loses no more than it held and had queued; and
\* a turn's text stays within its limit.
THEOREM NothingIsLost == Spec => []SessionAccounted
<1>1. Init => SessionInv
  BY SessionStarts
<1>2. SessionInv /\ [Next]_vars => SessionInv'
  BY SessionStep
<1>3. SessionInv => SessionAccounted
  BY SessionInvHolds
<1>4. QED BY <1>1, <1>2, <1>3, PTL DEF Spec

\* Only the refresh after the last drain publishes the exit of a local shell.
LEMMA ExitIsFinal ==
  ASSUME Next, kind = "local", view.exit # "exited", view'.exit = "exited"
  PROVE  FinalRefresh
<1>1. view' # view /\ view' # Error
  BY DEF Error, NoView
<1>2. ASSUME NEW e, NEW t, NEW status, Publish(e, t, status), status # "exited"
      PROVE  FALSE
  <2>1. CASE RefreshFails(e, t)
    BY <2>1 DEF RefreshFails, Error, NoView
  <2>2. CASE view' = Published(Refreshed(e), status)
    BY <1>2, <2>2 DEF Published
  <2>3. QED BY <1>2, <2>1, <2>2 DEF Publish
<1>3. Status = "none"
  BY DEF Status
<1>4. ~Written
  BY <1>1, <1>2, <1>3 DEF Written
<1>5. ~ApplyInput /\ ~ApplyRedundantResize /\ ~ApplyCopy
  BY <1>1 DEF ApplyInput, StartWrite, ApplyRedundantResize, ApplyCopy
<1>6. ~Fail
  BY <1>1 DEF Fail
<1>7. ~ApplyResize /\ ~LocalResizeFails /\ ~ApplyScroll
  BY <1>1, <1>2, <1>3, <1>6 DEF ApplyResize, LocalResizeFails, ApplyScroll
<1>8. ~Start /\ ~RefreshOutput /\ ~Poll
  BY <1>1, <1>2, <1>6 DEF Start, RefreshOutput, Poll
<1>9. ~DrainOne /\ ~NoCommand /\ ~FinalDrainEnds
  BY <1>1 DEF DrainOne, NoCommand, FinalDrainEnds
<1>10. ~SshWorker
  BY DEF SshWorker, SshData, SshBurstEnds, SshExitStatus, SshClosed, CanRead
<1>11. ~Reader /\ ~WriteTranscript /\ ~CopyTimesOut /\ ~DropHandle
  BY <1>1 DEF Reader, WriteTranscript, CopyTimesOut, DropHandle
<1>12. /\ ~\E chunk \in Data : Produce(chunk)
       /\ ~\E st \in {"exited", "closed"} : ChildEnds(st)
       /\ ~\E c \in Commands : Send(c)
  BY <1>1 DEF Produce, ChildEnds, Send
<1>13. QED
  BY <1>4, <1>5, <1>7, <1>8, <1>9, <1>10, <1>11, <1>12 DEF Next, Worker, ApplyCommand, LocalWorker

\* The exit of a local shell is published only with everything the reader had delivered
\* when try_wait noticed it, whatever the reader thread delivers while the last drain
\* runs, and after it (the drain of run_local_session after try_wait).
THEOREM ExitWaitsForOutput == Spec => ExitAfterDrain
<1> DEFINE Drained == kind = "local" /\ view.exit # "exited" /\ view'.exit = "exited"
                        => owed = 0 /\ view'.rows = emu.rows
<1>1. SessionInv /\ [Next]_vars => [Drained]_vars
  <2>1. SUFFICES ASSUME SessionInv, Next, kind = "local", view.exit # "exited", view'.exit = "exited"
                 PROVE  owed = 0 /\ view'.rows = emu.rows
    BY DEF Drained
  <2>2. FinalRefresh
    BY <2>1, ExitIsFinal
  <2>3. owed = 0
    BY <2>1, <2>2 DEF FinalRefresh, SessionInv, DrainInv
  <2>4. view' = Published(Refreshed(emu), "exited")
    <3>1. ~RefreshFails(emu, turn)
      BY <2>1 DEF RefreshFails, Error, NoView
    <3>2. QED BY <2>2, <3>1 DEF FinalRefresh, Publish
  <2>5. Refreshed(emu).rows = emu.rows
    BY <2>1 DEF SessionInv, ScreenInv, Emulators, Refreshed, Measured
  <2>6. QED BY <2>3, <2>4, <2>5 DEF Published
<1>2. Init => SessionInv
  BY SessionStarts
<1>3. SessionInv /\ [Next]_vars => SessionInv'
  BY SessionStep
<1>4. QED BY <1>1, <1>2, <1>3, PTL DEF Spec, ExitAfterDrain, Drained

-----------------------------------------------------------------------------
(***************************************************************************)
(* The terminal pane.                                                      *)
(*                                                                         *)
(* The closures of the next frame: Marked says that the i-th is of a kind  *)
(* and of its current epoch, One that a kind has exactly one of them when  *)
(* the flag b is set and none when it is not.                              *)
(***************************************************************************)

Kinds == {"flush", "geometry", "scroll", "auto", "probe"}
Callbacks == [kind : Kinds, fresh : BOOLEAN]

Longer(c, k) == Append(c, [kind |-> k, fresh |-> TRUE])
Stale(c, k) == [i \in DOMAIN c |-> [c[i] EXCEPT !.fresh = @ /\ c[i].kind # k]]

Marked(c, i, k) == c[i].kind = k /\ c[i].fresh = TRUE

One(c, k, b) ==
  /\ b <=> \E i \in DOMAIN c : Marked(c, i, k)
  /\ \A i, j \in DOMAIN c : Marked(c, i, k) /\ Marked(c, j, k) => i = j

FlushesFresh(c) == \A i \in DOMAIN c : c[i].kind = "flush" => c[i].fresh = TRUE

\* A closure is queued: its kind, which had none, has one, and the others keep theirs.
LEMMA QueuedOne ==
  ASSUME NEW c \in Seq(Callbacks), NEW k \in Kinds
  PROVE  LET d == Longer(c, k)
         IN /\ d \in Seq(Callbacks)
            /\ FlushesFresh(c) => FlushesFresh(d)
            /\ One(c, k, FALSE) => One(d, k, TRUE)
            /\ \A j \in Kinds \ {k}, b \in BOOLEAN : One(c, j, b) => One(d, j, b)
<1> DEFINE e == [kind |-> k, fresh |-> TRUE]
           d == Append(c, e)
<1>1. e \in Callbacks /\ e.kind = k /\ e.fresh = TRUE
  BY DEF Callbacks
<1> HIDE DEF e
<1>2. /\ d \in Seq(Callbacks) /\ Len(c) \in Nat /\ DOMAIN c = 1 .. Len(c) /\ DOMAIN d = 1 .. Len(c) + 1
      /\ \A i \in 1 .. Len(c) : d[i] = c[i]
      /\ d[Len(c) + 1] = e
  BY <1>1, AppendProperties, LenProperties
<1>3. \A i \in DOMAIN d : i \in DOMAIN c \/ i = Len(c) + 1
  BY <1>2
<1>4. DOMAIN c \subseteq DOMAIN d /\ Len(c) + 1 \in DOMAIN d /\ Len(c) + 1 \notin DOMAIN c
  BY <1>2
<1> HIDE DEF d
<1>5. FlushesFresh(c) => FlushesFresh(d)
  BY <1>1, <1>2, <1>3 DEF FlushesFresh
<1>6. /\ \A i \in DOMAIN c, j \in Kinds : Marked(d, i, j) <=> Marked(c, i, j)
      /\ \A j \in Kinds : Marked(d, Len(c) + 1, j) <=> j = k
  BY <1>1, <1>2 DEF Marked
<1>7. One(c, k, FALSE) => One(d, k, TRUE)
  BY <1>3, <1>4, <1>6 DEF One
<1>8. \A j \in Kinds \ {k}, b \in BOOLEAN : One(c, j, b) => One(d, j, b)
  BY <1>3, <1>4, <1>6 DEF One
<1>9. QED BY <1>2, <1>5, <1>7, <1>8 DEF d, e, Longer

\* The epoch of a kind is advanced: none of its closures is current any more.
LEMMA OutdatedOne ==
  ASSUME NEW c \in Seq(Callbacks), NEW k \in Kinds
  PROVE  LET d == Stale(c, k)
         IN /\ d \in Seq(Callbacks)
            /\ k # "flush" /\ FlushesFresh(c) => FlushesFresh(d)
            /\ One(d, k, FALSE)
            /\ \A j \in Kinds \ {k}, b \in BOOLEAN : One(c, j, b) => One(d, j, b)
<1> DEFINE f(i) == [c[i] EXCEPT !.fresh = @ /\ c[i].kind # k]
           d == [i \in DOMAIN c |-> f(i)]
<1>1. Len(c) \in Nat /\ DOMAIN c = 1 .. Len(c)
  BY LenProperties
<1>2. ASSUME NEW i \in DOMAIN c
      PROVE  f(i) \in Callbacks /\ f(i).kind = c[i].kind /\ (f(i).fresh = TRUE <=> c[i].fresh = TRUE /\ c[i].kind # k)
  <2>1. c[i] \in Callbacks
    BY <1>1, ElementOfSeq
  <2>2. f(i).kind = c[i].kind /\ f(i).fresh = (c[i].fresh /\ c[i].kind # k) /\ (c[i].fresh /\ c[i].kind # k) \in BOOLEAN
    BY <2>1 DEF Callbacks
  <2>3. f(i) \in Callbacks
    BY <2>1, <2>2, Zenon DEF Callbacks
  <2>4. c[i].fresh \in BOOLEAN
    BY <2>1 DEF Callbacks
  <2>5. f(i).fresh = TRUE <=> c[i].fresh = TRUE /\ c[i].kind # k
    BY <2>2, <2>4
  <2>6. QED BY <2>2, <2>3, <2>5
<1> HIDE DEF f
<1>3. DOMAIN d = DOMAIN c /\ \A i \in DOMAIN c : d[i] = f(i)
  OBVIOUS
<1>4. d \in Seq(Callbacks)
  <2>1. d \in [1 .. Len(c) -> Callbacks]
    BY <1>1, <1>2
  <2>2. QED BY <1>1, <2>1, SeqDef
<1> HIDE DEF d
<1>5. \A i \in DOMAIN c, j \in Kinds : Marked(d, i, j) <=> Marked(c, i, j) /\ j # k
  BY <1>2, <1>3 DEF Marked
<1>6. One(d, k, FALSE)
  BY <1>3, <1>5 DEF One
<1>7. \A j \in Kinds \ {k}, b \in BOOLEAN : One(c, j, b) => One(d, j, b)
  BY <1>3, <1>5 DEF One
<1>8. k # "flush" /\ FlushesFresh(c) => FlushesFresh(d)
  BY <1>2, <1>3 DEF FlushesFresh
<1>9. QED BY <1>4, <1>6, <1>7, <1>8 DEF d, f, Stale

\* The first closure runs: its kind has none left if it was current.
LEMMA PoppedOne ==
  ASSUME NEW c \in Seq(Callbacks), c # <<>>, NEW d, d = Tail(c)
  PROVE  /\ d \in Seq(Callbacks) /\ Head(c) \in Callbacks
         /\ FlushesFresh(c) => FlushesFresh(d) /\ (Head(c).kind = "flush" => Head(c).fresh = TRUE)
         /\ Head(c).fresh = TRUE => (One(c, Head(c).kind, TRUE) => One(d, Head(c).kind, FALSE))
         /\ Head(c).fresh = TRUE => \E i \in DOMAIN c : Marked(c, i, Head(c).kind)
         /\ \A j \in Kinds, b \in BOOLEAN :
               (Head(c).fresh = TRUE => j # Head(c).kind) /\ One(c, j, b) => One(d, j, b)
<1>1. /\ d \in Seq(Callbacks) /\ Len(c) \in Nat \ {0} /\ DOMAIN c = 1 .. Len(c)
      /\ DOMAIN d = 1 .. Len(c) - 1 /\ Head(c) = c[1]
      /\ \A i \in DOMAIN d : d[i] = c[i + 1]
  BY HeadTailProperties, LenProperties, EmptySeq
<1>2. Head(c) \in Callbacks
  BY <1>1, ElementOfSeq
<1>3. /\ \A i \in DOMAIN d : i + 1 \in DOMAIN c /\ i + 1 # 1
      /\ \A i \in DOMAIN c : i = 1 \/ (i - 1 \in DOMAIN d /\ d[i - 1] = c[i])
      /\ 1 \in DOMAIN c
      /\ \A i, j \in DOMAIN d : i + 1 = j + 1 => i = j
      /\ \A i, j \in DOMAIN c : i - 1 = j - 1 => i = j
  BY <1>1
<1>4. FlushesFresh(c) => FlushesFresh(d) /\ (Head(c).kind = "flush" => Head(c).fresh = TRUE)
  BY <1>1, <1>3 DEF FlushesFresh
<1>5. ASSUME NEW k PROVE \A i \in DOMAIN d : Marked(d, i, k) <=> Marked(c, i + 1, k)
  BY <1>1 DEF Marked
<1>6. Head(c).fresh = TRUE => Marked(c, 1, Head(c).kind)
  BY <1>1 DEF Marked
<1>7. Head(c).fresh = TRUE => (One(c, Head(c).kind, TRUE) => One(d, Head(c).kind, FALSE))
  BY <1>3, <1>5, <1>6 DEF One
<1>8. ASSUME NEW j \in Kinds, NEW b \in BOOLEAN, Head(c).fresh = TRUE => j # Head(c).kind, One(c, j, b)
      PROVE  One(d, j, b)
  <2>1. ~Marked(c, 1, j)
    BY <1>1, <1>8 DEF Marked
  <2>2. \A i \in DOMAIN c : Marked(c, i, j) => i - 1 \in DOMAIN d /\ Marked(d, i - 1, j)
    BY <1>3, <2>1 DEF Marked
  <2>3. QED BY <1>3, <1>5, <1>8, <2>2 DEF One
<1>9. QED BY <1>1, <1>2, <1>3, <1>4, <1>6, <1>7, <1>8

(***************************************************************************)
(* A window, as the handlers pass it on: the fields they keep (Differ says *)
(* that two windows differ at most in the fields S), whom its gestures     *)
(* belong to, and the flags of its closures.                               *)
(***************************************************************************)

Fields ==
  {"active", "by", "tab", "applied", "surf", "pend", "sched", "defers", "flushed", "dirty", "cbs",
   "scroll", "recent", "restore", "auto", "anchor", "sel", "turn", "ime", "bar", "hover", "probe"}

Differ(v, u, S) == DOMAIN u = DOMAIN v /\ \A f \in DOMAIN v \ S : u[f] = v[f]

Shaped(v) ==
  /\ DOMAIN v = Fields
  /\ DOMAIN v.surf = {"id", "rev", "val", "geo", "mode", "links", "bumped"}
  /\ DOMAIN v.scroll = {"who", "what", "sched"} /\ DOMAIN v.probe = {"on", "sched"}
  /\ v.cbs \in Seq(Callbacks)

Owned(v) ==
  /\ v.active \in Owner /\ v.applied \in 0 .. 2 /\ v.defers \in 0 .. MAX_FRAME_DEFERS
  /\ {v.sel, v.turn, v.anchor, v.ime} \subseteq {0, v.active}
  /\ v.bar \in Owner /\ v.scroll.who \in Owner
  /\ v.scroll.what # "none" => v.scroll.who = v.active
  /\ v.auto \in {"off", "armed", "scheduled"}

Flagged(v) ==
  /\ FlushesFresh(v.cbs)
  /\ One(v.cbs, "flush", v.sched = TRUE) /\ One(v.cbs, "scroll", v.scroll.sched = TRUE)
  /\ One(v.cbs, "auto", v.auto = "scheduled") /\ One(v.cbs, "probe", v.probe.sched = TRUE)

WindowInv(v) == Shaped(v) /\ Owned(v) /\ Flagged(v)

\* What the surface and the session's size depend on.
Pane == {"active", "by", "tab", "applied", "surf", "recent", "restore"}
Kept(v, u) ==
  /\ \A f \in Pane : u[f] = v[f]
  /\ (v.sched = TRUE => u.sched = TRUE) /\ (v.dirty = TRUE => u.dirty = TRUE)

LEMMA DifferComposed ==
  ASSUME NEW v, NEW u, NEW x, NEW S, NEW T, NEW R, Differ(v, u, S), Differ(u, x, T), S \subseteq R, T \subseteq R
  PROVE  Differ(v, x, R)
BY DEF Differ

LEMMA KeptComposed ==
  ASSUME NEW v, NEW u, NEW x, Kept(v, u), Kept(u, x)
  PROVE  Kept(v, x)
BY DEF Kept

LEMMA Inert ==
  ASSUME NEW v, NEW u, WindowInv(v), Differ(v, u, {"pend", "flushed", "dirty", "hover", "by", "tab", "recent", "restore"})
  PROVE  WindowInv(u)
<1>1. /\ DOMAIN u = Fields /\ u.surf = v.surf /\ u.scroll = v.scroll /\ u.probe = v.probe /\ u.cbs = v.cbs
      /\ u.active = v.active /\ u.applied = v.applied /\ u.defers = v.defers /\ u.sel = v.sel /\ u.turn = v.turn
      /\ u.anchor = v.anchor /\ u.ime = v.ime /\ u.bar = v.bar /\ u.auto = v.auto /\ u.sched = v.sched
  BY DEF WindowInv, Shaped, Differ, Fields
<1>2. QED BY <1>1 DEF WindowInv, Shaped, Owned, Flagged

LEMMA LaterIs ==
  ASSUME NEW v, Shaped(v), NEW k \in Kinds
  PROVE  /\ Differ(v, Later(v, k), {"cbs"}) /\ Shaped(Later(v, k))
         /\ Later(v, k).cbs = Longer(v.cbs, k)
<1>1. Differ(v, Later(v, k), {"cbs"}) /\ Later(v, k).cbs = Longer(v.cbs, k)
  BY DEF Shaped, Differ, Later, Fields, Longer
<1>2. Longer(v.cbs, k) \in Seq(Callbacks)
  BY QueuedOne DEF Shaped
<1>3. QED BY <1>1, <1>2 DEF Shaped, Differ, Fields

LEMMA OutdatedIs ==
  ASSUME NEW v, Shaped(v), NEW k \in Kinds
  PROVE  /\ Differ(v, Outdated(v, k), {"cbs"}) /\ Shaped(Outdated(v, k))
         /\ Outdated(v, k).cbs = Stale(v.cbs, k)
<1>1. /\ Differ(v, Outdated(v, k), {"cbs"})
      /\ Outdated(v, k).cbs = Stale(v.cbs, k)
  BY DEF Shaped, Differ, Outdated, Fields, Stale
<1>2. Stale(v.cbs, k) \in Seq(Callbacks)
  BY OutdatedOne DEF Shaped
<1>3. QED BY <1>1, <1>2 DEF Shaped, Differ, Fields

LEMMA NotifiedSound ==
  ASSUME NEW v, WindowInv(v)
  PROVE  WindowInv(Notified(v)) /\ Kept(v, Notified(v)) /\ Differ(v, Notified(v), {"dirty"}) /\ Notified(v).dirty = TRUE
<1>1. Differ(v, Notified(v), {"dirty"}) /\ Notified(v).dirty = TRUE
  BY DEF WindowInv, Shaped, Differ, Notified, Fields
<1>2. WindowInv(Notified(v))
  BY <1>1, Inert DEF Differ
<1>3. QED BY <1>1, <1>2 DEF WindowInv, Shaped, Kept, Pane, Differ, Fields

LEMMA RequestedSound ==
  ASSUME NEW v, WindowInv(v)
  PROVE  /\ WindowInv(Requested(v)) /\ Kept(v, Requested(v)) /\ Requested(v).sched = TRUE
         /\ Differ(v, Requested(v), {"pend", "sched", "defers", "cbs"})
<1>1. CASE v.sched = TRUE
  <2>1. Requested(v) = [v EXCEPT !.pend = TRUE]
    BY <1>1 DEF Requested
  <2>2. Differ(v, Requested(v), {"pend"})
    BY <2>1 DEF WindowInv, Shaped, Differ, Fields
  <2>3. WindowInv(Requested(v))
    BY <2>2, Inert DEF Differ
  <2>4. QED BY <1>1, <2>2, <2>3 DEF WindowInv, Shaped, Kept, Pane, Differ, Fields
<1>2. CASE v.sched # TRUE
  <2> DEFINE u == [v EXCEPT !.pend = TRUE, !.sched = TRUE, !.defers = 0]
             x == Later(u, "flush")
  <2>1. Requested(v) = x
    BY <1>2 DEF Requested
  <2>2. Differ(v, u, {"pend", "sched", "defers"}) /\ u.sched = TRUE /\ u.defers = 0 /\ Shaped(u)
    BY DEF WindowInv, Shaped, Differ, Fields
  <2> HIDE DEF u
  <2>3. Differ(u, x, {"cbs"}) /\ Shaped(x) /\ x.cbs = Longer(u.cbs, "flush")
    BY <2>2, LaterIs DEF Kinds
  <2> HIDE DEF x
  <2>4. Differ(v, x, {"pend", "sched", "defers", "cbs"}) /\ x.sched = TRUE /\ x.defers = 0 /\ u.cbs = v.cbs
    BY <2>2, <2>3 DEF WindowInv, Shaped, Differ, Fields
  <2>5. Flagged(x)
    <3>0. v.cbs \in Seq(Callbacks) /\ FlushesFresh(v.cbs) /\ One(v.cbs, "flush", FALSE)
      BY <1>2 DEF WindowInv, Shaped, Flagged, One
    <3>1. /\ FlushesFresh(x.cbs) /\ One(x.cbs, "flush", TRUE)
          /\ \A j \in Kinds \ {"flush"}, b \in BOOLEAN : One(v.cbs, j, b) => One(x.cbs, j, b)
      BY ZenonT(60), <2>3, <2>4, <3>0, QueuedOne DEF Kinds
    <3>2. x.scroll = v.scroll /\ x.auto = v.auto /\ x.probe = v.probe
      BY <2>4 DEF WindowInv, Shaped, Differ, Fields
    <3>3. QED BY <2>4, <3>1, <3>2 DEF WindowInv, Flagged, Kinds
  <2>6. Owned(x)
    <3>1. /\ x.active = v.active /\ x.applied = v.applied /\ x.sel = v.sel /\ x.turn = v.turn
          /\ x.anchor = v.anchor /\ x.ime = v.ime /\ x.bar = v.bar /\ x.scroll = v.scroll /\ x.auto = v.auto
      BY <2>4 DEF WindowInv, Shaped, Differ, Fields
    <3>2. x.defers \in 0 .. MAX_FRAME_DEFERS
      BY <2>4 DEF MAX_FRAME_DEFERS
    <3>3. QED BY <3>1, <3>2 DEF WindowInv, Owned
  <2>7. QED BY <2>1, <2>3, <2>4, <2>5, <2>6 DEF WindowInv, Shaped, Kept, Pane, Differ, Fields
<1>3. QED BY <1>1, <1>2

\* The flags of a window whose closures are those of another one.
LEMMA SameFlags ==
  ASSUME NEW v, NEW u, Flagged(v), u.cbs = v.cbs, u.sched = v.sched, u.scroll.sched = v.scroll.sched,
         u.probe.sched = v.probe.sched, u.auto = "scheduled" <=> v.auto = "scheduled"
  PROVE  Flagged(u)
BY DEF Flagged, One

\* The flags after the closures of a kind were outdated and its flag reset.
LEMMA ResetFlags ==
  ASSUME NEW v, NEW x, Shaped(v), Flagged(v), NEW k \in {"scroll", "auto", "probe"}, x.sched = v.sched,
         x.cbs = Stale(v.cbs, k),
         IF k = "scroll" THEN x.scroll.sched = FALSE ELSE x.scroll.sched = v.scroll.sched,
         IF k = "auto" THEN x.auto # "scheduled" ELSE x.auto = v.auto,
         IF k = "probe" THEN x.probe.sched = FALSE ELSE x.probe.sched = v.probe.sched
  PROVE  Flagged(x)
<1>1. /\ FlushesFresh(x.cbs) /\ One(x.cbs, k, FALSE)
      /\ \A j \in Kinds \ {k}, b \in BOOLEAN : One(v.cbs, j, b) => One(x.cbs, j, b)
  <2>1. k \in Kinds /\ k # "flush" /\ v.cbs \in Seq(Callbacks) /\ FlushesFresh(v.cbs)
    BY DEF Shaped, Flagged, Kinds
  <2>2. QED BY <2>1, OutdatedOne
<1>2. k = "scroll" => One(x.cbs, "scroll", x.scroll.sched = TRUE)
  BY <1>1 DEF One
<1>3. k = "auto" => One(x.cbs, "auto", x.auto = "scheduled")
  BY <1>1 DEF One
<1>4. k = "probe" => One(x.cbs, "probe", x.probe.sched = TRUE)
  BY <1>1 DEF One
<1>5. QED BY <1>1, <1>2, <1>3, <1>4 DEF Flagged, Kinds

\* The flags after a closure of a kind was queued and its flag set.
LEMMA RaisedFlags ==
  ASSUME NEW v, NEW x, Shaped(v), Flagged(v), NEW k \in {"scroll", "auto", "probe"}, x.sched = v.sched,
         x.cbs = Longer(v.cbs, k),
         IF k = "scroll" THEN x.scroll.sched = TRUE /\ v.scroll.sched # TRUE ELSE x.scroll.sched = v.scroll.sched,
         IF k = "auto" THEN x.auto = "scheduled" /\ v.auto # "scheduled" ELSE x.auto = v.auto,
         IF k = "probe" THEN x.probe.sched = TRUE /\ v.probe.sched # TRUE ELSE x.probe.sched = v.probe.sched
  PROVE  Flagged(x)
<1>1. One(v.cbs, k, FALSE)
  <2>1. CASE k = "scroll"
    BY <2>1 DEF Flagged, One
  <2>2. CASE k = "auto"
    BY <2>2 DEF Flagged, One
  <2>3. CASE k = "probe"
    BY <2>3 DEF Flagged, One
  <2>4. QED BY <2>1, <2>2, <2>3
<1>2. /\ FlushesFresh(x.cbs) /\ One(x.cbs, k, TRUE)
      /\ \A j \in Kinds \ {k}, b \in BOOLEAN : One(v.cbs, j, b) => One(x.cbs, j, b)
  <2>1. k \in Kinds /\ v.cbs \in Seq(Callbacks) /\ FlushesFresh(v.cbs)
    BY DEF Shaped, Flagged, Kinds
  <2>2. QED BY <1>1, <2>1, QueuedOne
<1>3. k = "scroll" => One(x.cbs, "scroll", x.scroll.sched = TRUE)
  BY <1>2 DEF One
<1>4. k = "auto" => One(x.cbs, "auto", x.auto = "scheduled")
  BY <1>2 DEF One
<1>5. k = "probe" => One(x.cbs, "probe", x.probe.sched = TRUE)
  BY <1>2 DEF One
<1>6. QED BY <1>2, <1>3, <1>4, <1>5 DEF Flagged, Kinds

LEMMA AutoStoppedSound ==
  ASSUME NEW v, WindowInv(v)
  PROVE  /\ WindowInv(AutoStopped(v)) /\ Kept(v, AutoStopped(v)) /\ AutoStopped(v).auto = "off"
         /\ Differ(v, AutoStopped(v), {"auto", "cbs"})
<1>1. CASE v.auto = "off"
  BY <1>1 DEF AutoStopped, Differ, Kept
<1>2. CASE v.auto # "off"
  <2> DEFINE u == [v EXCEPT !.auto = "off"]
             x == Outdated(u, "auto")
  <2>1. AutoStopped(v) = x
    BY <1>2 DEF AutoStopped
  <2>2. Differ(v, u, {"auto"}) /\ u.auto = "off" /\ Shaped(u) /\ u.cbs = v.cbs
    BY DEF WindowInv, Shaped, Differ, Fields
  <2> HIDE DEF u
  <2>3. Differ(u, x, {"cbs"}) /\ Shaped(x)
        /\ x.cbs = Stale(u.cbs, "auto")
    BY <2>2, OutdatedIs DEF Kinds
  <2> HIDE DEF x
  <2>4. /\ Differ(v, x, {"auto", "cbs"}) /\ x.auto = "off" /\ x.sched = v.sched /\ x.scroll = v.scroll /\ x.probe = v.probe
        /\ Kept(v, x)
    BY <2>2, <2>3 DEF WindowInv, Shaped, Differ, Fields, Kept, Pane
  <2>5. Flagged(x)
    BY <2>2, <2>3, <2>4, ResetFlags DEF WindowInv
  <2>6. Owned(x)
    BY <2>4 DEF WindowInv, Shaped, Owned, Differ, Fields
  <2>7. QED BY <2>1, <2>3, <2>4, <2>5, <2>6 DEF WindowInv
<1>3. QED BY <1>1, <1>2

LEMMA AutoScheduledSound ==
  ASSUME NEW v, WindowInv(v)
  PROVE  /\ WindowInv(AutoScheduled(v)) /\ Kept(v, AutoScheduled(v)) /\ AutoScheduled(v).auto # "armed"
         /\ Differ(v, AutoScheduled(v), {"auto", "cbs"})
<1>1. CASE v.auto # "armed"
  BY <1>1 DEF AutoScheduled, Differ, Kept
<1>2. CASE v.auto = "armed"
  <2> DEFINE u == [v EXCEPT !.auto = "scheduled"]
             x == Later(u, "auto")
  <2>1. AutoScheduled(v) = x
    BY <1>2 DEF AutoScheduled
  <2>2. Differ(v, u, {"auto"}) /\ u.auto = "scheduled" /\ Shaped(u) /\ u.cbs = v.cbs
    BY DEF WindowInv, Shaped, Differ, Fields
  <2> HIDE DEF u
  <2>3. Differ(u, x, {"cbs"}) /\ Shaped(x) /\ x.cbs = Longer(u.cbs, "auto")
    BY <2>2, LaterIs DEF Kinds
  <2> HIDE DEF x
  <2>4. /\ Differ(v, x, {"auto", "cbs"}) /\ x.auto = "scheduled" /\ x.sched = v.sched /\ x.scroll = v.scroll
        /\ x.probe = v.probe /\ Kept(v, x)
    BY <2>2, <2>3 DEF WindowInv, Shaped, Differ, Fields, Kept, Pane
  <2>5. Flagged(x)
    BY <1>2, <2>2, <2>3, <2>4, RaisedFlags DEF WindowInv
  <2>6. Owned(x)
    BY <2>4 DEF WindowInv, Shaped, Owned, Differ, Fields
  <2>7. QED BY <2>1, <2>3, <2>4, <2>5, <2>6 DEF WindowInv
<1>3. QED BY <1>1, <1>2

LEMMA ScrollQueuedSound ==
  ASSUME NEW v, WindowInv(v), NEW what
  PROVE  /\ WindowInv(ScrollQueued(v, what)) /\ Kept(v, ScrollQueued(v, what))
         /\ Differ(v, ScrollQueued(v, what), {"scroll", "pend", "sched", "defers", "cbs"})
<1> DEFINE u == [v EXCEPT !.scroll.who = v.active, !.scroll.what = IF v.scroll.what = "rows" THEN @ ELSE what]
           y == [u EXCEPT !.scroll.sched = TRUE]
           z == Outdated(y, "scroll")
           x == Later(z, "scroll")
<1>1. Differ(v, u, {"scroll"}) /\ Shaped(u) /\ u.scroll.who = v.active /\ u.scroll.sched = v.scroll.sched
  BY DEF WindowInv, Shaped, Differ, Fields
<1>2. CASE v.scroll.sched = TRUE
  <2>1. ScrollQueued(v, what) = u
    BY <1>2 DEF ScrollQueued
  <2> HIDE DEF u
  <2>2. /\ Kept(v, u) /\ Owned(u)
    BY <1>1 DEF WindowInv, Shaped, Owned, Differ, Fields, Kept, Pane
  <2>3. u.cbs = v.cbs /\ u.sched = v.sched /\ u.probe = v.probe /\ u.auto = v.auto
    BY <1>1 DEF WindowInv, Shaped, Differ, Fields
  <2>4. Flagged(u)
    BY <1>1, <2>3, SameFlags DEF WindowInv
  <2>5. QED BY <1>1, <2>1, <2>2, <2>4 DEF WindowInv, Differ
<1>3. CASE v.scroll.sched # TRUE
  <2>1. ScrollQueued(v, what) = Requested(x)
    BY <1>3 DEF ScrollQueued
  <2> HIDE DEF u
  <2>2. Differ(u, y, {"scroll"}) /\ Shaped(y) /\ y.scroll.who = u.scroll.who /\ y.scroll.sched = TRUE
    BY <1>1 DEF Shaped, Differ, Fields
  <2> HIDE DEF y
  <2>3. Differ(y, z, {"cbs"}) /\ Shaped(z) /\ z.cbs = Stale(y.cbs, "scroll")
    BY <2>2, OutdatedIs DEF Kinds
  <2> HIDE DEF z
  <2>4. Differ(z, x, {"cbs"}) /\ Shaped(x) /\ x.cbs = Longer(z.cbs, "scroll")
    BY <2>3, LaterIs DEF Kinds
  <2> HIDE DEF x
  <2>5. Differ(v, x, {"scroll", "cbs"}) /\ y.cbs = v.cbs /\ x.scroll.who = v.active /\ x.scroll.sched = TRUE /\ Kept(v, x)
    BY SMTT(30), <1>1, <2>2, <2>3, <2>4 DEF WindowInv, Shaped, Differ, Fields, Kept, Pane
  <2>6. Owned(x)
    BY <2>5 DEF WindowInv, Shaped, Owned, Differ, Fields
  <2>7. Flagged(x)
    <3>1. /\ z.cbs \in Seq(Callbacks) /\ FlushesFresh(z.cbs) /\ One(z.cbs, "scroll", FALSE)
          /\ \A j \in Kinds \ {"scroll"}, b \in BOOLEAN : One(v.cbs, j, b) => One(z.cbs, j, b)
      <4>1. v.cbs \in Seq(Callbacks) /\ FlushesFresh(v.cbs) /\ "scroll" \in Kinds
        BY DEF WindowInv, Shaped, Flagged, Kinds
      <4>2. QED BY <2>3, <2>5, <4>1, OutdatedOne
    <3>2. /\ FlushesFresh(x.cbs) /\ One(x.cbs, "scroll", TRUE)
          /\ \A j \in Kinds \ {"scroll"}, b \in BOOLEAN : One(z.cbs, j, b) => One(x.cbs, j, b)
      BY <2>4, <3>1, QueuedOne DEF Kinds
    <3>3. One(x.cbs, "scroll", x.scroll.sched = TRUE)
      BY <2>5, <3>2 DEF One
    <3>4. x.sched = v.sched /\ x.auto = v.auto /\ x.probe = v.probe
      BY <2>5 DEF WindowInv, Shaped, Differ, Fields
    <3>5. QED BY <3>1, <3>2, <3>3, <3>4 DEF WindowInv, Flagged, Kinds
  <2>8. WindowInv(x)
    BY <2>4, <2>6, <2>7 DEF WindowInv
  <2>9. Kept(x, Requested(x)) /\ Differ(x, Requested(x), {"pend", "sched", "defers", "cbs"}) /\ WindowInv(Requested(x))
    BY <2>8, RequestedSound
  <2>10. Kept(v, Requested(x))
    BY <2>5, <2>9, KeptComposed
  <2>11. Differ(v, Requested(x), {"scroll", "pend", "sched", "defers", "cbs"})
    BY <2>5, <2>9, DifferComposed
  <2>12. QED BY <2>1, <2>9, <2>10, <2>11
<1>4. QED BY <1>2, <1>3

LEMMA EnsuredProbeSound ==
  ASSUME NEW v, WindowInv(v)
  PROVE  /\ WindowInv(EnsuredProbe(v)) /\ Kept(v, EnsuredProbe(v))
         /\ Differ(v, EnsuredProbe(v), {"probe", "cbs", "dirty"})
<1>1. CASE v.probe.sched = TRUE
  BY <1>1 DEF EnsuredProbe, Differ, Kept
<1>2. CASE v.probe.sched # TRUE
  <2> DEFINE u == [v EXCEPT !.probe = [on |-> TRUE, sched |-> TRUE]]
             x == Later(u, "probe")
  <2>1. EnsuredProbe(v) = Notified(x)
    BY <1>2 DEF EnsuredProbe
  <2>2. Differ(v, u, {"probe"}) /\ u.probe.sched = TRUE /\ Shaped(u) /\ u.cbs = v.cbs
    BY DEF WindowInv, Shaped, Differ, Fields
  <2> HIDE DEF u
  <2>3. Differ(u, x, {"cbs"}) /\ Shaped(x) /\ x.cbs = Longer(u.cbs, "probe")
    BY <2>2, LaterIs DEF Kinds
  <2> HIDE DEF x
  <2>4. /\ Differ(v, x, {"probe", "cbs"}) /\ x.probe.sched = TRUE /\ x.sched = v.sched /\ x.scroll = v.scroll
        /\ x.auto = v.auto /\ Kept(v, x)
    BY <2>2, <2>3 DEF WindowInv, Shaped, Differ, Fields, Kept, Pane
  <2>5. Flagged(x)
    BY <1>2, <2>2, <2>3, <2>4, RaisedFlags DEF WindowInv
  <2>6. Owned(x)
    BY <2>4 DEF WindowInv, Shaped, Owned, Differ, Fields
  <2>7. WindowInv(x)
    BY <2>3, <2>5, <2>6 DEF WindowInv
  <2>8. Kept(x, Notified(x)) /\ Differ(x, Notified(x), {"dirty"}) /\ WindowInv(Notified(x))
    BY <2>7, NotifiedSound
  <2>9. Kept(v, Notified(x))
    BY <2>4, <2>8, KeptComposed
  <2>10. Differ(v, Notified(x), {"probe", "cbs", "dirty"})
    BY <2>4, <2>8, DifferComposed
  <2>11. QED BY <2>1, <2>8, <2>9, <2>10
<1>3. QED BY <1>1, <1>2

LEMMA PerfModeSound ==
  ASSUME NEW v, WindowInv(v), NEW on \in BOOLEAN
  PROVE  /\ WindowInv(PerfMode(v, on)) /\ Kept(v, PerfMode(v, on)) /\ PerfMode(v, on).sched = TRUE
         /\ Differ(v, PerfMode(v, on), {"probe", "cbs", "dirty", "pend", "sched", "defers"})
<1> DEFINE u == [v EXCEPT !.probe = [on |-> on, sched |-> FALSE]]
           y == IF on = v.probe.on THEN v ELSE Outdated(u, "probe")
           x == IF on THEN EnsuredProbe(y) ELSE y
<1>1. WindowInv(y) /\ Kept(v, y) /\ Differ(v, y, {"probe", "cbs"})
  <2>1. CASE on = v.probe.on
    BY <2>1 DEF Differ, Kept
  <2>2. CASE on # v.probe.on
    <3>1. Differ(v, u, {"probe"}) /\ u.probe.sched = FALSE /\ Shaped(u) /\ u.cbs = v.cbs
      BY DEF WindowInv, Shaped, Differ, Fields
    <3>2. y = Outdated(u, "probe")
      BY <2>2
    <3> HIDE DEF u
    <3>3. Differ(u, y, {"cbs"}) /\ Shaped(y) /\ y.cbs = Stale(u.cbs, "probe")
      BY <3>1, <3>2, OutdatedIs DEF Kinds
    <3> HIDE DEF y
    <3>4. /\ Differ(v, y, {"probe", "cbs"}) /\ y.probe.sched = FALSE /\ y.sched = v.sched /\ y.scroll = v.scroll
          /\ y.auto = v.auto /\ Kept(v, y)
      BY <3>1, <3>3 DEF WindowInv, Shaped, Differ, Fields, Kept, Pane
    <3>5. Flagged(y)
      BY <3>1, <3>3, <3>4, ResetFlags DEF WindowInv
    <3>6. Owned(y)
      BY <3>4 DEF WindowInv, Shaped, Owned, Differ, Fields
    <3>7. QED BY <3>3, <3>4, <3>5, <3>6 DEF WindowInv
  <2>3. QED BY <2>1, <2>2
<1>2. PerfMode(v, on) = Requested(x)
  BY DEF PerfMode
<1> HIDE DEF y
<1>3. WindowInv(x) /\ Kept(y, x) /\ Differ(y, x, {"probe", "cbs", "dirty"})
  BY <1>1, EnsuredProbeSound DEF Differ, Kept
<1> HIDE DEF x
<1>4. /\ Kept(x, Requested(x)) /\ Differ(x, Requested(x), {"pend", "sched", "defers", "cbs"})
      /\ WindowInv(Requested(x)) /\ Requested(x).sched = TRUE
  BY <1>3, RequestedSound
<1>5. Kept(v, Requested(x))
  <2>1. Kept(v, x)
    BY <1>1, <1>3, KeptComposed
  <2>2. QED BY <1>4, <2>1, KeptComposed
<1>6. Differ(v, Requested(x), {"probe", "cbs", "dirty", "pend", "sched", "defers"})
  <2>1. Differ(v, x, {"probe", "cbs", "dirty"})
    BY <1>1, <1>3, DifferComposed
  <2>2. QED BY <1>4, <2>1, DifferComposed
<1>7. QED BY <1>2, <1>4, <1>5, <1>6

\* The surface does not matter to the gestures and the closures.
LEMMA SurfaceInert ==
  ASSUME NEW v, NEW u, WindowInv(v), Differ(v, u, {"surf"}), DOMAIN u.surf = DOMAIN v.surf
  PROVE  WindowInv(u)
<1>1. /\ DOMAIN u = Fields /\ DOMAIN u.surf = DOMAIN v.surf /\ u.scroll = v.scroll /\ u.probe = v.probe /\ u.cbs = v.cbs
      /\ u.active = v.active /\ u.applied = v.applied /\ u.defers = v.defers /\ u.sel = v.sel /\ u.turn = v.turn
      /\ u.anchor = v.anchor /\ u.ime = v.ime /\ u.bar = v.bar /\ u.auto = v.auto /\ u.sched = v.sched
  BY DEF WindowInv, Shaped, Differ, Fields
<1>2. QED BY <1>1 DEF WindowInv, Shaped, Owned, Flagged

LEMMA InvalidatedIs ==
  ASSUME NEW v, Shaped(v)
  PROVE  /\ Differ(v, Invalidated(v), {"surf"}) /\ Shaped(Invalidated(v))
         /\ Invalidated(v).surf.rev = 0 /\ Invalidated(v).surf.val = 0 /\ Invalidated(v).surf.id = v.surf.id
         /\ DOMAIN Invalidated(v).surf = DOMAIN v.surf
<1>1. /\ Differ(v, Invalidated(v), {"surf"})
      /\ Invalidated(v).surf.rev = 0 /\ Invalidated(v).surf.val = 0 /\ Invalidated(v).surf.id = v.surf.id
      /\ DOMAIN Invalidated(v).surf = DOMAIN v.surf
  BY DEF Shaped, Differ, Invalidated, Fields
<1>2. QED BY <1>1 DEF Shaped, Differ, Fields

LEMMA GeometryAppliedIs ==
  ASSUME NEW v, WindowInv(v), NEW size \in Sizes
  PROVE  /\ WindowInv(GeometryApplied(v, size)) /\ Differ(v, GeometryApplied(v, size), {"applied", "surf"})
         /\ GeometryApplied(v, size).applied = IF Active = 0 THEN 0 ELSE size
         /\ GeometryApplied(v, size).surf = v.surf
            \/ (/\ GeometryApplied(v, size).surf.rev = 0 /\ GeometryApplied(v, size).surf.val = 0
                /\ GeometryApplied(v, size).surf.id = v.surf.id)
<1>1. CASE Active = 0
  <2> DEFINE u == [v EXCEPT !.applied = 0]
  <2>1. GeometryApplied(v, size) = u
    BY <1>1 DEF GeometryApplied
  <2>2. Differ(v, u, {"applied"}) /\ u.applied = 0 /\ u.surf = v.surf
    BY DEF WindowInv, Shaped, Differ, Fields
  <2> HIDE DEF u
  <2>3. /\ Shaped(u) /\ Owned(u) /\ u.cbs = v.cbs /\ u.sched = v.sched /\ u.scroll = v.scroll /\ u.auto = v.auto
        /\ u.probe = v.probe
    BY <2>2 DEF WindowInv, Shaped, Owned, Differ, Fields
  <2>4. Flagged(u)
    BY <2>3, SameFlags DEF WindowInv
  <2>5. QED BY <1>1, <2>1, <2>2, <2>3, <2>4 DEF WindowInv, Differ
<1>2. CASE Active # 0 /\ v.applied = size
  BY <1>2 DEF GeometryApplied, Differ
<1>3. CASE Active # 0 /\ v.applied # size
  <2> DEFINE u == [v EXCEPT !.applied = size]
             x == Invalidated(u)
  <2>1. GeometryApplied(v, size) = x
    BY <1>3 DEF GeometryApplied
  <2>2. Differ(v, u, {"applied"}) /\ u.applied = size /\ u.surf = v.surf /\ Shaped(u)
    BY DEF WindowInv, Shaped, Differ, Fields
  <2> HIDE DEF u
  <2>3. Owned(u) /\ u.cbs = v.cbs /\ u.sched = v.sched /\ u.scroll = v.scroll /\ u.auto = v.auto /\ u.probe = v.probe
    BY <2>2 DEF WindowInv, Shaped, Owned, Differ, Fields, Sizes
  <2>4. WindowInv(u)
    BY <2>2, <2>3, SameFlags DEF WindowInv
  <2>5. Differ(u, x, {"surf"}) /\ x.surf.rev = 0 /\ x.surf.val = 0 /\ x.surf.id = u.surf.id /\ DOMAIN x.surf = DOMAIN u.surf
    BY <2>2, InvalidatedIs
  <2> HIDE DEF x
  <2>6. WindowInv(x)
    BY <2>4, <2>5, SurfaceInert
  <2>7. Differ(v, x, {"applied", "surf"})
    BY <2>2, <2>5, DifferComposed
  <2>8. x.applied = size
    BY <2>2, <2>5 DEF Shaped, Differ, Fields
  <2>9. QED BY <1>3, <2>1, <2>2, <2>5, <2>6, <2>7, <2>8
<1>4. QED BY <1>1, <1>2, <1>3

LEMMA LinkRowsBumpedIs ==
  ASSUME NEW v, WindowInv(v)
  PROVE  /\ WindowInv(LinkRowsBumped(v)) /\ Differ(v, LinkRowsBumped(v), {"surf"})
         /\ v.surf.rev = 0 => LinkRowsBumped(v) = v
         /\ v.surf.rev # 0 =>
               /\ LinkRowsBumped(v).surf.rev = IF v.surf.rev < MaxRev THEN v.surf.rev + 1 ELSE v.surf.rev
               /\ LinkRowsBumped(v).surf.bumped = TRUE
               /\ \A f \in DOMAIN v.surf \ {"rev", "mode", "bumped"} : LinkRowsBumped(v).surf[f] = v.surf[f]
<1>1. CASE v.surf.rev = 0
  BY <1>1 DEF LinkRowsBumped, Differ
<1>2. CASE v.surf.rev # 0
  <2> DEFINE x == [v EXCEPT !.surf.rev = IF @ < MaxRev THEN @ + 1 ELSE @, !.surf.mode = "normal",
                   !.surf.bumped = TRUE]
  <2>1. LinkRowsBumped(v) = x
    BY <1>2 DEF LinkRowsBumped
  <2>2. /\ Differ(v, x, {"surf"}) /\ DOMAIN x.surf = DOMAIN v.surf
        /\ x.surf.rev = IF v.surf.rev < MaxRev THEN v.surf.rev + 1 ELSE v.surf.rev
        /\ x.surf.bumped = TRUE
        /\ \A f \in DOMAIN v.surf \ {"rev", "mode", "bumped"} : x.surf[f] = v.surf[f]
    BY DEF WindowInv, Shaped, Differ, Fields
  <2> HIDE DEF x
  <2>3. WindowInv(x)
    BY <2>2, SurfaceInert
  <2>4. QED BY <1>2, <2>1, <2>2, <2>3
<1>3. QED BY <1>1, <1>2

\* schedule_active_terminal_geometry_refresh: no flag waits for its closure.
LEMMA GeometryScheduledSound ==
  ASSUME NEW v, WindowInv(v)
  PROVE  LET x == Requested(Later(Outdated(v, "geometry"), "geometry"))
         IN WindowInv(x) /\ Kept(v, x) /\ x.sched = TRUE /\ x.auto = v.auto
<1> DEFINE z == Outdated(v, "geometry")
           x == Later(z, "geometry")
<1>1. Differ(v, z, {"cbs"}) /\ Shaped(z) /\ z.cbs = Stale(v.cbs, "geometry")
  BY OutdatedIs DEF WindowInv, Kinds
<1> HIDE DEF z
<1>2. Differ(z, x, {"cbs"}) /\ Shaped(x) /\ x.cbs = Longer(z.cbs, "geometry")
  BY <1>1, LaterIs DEF Kinds
<1> HIDE DEF x
<1>3. Differ(v, x, {"cbs"})
  BY <1>1, <1>2, DifferComposed
<1>4. /\ Owned(x) /\ Kept(v, x) /\ x.sched = v.sched /\ x.scroll = v.scroll /\ x.auto = v.auto /\ x.probe = v.probe
  BY <1>3 DEF WindowInv, Shaped, Owned, Differ, Fields, Kept, Pane
<1>5. Flagged(x)
  <2>1. v.cbs \in Seq(Callbacks) /\ FlushesFresh(v.cbs) /\ "geometry" \in Kinds
    BY DEF WindowInv, Shaped, Flagged, Kinds
  <2>2. /\ FlushesFresh(z.cbs) /\ z.cbs \in Seq(Callbacks)
        /\ \A j \in Kinds \ {"geometry"}, b \in BOOLEAN : One(v.cbs, j, b) => One(z.cbs, j, b)
    BY <1>1, <2>1, OutdatedOne
  <2>3. /\ FlushesFresh(x.cbs)
        /\ \A j \in Kinds \ {"geometry"}, b \in BOOLEAN : One(z.cbs, j, b) => One(x.cbs, j, b)
    BY <1>2, <2>1, <2>2, QueuedOne
  <2>4. QED BY <1>4, <2>2, <2>3 DEF WindowInv, Flagged, Kinds
<1>6. WindowInv(x)
  BY <1>2, <1>4, <1>5 DEF WindowInv
<1>7. /\ WindowInv(Requested(x)) /\ Kept(x, Requested(x)) /\ Requested(x).sched = TRUE
      /\ Requested(x).auto = x.auto
  BY <1>6, RequestedSound DEF WindowInv, Shaped, Differ, Fields
<1>8. Kept(v, Requested(x))
  BY <1>4, <1>7, KeptComposed
<1>9. QED BY <1>4, <1>7, <1>8 DEF x, z

\* What refresh_active_terminal_view needs of the window it finishes to switch.
Switching(v) ==
  /\ Shaped(v) /\ Flagged(v)
  /\ v.active \in Owner /\ v.applied \in 0 .. 2 /\ v.defers \in 0 .. MAX_FRAME_DEFERS
  /\ v.ime \in {0, v.active} /\ v.bar \in Owner

LEMMA ViewRefreshedSound ==
  ASSUME NEW v, Switching(v)
  PROVE  LET x == ViewRefreshed(v)
         IN /\ WindowInv(x) /\ x.auto = "off" /\ x.sched = TRUE /\ x.recent = FALSE
            /\ x.active = v.active /\ x.by = v.by /\ x.tab = v.tab /\ x.applied = v.applied
            /\ x.surf.rev = 0 /\ x.surf.val = 0 /\ x.surf.id = v.surf.id
<1> DEFINE u == [v EXCEPT !.scroll = [who |-> 0, what |-> "none", sched |-> FALSE],
                  !.recent = FALSE, !.restore = FALSE, !.sel = 0, !.anchor = 0, !.turn = 0,
                  !.auto = "off"]
           y == Outdated(u, "scroll")
           z == Outdated(y, "auto")
           x == Invalidated(z)
<1>1. ViewRefreshed(v) = Requested(x)
  BY DEF ViewRefreshed
<1>2. /\ Differ(v, u, {"scroll", "recent", "restore", "sel", "anchor", "turn", "auto"})
      /\ u.scroll = [who |-> 0, what |-> "none", sched |-> FALSE] /\ u.recent = FALSE /\ u.restore = FALSE
      /\ u.sel = 0 /\ u.anchor = 0 /\ u.turn = 0 /\ u.auto = "off"
  BY DEF Switching, Shaped, Differ, Fields
<1> HIDE DEF u
<1>3. Shaped(u) /\ u.cbs = v.cbs /\ u.sched = v.sched /\ u.probe = v.probe
  BY <1>2 DEF Switching, Shaped, Differ, Fields
<1>4. Differ(u, y, {"cbs"}) /\ Shaped(y) /\ y.cbs = Stale(u.cbs, "scroll")
  BY <1>3, OutdatedIs DEF Kinds
<1> HIDE DEF y
<1>5. Differ(y, z, {"cbs"}) /\ Shaped(z) /\ z.cbs = Stale(y.cbs, "auto")
  BY <1>4, OutdatedIs DEF Kinds
<1> HIDE DEF z
<1>6. Differ(u, z, {"cbs"})
  BY <1>4, <1>5, DifferComposed
<1>7. Flagged(z)
  <2>1. v.cbs \in Seq(Callbacks) /\ FlushesFresh(v.cbs) /\ "scroll" \in Kinds /\ "auto" \in Kinds
    BY DEF Switching, Shaped, Flagged, Kinds
  <2>2. /\ FlushesFresh(y.cbs) /\ y.cbs \in Seq(Callbacks) /\ One(y.cbs, "scroll", FALSE)
        /\ \A j \in Kinds \ {"scroll"}, b \in BOOLEAN : One(v.cbs, j, b) => One(y.cbs, j, b)
    BY <1>3, <1>4, <2>1, OutdatedOne
  <2>3. /\ FlushesFresh(z.cbs) /\ One(z.cbs, "auto", FALSE)
        /\ \A j \in Kinds \ {"auto"}, b \in BOOLEAN : One(y.cbs, j, b) => One(z.cbs, j, b)
    BY <1>5, <2>1, <2>2, OutdatedOne
  <2>4. One(z.cbs, "scroll", FALSE)
    BY <2>2, <2>3 DEF Kinds
  <2>5. z.scroll.sched = FALSE /\ z.auto = "off" /\ z.sched = v.sched /\ z.probe = v.probe
    BY <1>2, <1>3, <1>6 DEF Shaped, Differ, Fields
  <2>6. One(z.cbs, "flush", z.sched = TRUE) /\ One(z.cbs, "probe", z.probe.sched = TRUE)
    BY <2>2, <2>3, <2>5 DEF Switching, Flagged, Kinds
  <2>7. One(z.cbs, "scroll", z.scroll.sched = TRUE) /\ One(z.cbs, "auto", z.auto = "scheduled")
    BY <2>3, <2>4, <2>5 DEF One
  <2>8. QED BY <2>3, <2>6, <2>7 DEF Flagged
<1>8. /\ z.active = v.active /\ z.by = v.by /\ z.tab = v.tab /\ z.applied = v.applied /\ z.surf = v.surf
      /\ z.defers = v.defers /\ z.ime = v.ime /\ z.bar = v.bar /\ z.sel = 0 /\ z.anchor = 0 /\ z.turn = 0
      /\ z.scroll = u.scroll /\ z.auto = "off" /\ z.recent = FALSE
  BY <1>2, <1>3, <1>6 DEF Shaped, Differ, Fields
<1>9. Owned(z)
  BY <1>2, <1>8 DEF Switching, Owned, Owner
<1>10. WindowInv(z)
  BY <1>5, <1>7, <1>9 DEF WindowInv
<1>11. /\ Differ(z, x, {"surf"}) /\ x.surf.rev = 0 /\ x.surf.val = 0 /\ x.surf.id = z.surf.id
       /\ DOMAIN x.surf = DOMAIN z.surf
  BY <1>5, InvalidatedIs
<1> HIDE DEF x
<1>12. WindowInv(x)
  BY <1>10, <1>11, SurfaceInert
<1>13. /\ WindowInv(Requested(x)) /\ Requested(x).sched = TRUE
       /\ Differ(x, Requested(x), {"pend", "sched", "defers", "cbs"})
  BY <1>12, RequestedSound
<1>14. Differ(z, Requested(x), {"surf", "pend", "sched", "defers", "cbs"})
  BY <1>11, <1>13, DifferComposed
<1>15. /\ Requested(x).auto = "off" /\ Requested(x).recent = FALSE /\ Requested(x).active = v.active
       /\ Requested(x).by = v.by /\ Requested(x).tab = v.tab /\ Requested(x).applied = v.applied
  BY <1>5, <1>8, <1>14 DEF Shaped, Differ, Fields
<1>16. Requested(x).surf = x.surf
  BY <1>12, <1>13 DEF WindowInv, Shaped, Differ, Fields
<1>17. QED BY <1>1, <1>8, <1>11, <1>13, <1>15, <1>16

(***************************************************************************)
(* The invariant of the pane: the sessions the window knows have a watcher *)
(* of its own or of another window (Known), what the surface says of the   *)
(* row it was painted from (RowsInv), that a window with nothing scheduled *)
(* shows the newest publication it was told of (Shown), and that the       *)
(* session the user selected has the geometry the window last applied      *)
(* (Told).                                                                 *)
(***************************************************************************)

SessionStates ==
  [rev : Nat, val : Nat \ {0}, err : BOOLEAN, screen : Screens, geo : 0 .. 2, foreign : BOOLEAN,
   token : BOOLEAN, watch : {"none", "me", "drained", "other"}]

Watched == {s \in Ids : ses[s].watch # "none"}

SessionsInv ==
  /\ win \in Sizes /\ events \in 0 .. MaxEvents
  /\ ses \in [Ids -> SessionStates] /\ \A s \in Ids : ses[s].rev # 0
  /\ live \subseteq Watched /\ recent \in Seq(Watched)

Known == w.active \in Watched \cup {0} /\ w.surf.id \in Watched \cup {0}

Row(f) == ses[w.surf.id][f]

RowsInv ==
  /\ w.surf.rev \in Nat /\ (w.surf.rev = 0 <=> w.surf.val = 0)
  /\ w.surf.val # 0 /\ w.surf.bumped # TRUE /\ Row("err") = FALSE =>
        /\ w.surf.rev <= Row("rev")
        /\ w.surf.rev = Row("rev") => w.surf.val = Row("val")
  /\ w.surf.val # 0 => w.surf.id # 0 /\ (w.surf.links = TRUE \/ w.restore = TRUE \/ w.surf.bumped = TRUE)
  /\ w.recent = TRUE => w.restore = TRUE

Rested == w.dirty # TRUE /\ w.sched # TRUE /\ w.tab = "terminal"

Current ==
  /\ w.surf.id = w.active /\ w.applied = win /\ w.surf.geo = win /\ w.surf.val # 0
  /\ w.surf.val = ses[w.active].val \/ w.surf.bumped = TRUE \/ ses[w.active].err = TRUE

Shown ==
  Rested /\ w.active \in live /\ ses[w.active].watch = "me" /\ ses[w.active].token = FALSE => Current

Told ==
  w.active \in live /\ w.by = "user" /\ ses[w.active].foreign = FALSE /\ ses[w.active].err = FALSE
  => w.applied = 0 \/ ses[w.active].geo = w.applied

PaneInv ==
  /\ SessionsInv /\ WindowInv(w) /\ w.auto # "armed"
  /\ Known /\ RowsInv /\ Shown /\ Told

LEMMA ActiveIs ==
  ASSUME PaneInv
  PROVE  /\ 0 \notin Ids /\ live \subseteq Ids
         /\ Active \in live \cup {0}
         /\ Active # 0 => Active = w.active /\ w.active \in live
         /\ Active = 0 => w.active \notin live
BY IdsAssumption DEF PaneInv, SessionsInv, Watched, Active

\* A flag that is set has one current closure, one that is not has none.
LEMMA ClosuresCounted ==
  ASSUME NEW k \in Kinds, NEW b \in BOOLEAN, w.cbs \in Seq(Callbacks), One(w.cbs, k, b)
  PROVE  Closures(k) = IF b THEN 1 ELSE 0
<1> DEFINE Q == {i \in DOMAIN w.cbs : w.cbs[i].kind = k /\ w.cbs[i].fresh}
<1>1. Closures(k) = Cardinality(Q)
  BY DEF Closures
<1>2. \A i \in DOMAIN w.cbs : w.cbs[i].fresh \in BOOLEAN
  <2>1. \A i \in DOMAIN w.cbs : w.cbs[i] \in Callbacks
    BY LenProperties, ElementOfSeq
  <2>2. QED BY <2>1 DEF Callbacks
<1>3. \A i \in DOMAIN w.cbs : i \in Q <=> Marked(w.cbs, i, k)
  BY <1>2 DEF Marked
<1>4. CASE b = TRUE
  <2>1. PICK i \in DOMAIN w.cbs : Marked(w.cbs, i, k)
    BY <1>4 DEF One
  <2>2. Q = {i}
    BY <1>3, <2>1 DEF One
  <2>3. QED BY <1>1, <1>4, <2>2, FS_Singleton
<1>5. CASE b = FALSE
  <2>1. Q = {}
    BY <1>3, <1>5 DEF One
  <2>2. QED BY <1>1, <1>5, <2>1, FS_EmptySet
<1>6. QED BY <1>4, <1>5

LEMMA PaneInvSound ==
  ASSUME PaneInv
  PROVE  WindowSound /\ SettledWindow
<1>1. PaneTypeOK
  <2>1. live \subseteq Ids /\ win \in Sizes /\ events \in 0 .. MaxEvents /\ ses \in [Ids -> SessionStates]
    BY ActiveIs DEF PaneInv, SessionsInv
  <2>2. recent \in Seq(Ids)
    BY SeqMonotonic DEF PaneInv, SessionsInv, Watched
  <2>3. /\ w.active \in Owner /\ w.applied \in 0 .. 2 /\ w.defers \in 0 .. MAX_FRAME_DEFERS
        /\ {w.sel, w.turn, w.anchor, w.ime, w.bar, w.scroll.who} \subseteq Owner
        /\ w.auto \in {"off", "armed", "scheduled"}
    BY DEF PaneInv, WindowInv, Owned, Owner
  <2>4. \A i \in DOMAIN w.cbs : w.cbs[i].kind \in {"flush", "geometry", "scroll", "auto", "probe"}
    <3>1. w.cbs \in Seq(Callbacks)
      BY DEF PaneInv, WindowInv, Shaped
    <3>2. \A i \in DOMAIN w.cbs : w.cbs[i] \in Callbacks
      BY <3>1, LenProperties, ElementOfSeq
    <3>3. QED BY <3>2 DEF Callbacks, Kinds
  <2>5. QED BY <2>1, <2>2, <2>3, <2>4 DEF PaneTypeOK, SessionStates
<1>2. GesturesFollowSession
  BY DEF PaneInv, WindowInv, Owned, GesturesFollowSession
<1>3. FlagsHaveClosures
  <2>1. w.cbs \in Seq(Callbacks)
    BY DEF PaneInv, WindowInv, Shaped
  <2>2. Closures("flush") = IF w.sched = TRUE THEN 1 ELSE 0
    BY <2>1, ClosuresCounted DEF PaneInv, WindowInv, Flagged, Kinds
  <2>3. Closures("scroll") = IF w.scroll.sched = TRUE THEN 1 ELSE 0
    BY <2>1, ClosuresCounted DEF PaneInv, WindowInv, Flagged, Kinds
  <2>4. Closures("auto") = IF w.auto = "scheduled" THEN 1 ELSE 0
    BY <2>1, ClosuresCounted DEF PaneInv, WindowInv, Flagged, Kinds
  <2>5. Closures("probe") = IF w.probe.sched = TRUE THEN 1 ELSE 0
    BY <2>1, ClosuresCounted DEF PaneInv, WindowInv, Flagged, Kinds
  <2>6. w.auto # "armed"
    BY DEF PaneInv
  <2>7. QED BY <2>2, <2>3, <2>4, <2>5, <2>6 DEF FlagsHaveClosures
<1>4. ASSUME Settled
      PROVE  Current /\ Active = w.active /\ w.active \in live
  <2>1. /\ Active # 0 /\ Active = w.active /\ w.active \in live /\ ses[Active].watch = "me" /\ ~ses[Active].token
        /\ Rested
    BY <1>4, ActiveIs DEF Settled, Rested
  <2>2. ses[w.active].token = FALSE
    BY <2>1, ActiveIs DEF PaneInv, SessionsInv, SessionStates
  <2>3. QED BY <2>1, <2>2 DEF PaneInv, Shown
<1>5. SettledIsCurrent
  <2>1. SUFFICES ASSUME Settled
                 PROVE  /\ w.surf.id = w.active /\ w.applied = win /\ w.surf.geo = win
                        /\ w.surf.val = ses[Active].val \/ w.surf.bumped \/ ses[Active].err
                        /\ w.surf.links \/ w.recent \/ w.restore \/ w.surf.bumped
    BY DEF SettledIsCurrent
  <2>2. QED BY <1>4, <2>1 DEF PaneInv, RowsInv, Current
<1>6. SelectedHasGeometry
  <2>1. SUFFICES ASSUME Settled, w.by = "user", ~ses[Active].foreign, ~ses[Active].err
                 PROVE  ses[Active].geo = win
    BY DEF SelectedHasGeometry
  <2>2. Current /\ Active = w.active /\ w.active \in live
    BY <1>4, <2>1
  <2>3. ses[w.active].foreign = FALSE /\ ses[w.active].err = FALSE
    BY <2>1, <2>2, ActiveIs DEF PaneInv, SessionsInv, SessionStates
  <2>4. w.applied = 0 \/ ses[w.active].geo = w.applied
    BY <2>1, <2>2, <2>3 DEF PaneInv, Told
  <2>5. w.applied = win /\ win # 0
    BY <2>2 DEF Current, PaneInv, SessionsInv, Sizes
  <2>6. QED BY <2>2, <2>4, <2>5
<1>7. QED BY <1>1, <1>2, <1>3, <1>5, <1>6 DEF WindowSound, SettledWindow

\* A step of the window alone that keeps what the surface depends on.
LEMMA WindowStep ==
  ASSUME PaneInv, UNCHANGED <<live, recent, ses, win>>, events' \in 0 .. MaxEvents,
         WindowInv(w'), w'.auto # "armed", \A f \in {"active", "by", "applied", "surf"} : w'[f] = w[f],
         w'.restore = w.restore \/ w'.restore = TRUE, w'.recent = TRUE => w'.restore = TRUE,
         Rested' => Rested
  PROVE  PaneInv'
<1>1. w'.active = w.active /\ w'.by = w.by /\ w'.applied = w.applied /\ w'.surf = w.surf
  OBVIOUS
<1>2. SessionsInv' /\ Known' /\ Told'
  BY <1>1 DEF PaneInv, SessionsInv, Watched, Known, Told
<1>3. RowsInv'
  BY <1>1 DEF PaneInv, RowsInv, Row
<1>4. Shown'
  BY <1>1 DEF PaneInv, Shown, Current
<1>5. QED BY <1>2, <1>3, <1>4 DEF PaneInv

\* What session.resize changes.
LEMMA ToldGeometryIs ==
  ASSUME PaneInv, NEW s \in Ids, NEW geo \in 0 .. 2
  PROVE  LET t == ToldGeometry(s, geo)
         IN /\ t \in [Ids -> SessionStates]
            /\ \A r \in Ids : /\ t[r].rev = ses[r].rev /\ t[r].val = ses[r].val /\ t[r].err = ses[r].err
                              /\ t[r].screen = ses[r].screen /\ t[r].token = ses[r].token
                              /\ t[r].watch = ses[r].watch
            /\ \A r \in Ids \ {s} : t[r].geo = ses[r].geo /\ t[r].foreign = ses[r].foreign
            /\ s \in live /\ ses[s].err = FALSE => t[s].geo = geo /\ t[s].foreign = FALSE
<1> DEFINE x == [ses[s] EXCEPT !.geo = geo, !.foreign = FALSE]
           t == [ses EXCEPT ![s].geo = geo, ![s].foreign = FALSE]
<1>1. ses \in [Ids -> SessionStates] /\ ses[s] \in SessionStates /\ ses[s].err \in BOOLEAN
  BY DEF PaneInv, SessionsInv, SessionStates
<1>2. geo \in 0 .. 2 /\ FALSE \in BOOLEAN
  OBVIOUS
<1>3. x \in SessionStates
  BY <1>1, <1>2, Zenon DEF SessionStates
<1>4. t = [ses EXCEPT ![s] = x]
  BY <1>1 DEF SessionStates
<1>5. /\ x.rev = ses[s].rev /\ x.val = ses[s].val /\ x.err = ses[s].err /\ x.screen = ses[s].screen
      /\ x.token = ses[s].token /\ x.watch = ses[s].watch /\ x.geo = geo /\ x.foreign = FALSE
  BY <1>1 DEF SessionStates
<1> HIDE DEF x
<1>6. t \in [Ids -> SessionStates] /\ t[s] = x /\ \A r \in Ids \ {s} : t[r] = ses[r]
  BY <1>1, <1>3, <1>4
<1> HIDE DEF t
<1>7. CASE s \in live /\ ~ses[s].err
  <2>1. ToldGeometry(s, geo) = t
    BY <1>7 DEF ToldGeometry, t
  <2>2. QED BY <1>5, <1>6, <2>1
<1>8. CASE ~(s \in live /\ ~ses[s].err)
  <2>1. ToldGeometry(s, geo) = ses
    BY <1>8 DEF ToldGeometry
  <2>2. QED BY <1>1, <1>8, <2>1
<1>9. QED BY <1>7, <1>8

\* A window that a handler passes on with the surface, the gestures and the closures sound.
Fine(v, u) == WindowInv(u) /\ Kept(v, u) /\ (v.auto # "armed" => u.auto # "armed")

LEMMA FineComposed ==
  ASSUME NEW v, NEW u, NEW x, Fine(v, u), Fine(u, x)
  PROVE  Fine(v, x)
BY KeptComposed DEF Fine

LEMMA FineHandlers ==
  ASSUME NEW v, WindowInv(v)
  PROVE  /\ Fine(v, v) /\ Fine(v, Requested(v)) /\ Fine(v, Notified(v))
         /\ Fine(v, AutoStopped(v)) /\ Fine(v, AutoScheduled(v))
         /\ \A what : Fine(v, ScrollQueued(v, what))
         /\ \A on \in BOOLEAN : Fine(v, PerfMode(v, on))
<1>1. Fine(v, v)
  BY DEF Fine, Kept
<1>2. Fine(v, Requested(v))
  BY RequestedSound DEF Fine, WindowInv, Shaped, Differ, Fields
<1>3. Fine(v, Notified(v))
  BY NotifiedSound DEF Fine, WindowInv, Shaped, Differ, Fields
<1>4. Fine(v, AutoStopped(v))
  BY AutoStoppedSound DEF Fine
<1>5. Fine(v, AutoScheduled(v))
  BY AutoScheduledSound DEF Fine
<1>6. ASSUME NEW what PROVE Fine(v, ScrollQueued(v, what))
  BY ScrollQueuedSound DEF Fine, WindowInv, Shaped, Differ, Fields
<1>7. ASSUME NEW on \in BOOLEAN PROVE Fine(v, PerfMode(v, on))
  <2> DEFINE x == PerfMode(v, on)
  <2>1. WindowInv(x) /\ Kept(v, x) /\ Differ(v, x, {"probe", "cbs", "dirty", "pend", "sched", "defers"})
    BY PerfModeSound, Zenon
  <2> HIDE DEF x
  <2>2. x.auto = v.auto
    BY <2>1 DEF WindowInv, Shaped, Differ, Fields
  <2>3. Fine(v, x)
    BY <2>1, <2>2 DEF Fine
  <2>4. QED BY <2>3 DEF x
<1>8. QED BY <1>1, <1>2, <1>3, <1>4, <1>5, <1>6, <1>7

LEMMA FineStep ==
  ASSUME PaneInv, UNCHANGED <<live, recent, ses, win>>, events' \in 0 .. MaxEvents, Fine(w, w')
  PROVE  PaneInv'
<1>1. /\ WindowInv(w') /\ w'.auto # "armed" /\ \A f \in {"active", "by", "applied", "surf"} : w'[f] = w[f]
      /\ w'.restore = w.restore /\ (w'.recent = TRUE => w'.restore = TRUE)
  BY DEF Fine, Kept, Pane, PaneInv, RowsInv
<1>2. w'.tab = w.tab /\ (w.sched = TRUE => w'.sched = TRUE) /\ (w.dirty = TRUE => w'.dirty = TRUE)
  BY DEF Fine, Kept, Pane
<1>3. Rested' => Rested
  BY <1>2 DEF Rested
<1>4. QED BY <1>1, <1>3, WindowStep

LEMMA FineEvent ==
  ASSUME PaneInv, NEW v, WindowEvent(v), Fine(w, v)
  PROVE  PaneInv'
<1>1. UNCHANGED <<live, recent, ses, win>> /\ w' = v /\ events < MaxEvents /\ events' = events + 1
  BY DEF WindowEvent, Event
<1>2. events' \in 0 .. MaxEvents
  BY <1>1, PaneBoundsAssumption DEF PaneInv, SessionsInv
<1>3. Fine(w, w')
  BY <1>1
<1>4. QED BY <1>1, <1>2, <1>3, FineStep

\* A handler that sets gestures to the active session, or ends them.
LEMMA GesturesFine ==
  ASSUME NEW v, NEW u, WindowInv(v), Differ(v, u, {"sel", "anchor", "turn", "ime", "bar", "hover"}),
         {u.sel, u.anchor, u.turn, u.ime} \subseteq {0, v.active}, u.bar \in Owner
  PROVE  Fine(v, u)
<1>1. /\ DOMAIN u = Fields /\ u.surf = v.surf /\ u.scroll = v.scroll /\ u.probe = v.probe /\ u.cbs = v.cbs
      /\ u.active = v.active /\ u.applied = v.applied /\ u.defers = v.defers /\ u.auto = v.auto /\ u.sched = v.sched
      /\ Kept(v, u)
  BY DEF WindowInv, Shaped, Differ, Fields, Kept, Pane
<1>2. WindowInv(u)
  <2>1. Shaped(u) /\ Owned(u)
    BY <1>1 DEF WindowInv, Shaped, Owned
  <2>2. Flagged(u)
    BY <1>1, SameFlags DEF WindowInv
  <2>3. QED BY <2>1, <2>2 DEF WindowInv
<1>3. QED BY <1>1, <1>2 DEF Fine

LEMMA WindowShaped ==
  ASSUME PaneInv
  PROVE  /\ WindowInv(w) /\ DOMAIN w = Fields /\ w.active \in Owner /\ 0 \in Owner /\ w.bar \in Owner
         /\ {w.sel, w.anchor, w.turn, w.ime} \subseteq {0, w.active}
BY DEF PaneInv, WindowInv, Shaped, Owned, Owner

LEMMA ScrollWheelSound ==
  ASSUME PaneInv, NEW what \in {"part", "rows"}, ScrollWheel(what)
  PROVE  PaneInv'
<1> DEFINE u == [w EXCEPT !.sel = IF w.anchor # 0 THEN w.active ELSE @]
           x == [w EXCEPT !.scroll.what = "none"]
<1>1. Fine(w, Requested(w))
  BY WindowShaped, FineHandlers
<1>2. Fine(w, ScrollQueued(u, what))
  <2>1. Differ(w, u, {"sel", "anchor", "turn", "ime", "bar", "hover"}) /\ u.sel \in {0, w.active}
        /\ u.anchor = w.anchor /\ u.turn = w.turn /\ u.ime = w.ime /\ u.bar = w.bar
    BY WindowShaped DEF Differ, Fields
  <2> HIDE DEF u
  <2>2. Fine(w, u)
    BY <2>1, WindowShaped, GesturesFine
  <2>3. Fine(u, ScrollQueued(u, what))
    BY <2>2, FineHandlers DEF Fine
  <2>4. QED BY <2>2, <2>3, FineComposed
<1>3. Fine(w, x)
  <2>1. Differ(w, x, {"scroll"}) /\ DOMAIN x.scroll = DOMAIN w.scroll /\ x.scroll.who = w.scroll.who
        /\ x.scroll.what = "none" /\ x.scroll.sched = w.scroll.sched
    BY WindowShaped DEF Differ, Fields, WindowInv, Shaped
  <2> HIDE DEF x
  <2>2. /\ DOMAIN x = Fields /\ x.surf = w.surf /\ x.probe = w.probe /\ x.cbs = w.cbs
        /\ x.active = w.active /\ x.applied = w.applied /\ x.defers = w.defers /\ x.auto = w.auto /\ x.sched = w.sched
        /\ x.sel = w.sel /\ x.turn = w.turn /\ x.anchor = w.anchor /\ x.ime = w.ime /\ x.bar = w.bar
        /\ Kept(w, x)
    BY <2>1, WindowShaped DEF Differ, Fields, Kept, Pane
  <2>3. Flagged(x)
    BY <2>1, <2>2, WindowShaped, SameFlags DEF WindowInv
  <2>4. QED BY <2>1, <2>2, <2>3, WindowShaped DEF WindowInv, Shaped, Owned, Fine
<1>4. PICK v \in {Requested(w), x, ScrollQueued(u, what)} : WindowEvent(v)
  BY DEF ScrollWheel
<1> HIDE DEF u, x
<1>5. QED BY <1>1, <1>2, <1>3, <1>4, FineEvent

LEMMA MouseDownSound ==
  ASSUME PaneInv, NEW hit \in {"thumb", "track", "link", "word", "text"}, MouseDown(hit)
  PROVE  PaneInv'
<1> DEFINE v == AutoStopped(w)
           thumb == [v EXCEPT !.bar = w.active]
           link == [v EXCEPT !.anchor = 0, !.hover = 0]
           word == [v EXCEPT !.turn = 0, !.hover = 0, !.sel = w.active, !.anchor = 0]
           text == [v EXCEPT !.turn = 0, !.hover = 0, !.sel = w.active, !.anchor = w.active]
           other == [v EXCEPT !.hover = 0, !.bar = 0, !.sel = 0, !.anchor = 0]
<1>1. PICK x \in {thumb, ScrollQueued(thumb, "rows"), link, word, text, other} : WindowEvent(Requested(x))
  <2>1. CASE hit = "thumb"
    BY <2>1 DEF MouseDown
  <2>2. CASE hit = "track"
    BY <2>2 DEF MouseDown
  <2>3. CASE hit = "link"
    BY <2>3 DEF MouseDown
  <2>4. CASE hit = "word" /\ Screen # "tracking"
    BY <2>4 DEF MouseDown
  <2>5. CASE hit = "text" /\ Screen # "tracking"
    BY <2>5 DEF MouseDown
  <2>6. CASE hit \in {"word", "text"} /\ Screen = "tracking"
    BY <2>6 DEF MouseDown
  <2>7. QED BY <2>1, <2>2, <2>3, <2>4, <2>5, <2>6
<1>2. Fine(w, v)
  BY WindowShaped, FineHandlers
<1> HIDE DEF v
<1>3. /\ WindowInv(v) /\ DOMAIN v = Fields /\ v.active = w.active /\ v.active \in Owner /\ v.bar \in Owner
      /\ {v.sel, v.anchor, v.turn, v.ime} \subseteq {0, v.active} /\ 0 \in Owner
  BY <1>2, WindowShaped DEF Fine, Kept, Pane, WindowInv, Shaped, Owned
<1>4. Fine(v, thumb)
  <2>1. Differ(v, thumb, {"sel", "anchor", "turn", "ime", "bar", "hover"}) /\ thumb.bar = v.active
        /\ thumb.sel = v.sel /\ thumb.anchor = v.anchor /\ thumb.turn = v.turn /\ thumb.ime = v.ime
    BY <1>3 DEF Differ, Fields
  <2> HIDE DEF thumb
  <2>2. QED BY <1>3, <2>1, GesturesFine
<1>5. Fine(v, link)
  <2>1. Differ(v, link, {"sel", "anchor", "turn", "ime", "bar", "hover"}) /\ link.bar = v.bar
        /\ link.sel = v.sel /\ link.anchor = 0 /\ link.turn = v.turn /\ link.ime = v.ime
    BY <1>3 DEF Differ, Fields
  <2> HIDE DEF link
  <2>2. QED BY <1>3, <2>1, GesturesFine
<1>6. Fine(v, word)
  <2>1. Differ(v, word, {"sel", "anchor", "turn", "ime", "bar", "hover"}) /\ word.bar = v.bar
        /\ word.sel = v.active /\ word.anchor = 0 /\ word.turn = 0 /\ word.ime = v.ime
    BY <1>3 DEF Differ, Fields
  <2> HIDE DEF word
  <2>2. QED BY <1>3, <2>1, GesturesFine
<1>7. Fine(v, text)
  <2>1. Differ(v, text, {"sel", "anchor", "turn", "ime", "bar", "hover"}) /\ text.bar = v.bar
        /\ text.sel = v.active /\ text.anchor = v.active /\ text.turn = 0 /\ text.ime = v.ime
    BY <1>3 DEF Differ, Fields
  <2> HIDE DEF text
  <2>2. QED BY <1>3, <2>1, GesturesFine
<1>8. Fine(v, other)
  <2>1. Differ(v, other, {"sel", "anchor", "turn", "ime", "bar", "hover"}) /\ other.bar = 0
        /\ other.sel = 0 /\ other.anchor = 0 /\ other.turn = v.turn /\ other.ime = v.ime
    BY <1>3 DEF Differ, Fields
  <2> HIDE DEF other
  <2>2. QED BY <1>3, <2>1, GesturesFine
<1> HIDE DEF thumb, link, word, text, other
<1>9. Fine(thumb, ScrollQueued(thumb, "rows"))
  BY <1>4, FineHandlers DEF Fine
<1>10. Fine(v, x)
  BY <1>1, <1>4, <1>5, <1>6, <1>7, <1>8, <1>9, FineComposed
<1>11. Fine(x, Requested(x))
  BY <1>10, FineHandlers DEF Fine
<1>12. Fine(w, Requested(x))
  <2>1. Fine(w, x)
    BY <1>2, <1>10, FineComposed
  <2>2. QED BY <1>11, <2>1, FineComposed
<1>13. QED BY <1>1, <1>12, FineEvent

\* A gesture, or its end, of which the handler does nothing more than request a repaint.
LEMMA PlainEvent ==
  ASSUME PaneInv, NEW u, Differ(w, u, {"sel", "anchor", "turn", "ime", "bar", "hover"}),
         {u.sel, u.anchor, u.turn, u.ime} \subseteq {0, w.active}, u.bar \in Owner,
         WindowEvent(u) \/ WindowEvent(Requested(u)) \/ WindowEvent(Notified(u))
  PROVE  PaneInv'
<1>1. Fine(w, u)
  BY WindowShaped, GesturesFine
<1>2. Fine(u, Requested(u)) /\ Fine(u, Notified(u))
  BY <1>1, FineHandlers DEF Fine
<1>3. Fine(w, Requested(u)) /\ Fine(w, Notified(u))
  BY <1>1, <1>2, FineComposed
<1>4. QED BY <1>1, <1>3, FineEvent

LEMMA KeySound ==
  ASSUME PaneInv, ScrollbackKey
  PROVE  PaneInv'
<1>1. Differ(w, w, {"sel", "anchor", "turn", "ime", "bar", "hover"}) /\ WindowEvent(Requested(w))
  BY DEF Differ, ScrollbackKey
<1>2. QED BY <1>1, WindowShaped, PlainEvent

LEMMA ModifiersChangedSound ==
  ASSUME PaneInv, ModifiersChanged
  PROVE  PaneInv'
<1> DEFINE u == [w EXCEPT !.hover = IF w.recent THEN 0 ELSE @]
<1>1. WindowEvent(Notified(u))
  BY DEF ModifiersChanged
<1>2. Differ(w, u, {"sel", "anchor", "turn", "ime", "bar", "hover"}) /\ u.bar = w.bar
      /\ u.sel = w.sel /\ u.anchor = w.anchor /\ u.turn = w.turn /\ u.ime = w.ime
  BY WindowShaped DEF Differ, Fields
<1> HIDE DEF u
<1>3. QED BY <1>1, <1>2, WindowShaped, PlainEvent

LEMMA ComposeSound ==
  ASSUME PaneInv, Compose \/ Commit
  PROVE  PaneInv'
<1>1. PICK o \in {0, w.active} : WindowEvent(Notified([w EXCEPT !.ime = o]))
  BY DEF Compose, Commit
<1> DEFINE u == [w EXCEPT !.ime = o]
<1>2. Differ(w, u, {"sel", "anchor", "turn", "ime", "bar", "hover"}) /\ u.bar = w.bar
      /\ u.sel = w.sel /\ u.anchor = w.anchor /\ u.turn = w.turn /\ u.ime = o
  BY WindowShaped DEF Differ, Fields
<1>3. WindowEvent(Notified(u))
  BY <1>1
<1> HIDE DEF u
<1>4. QED BY <1>2, <1>3, WindowShaped, PlainEvent

LEMMA PreviousTurnSound ==
  ASSUME PaneInv, CopyPreviousTurn \/ \E found \in BOOLEAN : SelectPreviousTurn(found)
  PROVE  PaneInv'
<1>1. CASE WindowEvent(Notified([w EXCEPT !.sel = 0, !.anchor = 0, !.turn = w.active]))
  <2> DEFINE u == [w EXCEPT !.sel = 0, !.anchor = 0, !.turn = w.active]
  <2>1. Differ(w, u, {"sel", "anchor", "turn", "ime", "bar", "hover"}) /\ u.bar = w.bar
        /\ u.sel = 0 /\ u.anchor = 0 /\ u.turn = w.active /\ u.ime = w.ime
    BY WindowShaped DEF Differ, Fields
  <2>2. WindowEvent(Notified(u))
    BY <1>1
  <2> HIDE DEF u
  <2>3. QED BY <2>1, <2>2, WindowShaped, PlainEvent
<1>2. CASE \E o \in {0, w.active} : WindowEvent(Notified([w EXCEPT !.turn = o]))
  <2>1. PICK o \in {0, w.active} : WindowEvent(Notified([w EXCEPT !.turn = o]))
    BY <1>2
  <2> DEFINE u == [w EXCEPT !.turn = o]
  <2>2. Differ(w, u, {"sel", "anchor", "turn", "ime", "bar", "hover"}) /\ u.bar = w.bar
        /\ u.sel = w.sel /\ u.anchor = w.anchor /\ u.turn = o /\ u.ime = w.ime
    BY WindowShaped DEF Differ, Fields
  <2>3. WindowEvent(Notified(u))
    BY <2>1
  <2> HIDE DEF u
  <2>4. QED BY <2>2, <2>3, WindowShaped, PlainEvent
<1>3. QED BY <1>1, <1>2 DEF CopyPreviousTurn, SelectPreviousTurn

LEMMA MouseUpSound ==
  ASSUME PaneInv, MouseUp
  PROVE  PaneInv'
<1> DEFINE u == [w EXCEPT !.anchor = 0, !.bar = 0]
           v == AutoStopped(u)
           x == [v EXCEPT !.hover = 0]
<1>1. WindowEvent(x) \/ WindowEvent(Requested(v))
  BY DEF MouseUp
<1>2. Fine(w, u)
  <2>1. Differ(w, u, {"sel", "anchor", "turn", "ime", "bar", "hover"}) /\ u.bar = 0
        /\ u.sel = w.sel /\ u.anchor = 0 /\ u.turn = w.turn /\ u.ime = w.ime
    BY WindowShaped DEF Differ, Fields
  <2> HIDE DEF u
  <2>2. QED BY <2>1, WindowShaped, GesturesFine
<1> HIDE DEF u
<1>3. Fine(u, v)
  BY <1>2, FineHandlers DEF Fine
<1> HIDE DEF v
<1>4. Fine(w, v)
  BY <1>2, <1>3, FineComposed
<1>5. /\ WindowInv(v) /\ DOMAIN v = Fields /\ v.bar \in Owner
      /\ {v.sel, v.anchor, v.turn, v.ime} \subseteq {0, v.active}
  BY <1>4 DEF Fine, WindowInv, Shaped, Owned
<1>6. Fine(v, x)
  <2>1. Differ(v, x, {"sel", "anchor", "turn", "ime", "bar", "hover"}) /\ x.bar = v.bar
        /\ x.sel = v.sel /\ x.anchor = v.anchor /\ x.turn = v.turn /\ x.ime = v.ime
    BY <1>5 DEF Differ, Fields
  <2> HIDE DEF x
  <2>2. QED BY <1>5, <2>1, GesturesFine
<1> HIDE DEF x
<1>7. Fine(v, Requested(v))
  BY <1>4, FineHandlers DEF Fine
<1>8. Fine(w, x) /\ Fine(w, Requested(v))
  BY <1>4, <1>6, <1>7, FineComposed
<1>9. QED BY <1>1, <1>8, FineEvent

LEMMA HoverFine ==
  ASSUME NEW v, WindowInv(v), NEW h
  PROVE  Fine(v, [v EXCEPT !.hover = h])
<1> DEFINE x == [v EXCEPT !.hover = h]
<1>1. /\ v.bar \in Owner /\ {v.sel, v.anchor, v.turn, v.ime} \subseteq {0, v.active}
  BY DEF WindowInv, Owned
<1>2. Differ(v, x, {"sel", "anchor", "turn", "ime", "bar", "hover"}) /\ x.bar = v.bar
      /\ x.sel = v.sel /\ x.anchor = v.anchor /\ x.turn = v.turn /\ x.ime = v.ime
  BY DEF Differ, Fields, WindowInv, Shaped
<1> HIDE DEF x
<1>3. Fine(v, x)
  BY <1>1, <1>2, GesturesFine
<1>4. QED BY <1>3 DEF x

\* The drag leaves the viewport: its auto-scroll loop is armed and scheduled at once.
LEMMA ArmedFine ==
  ASSUME NEW v, WindowInv(v), v.auto = "off"
  PROVE  Fine(v, AutoScheduled([Outdated(v, "auto") EXCEPT !.sel = v.active, !.auto = "armed"]))
<1> DEFINE z == Outdated(v, "auto")
           x == [z EXCEPT !.sel = v.active, !.auto = "armed"]
<1>1. Differ(v, z, {"cbs"}) /\ Shaped(z) /\ z.cbs = Stale(v.cbs, "auto")
  BY OutdatedIs DEF WindowInv, Kinds
<1> HIDE DEF z
<1>2. Differ(z, x, {"sel", "auto"}) /\ x.sel = v.active /\ x.auto = "armed"
  BY <1>1 DEF Shaped, Differ, Fields
<1> HIDE DEF x
<1>3. Differ(v, x, {"cbs", "sel", "auto"})
  BY <1>1, <1>2, DifferComposed
<1>4. /\ DOMAIN x = Fields /\ x.surf = v.surf /\ x.scroll = v.scroll /\ x.probe = v.probe /\ x.cbs = z.cbs
      /\ x.active = v.active /\ x.applied = v.applied /\ x.defers = v.defers /\ x.sched = v.sched
      /\ x.turn = v.turn /\ x.anchor = v.anchor /\ x.ime = v.ime /\ x.bar = v.bar /\ Kept(v, x)
  BY <1>1, <1>2, <1>3 DEF WindowInv, Shaped, Differ, Fields, Kept, Pane
<1>5. Shaped(x) /\ Owned(x)
  BY <1>1, <1>2, <1>4 DEF WindowInv, Shaped, Owned
<1>6. Flagged(x)
  BY <1>1, <1>2, <1>4, ResetFlags DEF WindowInv
<1>7. /\ WindowInv(AutoScheduled(x)) /\ Kept(x, AutoScheduled(x)) /\ AutoScheduled(x).auto # "armed"
  BY <1>5, <1>6, AutoScheduledSound DEF WindowInv
<1>8. Kept(v, AutoScheduled(x))
  BY <1>4, <1>7, KeptComposed
<1>9. Fine(v, AutoScheduled(x))
  BY <1>7, <1>8 DEF Fine
<1>10. QED BY <1>9 DEF x, z

LEMMA MouseMoveSound ==
  ASSUME PaneInv, NEW to \in {"inside", "outside", "link"}, MouseMove(to)
  PROVE  PaneInv'
<1> DEFINE s == AutoStopped(w)
           h(r) == [s EXCEPT !.hover = r]
           nobar == [h(0) EXCEPT !.bar = 0]
           v == [w EXCEPT !.hover = 0]
           x == [v EXCEPT !.sel = w.active]
           armed == [Outdated(v, "auto") EXCEPT !.sel = w.active, !.auto = "armed"]
<1>1. \/ WindowEvent(Requested(ScrollQueued(h(0), "rows"))) \/ WindowEvent(Requested(nobar))
      \/ WindowEvent(Requested(h(0))) \/ WindowEvent(Requested(h(ses[Active].rev)))
      \/ WindowEvent(AutoStopped(v)) \/ WindowEvent(Requested(AutoStopped(x)))
      \/ WindowEvent(Requested(AutoScheduled(x)))
      \/ v.auto = "off" /\ WindowEvent(Requested(AutoScheduled(armed)))
  <2>1. CASE w.bar # 0
    BY <2>1 DEF MouseMove
  <2>2. CASE w.bar = 0 /\ Screen = "tracking"
    BY <2>2 DEF MouseMove
  <2>3. CASE w.bar = 0 /\ Screen # "tracking" /\ to = "link"
    BY <2>3 DEF MouseMove
  <2>4. CASE w.bar = 0 /\ Screen # "tracking" /\ to # "link" /\ (w.anchor = 0 \/ w.surf.geo = 0)
    BY <2>4 DEF MouseMove
  <2>5. CASE w.bar = 0 /\ Screen # "tracking" /\ to # "link" /\ ~(w.anchor = 0 \/ w.surf.geo = 0)
    <3>1. CASE to = "inside"
      BY <2>5, <3>1 DEF MouseMove
    <3>2. CASE to # "inside" /\ v.auto # "off"
      BY <2>5, <3>2 DEF MouseMove
    <3>3. CASE to # "inside" /\ v.auto = "off"
      BY <2>5, <3>3 DEF MouseMove
    <3>4. QED BY <3>1, <3>2, <3>3
  <2>6. QED BY <2>1, <2>2, <2>3, <2>4, <2>5
<1>2. Fine(w, s)
  BY WindowShaped, FineHandlers
<1> HIDE DEF s
<1>3. ASSUME NEW r PROVE Fine(w, h(r)) /\ Fine(w, Requested(h(r)))
  <2>1. Fine(s, h(r))
    BY <1>2, HoverFine DEF Fine
  <2>2. Fine(w, h(r))
    BY <1>2, <2>1, FineComposed
  <2>3. Fine(h(r), Requested(h(r)))
    BY <2>2, FineHandlers DEF Fine
  <2>4. QED BY <2>2, <2>3, FineComposed
<1>4. Fine(w, Requested(ScrollQueued(h(0), "rows")))
  <2> DEFINE a == h(0)
             b == ScrollQueued(a, "rows")
  <2>1. Fine(w, a)
    BY <1>3
  <2> HIDE DEF a
  <2>2. Fine(a, b)
    BY <2>1, FineHandlers DEF Fine
  <2> HIDE DEF b
  <2>3. Fine(w, b)
    BY <2>1, <2>2, FineComposed
  <2>4. Fine(b, Requested(b))
    BY <2>3, FineHandlers DEF Fine
  <2>5. Fine(w, Requested(b))
    BY <2>3, <2>4, FineComposed
  <2>6. QED BY <2>5 DEF a, b
<1>5. Fine(w, Requested(nobar))
  <2> DEFINE a == h(0)
             b == [a EXCEPT !.bar = 0]
  <2>1. Fine(w, a)
    BY <1>3
  <2> HIDE DEF a
  <2>2. /\ WindowInv(a) /\ DOMAIN a = Fields /\ 0 \in Owner
        /\ {a.sel, a.anchor, a.turn, a.ime} \subseteq {0, a.active}
    BY <2>1 DEF Fine, WindowInv, Shaped, Owned, Owner
  <2>3. Differ(a, b, {"sel", "anchor", "turn", "ime", "bar", "hover"}) /\ b.bar = 0
        /\ b.sel = a.sel /\ b.anchor = a.anchor /\ b.turn = a.turn /\ b.ime = a.ime
    BY <2>2 DEF Differ, Fields
  <2> HIDE DEF b
  <2>4. Fine(a, b)
    BY <2>2, <2>3, GesturesFine
  <2>5. Fine(w, b)
    BY <2>1, <2>4, FineComposed
  <2>6. Fine(b, Requested(b))
    BY <2>5, FineHandlers DEF Fine
  <2>7. Fine(w, Requested(b))
    BY <2>5, <2>6, FineComposed
  <2>8. QED BY <2>7 DEF a, b
<1>6. Fine(w, v) /\ Fine(w, x)
  <2>1. Fine(w, v)
    BY WindowShaped, HoverFine
  <2>2. Differ(w, x, {"sel", "anchor", "turn", "ime", "bar", "hover"}) /\ x.bar = w.bar
        /\ x.sel = w.active /\ x.anchor = w.anchor /\ x.turn = w.turn /\ x.ime = w.ime
    BY WindowShaped DEF Differ, Fields
  <2> HIDE DEF x, v
  <2>3. QED BY <2>1, <2>2, WindowShaped, GesturesFine
<1>7. v.active = w.active
  BY WindowShaped DEF Fields
<1> HIDE DEF v, x
<1>8. Fine(w, AutoStopped(v)) /\ Fine(w, Requested(AutoStopped(x))) /\ Fine(w, Requested(AutoScheduled(x)))
  <2>1. Fine(v, AutoStopped(v)) /\ Fine(x, AutoStopped(x)) /\ Fine(x, AutoScheduled(x))
    BY <1>6, FineHandlers DEF Fine
  <2>2. Fine(w, AutoStopped(v)) /\ Fine(w, AutoStopped(x)) /\ Fine(w, AutoScheduled(x))
    BY <1>6, <2>1, FineComposed
  <2>3. /\ Fine(AutoStopped(x), Requested(AutoStopped(x))) /\ Fine(AutoScheduled(x), Requested(AutoScheduled(x)))
    BY <2>2, FineHandlers DEF Fine
  <2>4. QED BY <2>2, <2>3, FineComposed
<1>9. v.auto = "off" => Fine(w, Requested(AutoScheduled(armed)))
  <2> DEFINE a == AutoScheduled(armed)
  <2>1. SUFFICES ASSUME v.auto = "off" PROVE Fine(w, Requested(a))
    OBVIOUS
  <2>2. Fine(v, a)
    BY <1>6, <1>7, <2>1, ArmedFine DEF Fine
  <2> HIDE DEF a
  <2>3. Fine(w, a)
    BY <1>6, <2>2, FineComposed
  <2>4. Fine(a, Requested(a))
    BY <2>3, FineHandlers DEF Fine
  <2>5. QED BY <2>3, <2>4, FineComposed
<1>10. Fine(w, Requested(h(0))) /\ Fine(w, Requested(h(ses[Active].rev)))
  BY <1>3
<1> HIDE DEF h, nobar, armed
<1>11. QED BY <1>1, <1>4, <1>5, <1>8, <1>9, <1>10, FineEvent

LEMMA PerfAndTabSound ==
  ASSUME PaneInv, TogglePerf \/ \E tab \in {"terminal", "other"} : ShowTab(tab)
  PROVE  PaneInv'
<1>1. CASE TogglePerf
  <2>1. PICK on \in BOOLEAN : WindowEvent(PerfMode(w, on))
    <3>1. (~w.probe.on) \in BOOLEAN
      OBVIOUS
    <3>2. QED BY <1>1, <3>1 DEF TogglePerf
  <2>2. Fine(w, PerfMode(w, on))
    BY WindowShaped, FineHandlers
  <2>3. QED BY <2>1, <2>2, FineEvent
<1>2. ASSUME NEW tab, ShowTab(tab) PROVE PaneInv'
  <2> DEFINE u == [w EXCEPT !.tab = tab]
  <2>1. /\ UNCHANGED <<live, recent, ses, win>> /\ w' = Notified(u) /\ events < MaxEvents /\ events' = events + 1
    BY <1>2 DEF ShowTab, WindowEvent, Event
  <2>2. Differ(w, u, {"tab"})
    BY WindowShaped DEF Differ, Fields
  <2> HIDE DEF u
  <2>3. WindowInv(u)
    BY <2>2, WindowShaped, Inert DEF Differ
  <2>4. WindowInv(w') /\ Differ(u, w', {"dirty"}) /\ w'.dirty = TRUE
    BY <2>1, <2>3, NotifiedSound
  <2>5. Differ(w, w', {"tab", "dirty"})
    BY <2>2, <2>4, DifferComposed
  <2>6. /\ w'.auto = w.auto /\ \A f \in {"active", "by", "applied", "surf"} : w'[f] = w[f]
        /\ w'.recent = w.recent /\ w'.restore = w.restore
    BY <2>5, WindowShaped DEF Differ, Fields
  <2>7. events' \in 0 .. MaxEvents
    BY <2>1, PaneBoundsAssumption DEF PaneInv, SessionsInv
  <2>8. ~Rested'
    BY <2>4 DEF Rested
  <2>9. QED BY <2>1, <2>4, <2>6, <2>7, <2>8, WindowStep DEF PaneInv, RowsInv
<1>3. QED BY <1>1, <1>2

\* The window whose first closure has been taken to run.
LEMMA PoppedIs ==
  ASSUME PaneInv, NEW k \in Kinds, Runs(k)
  PROVE  /\ Differ(w, Popped, {"cbs"}) /\ Shaped(Popped) /\ Owned(Popped) /\ Kept(w, Popped)
         /\ Fresh \in BOOLEAN /\ FlushesFresh(Popped.cbs) /\ (k = "flush" => Fresh = TRUE)
         /\ Fresh = FALSE \/ k = "geometry" => Flagged(Popped)
         /\ Fresh = TRUE =>
              /\ \A j \in Kinds \ {k}, b \in BOOLEAN : One(w.cbs, j, b) => One(Popped.cbs, j, b)
              /\ \A b \in BOOLEAN : One(w.cbs, k, b) => b = TRUE /\ One(Popped.cbs, k, FALSE)
<1>1. /\ w.cbs \in Seq(Callbacks) /\ w.cbs # <<>> /\ Head(w.cbs).kind = k /\ FlushesFresh(w.cbs) /\ Flagged(w)
  BY DEF PaneInv, WindowInv, Shaped, Flagged, Runs
<1>2. Differ(w, Popped, {"cbs"}) /\ Popped.cbs = Tail(w.cbs)
  BY WindowShaped DEF Differ, Fields, Popped
<1> DEFINE d == Popped.cbs
<1> HIDE DEF d
<1>3. /\ d \in Seq(Callbacks) /\ Head(w.cbs) \in Callbacks
      /\ FlushesFresh(d) /\ (k = "flush" => Head(w.cbs).fresh = TRUE)
      /\ Head(w.cbs).fresh = TRUE => (One(w.cbs, k, TRUE) => One(d, k, FALSE))
      /\ Head(w.cbs).fresh = TRUE => \E i \in DOMAIN w.cbs : Marked(w.cbs, i, k)
      /\ \A j \in Kinds, b \in BOOLEAN : (Head(w.cbs).fresh = TRUE => j # k) /\ One(w.cbs, j, b) => One(d, j, b)
  <2>1. d = Tail(w.cbs)
    BY <1>2 DEF d
  <2> DEFINE e == Head(w.cbs)
  <2>2. /\ d \in Seq(Callbacks) /\ e \in Callbacks
        /\ FlushesFresh(w.cbs) => FlushesFresh(d) /\ (e.kind = "flush" => e.fresh = TRUE)
        /\ e.fresh = TRUE => (One(w.cbs, e.kind, TRUE) => One(d, e.kind, FALSE))
        /\ e.fresh = TRUE => \E i \in DOMAIN w.cbs : Marked(w.cbs, i, e.kind)
        /\ \A j \in Kinds, b \in BOOLEAN : (e.fresh = TRUE => j # e.kind) /\ One(w.cbs, j, b) => One(d, j, b)
    BY ZenonT(60), <1>1, <2>1, PoppedOne
  <2>3. e.kind = k
    BY <1>1
  <2> HIDE DEF e
  <2>4. QED BY <1>1, <2>2, <2>3, Zenon DEF e
<1>4. Fresh \in BOOLEAN
  BY <1>3 DEF Fresh, Callbacks
<1>5. /\ Popped.sched = w.sched /\ Popped.scroll = w.scroll /\ Popped.auto = w.auto /\ Popped.probe = w.probe
      /\ Shaped(Popped) /\ Owned(Popped) /\ Kept(w, Popped)
  BY <1>2, <1>3, WindowShaped DEF Differ, Fields, WindowInv, Shaped, Owned, Kept, Pane, d
<1>6. Fresh = FALSE \/ k = "geometry" => Flagged(Popped)
  <2>1. SUFFICES ASSUME Fresh = FALSE \/ k = "geometry" PROVE Flagged(Popped)
    OBVIOUS
  <2>2. \A j \in Kinds \ {"geometry"}, b \in BOOLEAN : One(w.cbs, j, b) => One(d, j, b)
    BY <1>3, <2>1 DEF Fresh
  <2>3. QED BY <1>1, <1>3, <1>5, <2>2 DEF Flagged, Kinds, d
<1>7. ASSUME Fresh = TRUE, NEW b \in BOOLEAN, One(w.cbs, k, b)
      PROVE  b = TRUE /\ One(d, k, FALSE)
  <2>1. b = TRUE
    BY <1>3, <1>7 DEF One, Fresh
  <2>2. One(w.cbs, k, TRUE)
    BY <1>7, <2>1
  <2>3. QED BY <1>3, <1>7, <2>1, <2>2 DEF Fresh
<1>8. Fresh = TRUE => \A j \in Kinds \ {k}, b \in BOOLEAN : One(w.cbs, j, b) => One(d, j, b)
  BY <1>3 DEF Fresh
<1>9. QED BY <1>2, <1>3, <1>4, <1>5, <1>6, <1>7, <1>8 DEF d, Fresh

LEMMA FlushSound ==
  ASSUME PaneInv, FlushFramePacer
  PROVE  PaneInv'
<1>1. Runs("flush") /\ UNCHANGED <<live, recent, ses, win, events>>
  BY DEF FlushFramePacer
<1> DEFINE p == Popped
<1>2. /\ Differ(w, p, {"cbs"}) /\ Shaped(p) /\ Owned(p) /\ Kept(w, p) /\ FlushesFresh(p.cbs)
      /\ \A j \in Kinds \ {"flush"}, b \in BOOLEAN : One(w.cbs, j, b) => One(p.cbs, j, b)
      /\ \A b \in BOOLEAN : One(w.cbs, "flush", b) => b = TRUE /\ One(p.cbs, "flush", FALSE)
  BY <1>1, PoppedIs DEF Kinds
<1>3. /\ p.sched = w.sched /\ p.scroll = w.scroll /\ p.auto = w.auto /\ p.probe = w.probe
  BY <1>2, WindowShaped DEF Differ, Fields
<1>4. w.sched = TRUE /\ One(p.cbs, "flush", FALSE)
  <2>1. One(w.cbs, "flush", w.sched = TRUE) /\ (w.sched = TRUE) \in BOOLEAN
    BY DEF PaneInv, WindowInv, Flagged
  <2>2. QED BY <1>2, <2>1
<1>5. /\ One(p.cbs, "scroll", p.scroll.sched = TRUE) /\ One(p.cbs, "auto", p.auto = "scheduled")
      /\ One(p.cbs, "probe", p.probe.sched = TRUE)
  BY <1>2, <1>3, WindowShaped DEF WindowInv, Flagged, Kinds
<1> DEFINE u == [p EXCEPT !.sched = FALSE, !.defers = 0, !.pend = FALSE, !.flushed = TRUE]
           v == [p EXCEPT !.defers = @ + 1]
<1>6. events' \in 0 .. MaxEvents /\ w.auto # "armed"
  BY <1>1 DEF PaneInv, SessionsInv
<1>7. CASE w' = Notified(u)
  <2>1. Differ(p, u, {"sched", "defers", "pend", "flushed"}) /\ u.sched = FALSE /\ u.defers = 0
    BY <1>2 DEF Differ, Shaped, Fields
  <2> HIDE DEF p, u
  <2>2. /\ DOMAIN u = Fields /\ u.surf = p.surf /\ u.scroll = p.scroll /\ u.probe = p.probe /\ u.cbs = p.cbs
        /\ u.active = p.active /\ u.applied = p.applied /\ u.auto = p.auto
        /\ u.sel = p.sel /\ u.turn = p.turn /\ u.anchor = p.anchor /\ u.ime = p.ime /\ u.bar = p.bar
        /\ u.by = p.by /\ u.recent = p.recent /\ u.restore = p.restore
    BY <1>2, <2>1 DEF Differ, Shaped, Fields
  <2>3. Shaped(u) /\ Owned(u)
    <3>1. u.defers \in 0 .. MAX_FRAME_DEFERS
      BY <2>1 DEF MAX_FRAME_DEFERS
    <3>2. QED BY <1>2, <2>2, <3>1 DEF Shaped, Owned
  <2>4. Flagged(u)
    <3>1. One(u.cbs, "flush", u.sched = TRUE)
      BY <1>4, <2>1, <2>2 DEF One
    <3>2. QED BY <1>2, <1>5, <2>2, <3>1 DEF Flagged
  <2>5. WindowInv(w') /\ Differ(u, w', {"dirty"}) /\ w'.dirty = TRUE
    BY <1>7, <2>3, <2>4, NotifiedSound DEF WindowInv
  <2>6. /\ w'.auto = w.auto /\ \A f \in {"active", "by", "applied", "surf"} : w'[f] = w[f]
        /\ w'.recent = w.recent /\ w'.restore = w.restore
    BY <1>2, <1>3, <2>2, <2>5 DEF Kept, Pane, Differ, Fields
  <2>7. ~Rested'
    BY <2>5 DEF Rested
  <2>8. QED BY <1>1, <1>6, <2>5, <2>6, <2>7, WindowStep DEF PaneInv, RowsInv
<1>8. CASE MayDefer /\ w' = Later(v, "flush")
  <2>0. p.defers = w.defers /\ w.defers < MAX_FRAME_DEFERS /\ w.defers \in 0 .. MAX_FRAME_DEFERS
    BY <1>2, <1>8, WindowShaped DEF Differ, Fields, MayDefer, WindowInv, Owned
  <2>1. Differ(p, v, {"defers"}) /\ v.defers = w.defers + 1
    BY <1>2, <2>0 DEF Differ, Shaped, Fields
  <2> HIDE DEF p, v
  <2>2. /\ DOMAIN v = Fields /\ v.surf = p.surf /\ v.scroll = p.scroll /\ v.probe = p.probe /\ v.cbs = p.cbs
        /\ v.active = p.active /\ v.applied = p.applied /\ v.auto = p.auto /\ v.sched = p.sched
        /\ v.sel = p.sel /\ v.turn = p.turn /\ v.anchor = p.anchor /\ v.ime = p.ime /\ v.bar = p.bar
    BY <1>2, <2>1 DEF Differ, Shaped, Fields
  <2>3. Shaped(v) /\ Owned(v) /\ Kept(p, v)
    <3>1. v.defers \in 0 .. MAX_FRAME_DEFERS
      BY <2>0, <2>1 DEF MAX_FRAME_DEFERS
    <3>2. Kept(p, v)
      BY <1>2, <2>1 DEF Differ, Shaped, Fields, Kept, Pane
    <3>3. QED BY <1>2, <2>2, <3>1, <3>2 DEF Shaped, Owned
  <2>4. Differ(v, w', {"cbs"}) /\ Shaped(w') /\ w'.cbs = Longer(v.cbs, "flush")
    BY <1>8, <2>3, LaterIs DEF Kinds
  <2>5. /\ Owned(w') /\ Kept(v, w') /\ w'.sched = v.sched /\ w'.scroll = v.scroll /\ w'.auto = v.auto
        /\ w'.probe = v.probe
    BY <2>3, <2>4 DEF Differ, Fields, Shaped, Owned, Kept, Pane
  <2>6. /\ FlushesFresh(w'.cbs) /\ One(w'.cbs, "flush", TRUE)
        /\ \A j \in Kinds \ {"flush"}, b \in BOOLEAN : One(p.cbs, j, b) => One(w'.cbs, j, b)
    <3>1. p.cbs \in Seq(Callbacks) /\ "flush" \in Kinds
      BY <1>2 DEF Shaped, Kinds
    <3>2. QED BY <1>2, <1>4, <2>2, <2>4, <3>1, QueuedOne
  <2>7. Flagged(w')
    <3>1. One(w'.cbs, "flush", w'.sched = TRUE)
      BY <1>3, <1>4, <2>2, <2>5, <2>6 DEF One
    <3>2. QED BY <1>5, <2>2, <2>5, <2>6, <3>1 DEF Flagged, Kinds
  <2>8. Kept(w, w')
    <3>1. Kept(w, v)
      BY <1>2, <2>3, KeptComposed
    <3>2. QED BY <2>5, <3>1, KeptComposed
  <2>9. Fine(w, w')
    BY <1>3, <2>2, <2>4, <2>5, <2>7, <2>8 DEF Fine, WindowInv
  <2>10. QED BY <1>1, <1>6, <2>9, FineStep
<1>9. QED BY <1>7, <1>8 DEF FlushFramePacer

LEMMA ScrollTickSound ==
  ASSUME PaneInv, ScrollTick
  PROVE  PaneInv'
<1>1. Runs("scroll") /\ UNCHANGED <<live, recent, ses, win, events>>
  BY DEF ScrollTick
<1> DEFINE p == Popped
           none == [who |-> 0, what |-> "none", sched |-> FALSE]
           u == [p EXCEPT !.scroll = none]
           y == [p EXCEPT !.scroll.sched = FALSE]
           z == [p EXCEPT !.scroll = none, !.recent = TRUE, !.restore = TRUE]
<1>2. /\ Differ(w, p, {"cbs"}) /\ Shaped(p) /\ Owned(p) /\ Kept(w, p) /\ Fresh \in BOOLEAN /\ FlushesFresh(p.cbs)
      /\ Fresh = FALSE => Flagged(p)
      /\ Fresh = TRUE =>
           /\ \A j \in Kinds \ {"scroll"}, b \in BOOLEAN : One(w.cbs, j, b) => One(p.cbs, j, b)
           /\ \A b \in BOOLEAN : One(w.cbs, "scroll", b) => b = TRUE /\ One(p.cbs, "scroll", FALSE)
  BY <1>1, PoppedIs DEF Kinds
<1>3. p.sched = w.sched /\ p.scroll = w.scroll /\ p.auto = w.auto /\ p.probe = w.probe
  BY <1>2, WindowShaped DEF Differ, Fields
<1>4. events' \in 0 .. MaxEvents /\ w.auto # "armed"
  BY <1>1 DEF PaneInv, SessionsInv
<1>5. CASE w' = p /\ Fresh = FALSE
  <2>1. Fine(w, w')
    BY <1>2, <1>3, <1>4, <1>5 DEF Fine, WindowInv
  <2>2. QED BY <1>1, <1>4, <2>1, FineStep
<1>6. CASE w' \in {u, y, z} /\ Fresh = TRUE
  <2>1. /\ Differ(p, w', {"scroll", "recent", "restore"}) /\ w'.scroll.sched = FALSE
        /\ DOMAIN w'.scroll = {"who", "what", "sched"} /\ w'.scroll.who \in Owner
        /\ w'.scroll.what # "none" => w'.scroll.who = p.active
        /\ (w'.recent = p.recent /\ w'.restore = p.restore) \/ w'.restore = TRUE
    <3>1. CASE w' = u
      BY <1>2, <3>1, WindowShaped DEF Differ, Shaped, Fields
    <3>2. CASE w' = y
      BY <1>2, <3>2 DEF Differ, Shaped, Fields, Owned
    <3>3. CASE w' = z
      BY <1>2, <3>3, WindowShaped DEF Differ, Shaped, Fields
    <3>4. QED BY <1>6, <3>1, <3>2, <3>3
  <2> HIDE DEF p
  <2>2. /\ DOMAIN w' = Fields /\ w'.surf = p.surf /\ w'.sched = p.sched /\ w'.probe = p.probe /\ w'.cbs = p.cbs
        /\ w'.active = p.active /\ w'.applied = p.applied /\ w'.auto = p.auto /\ w'.defers = p.defers
        /\ w'.sel = p.sel /\ w'.turn = p.turn /\ w'.anchor = p.anchor /\ w'.ime = p.ime /\ w'.bar = p.bar
        /\ w'.by = p.by /\ w'.dirty = p.dirty /\ w'.tab = p.tab
    BY <1>2, <2>1 DEF Differ, Shaped, Fields
  <2>3. Shaped(w') /\ Owned(w')
    BY <1>2, <2>1, <2>2 DEF Shaped, Owned
  <2>4. Flagged(w')
    <3>1. One(w.cbs, "scroll", w.scroll.sched = TRUE) /\ (w.scroll.sched = TRUE) \in BOOLEAN
      BY WindowShaped DEF WindowInv, Flagged
    <3>2. One(p.cbs, "scroll", FALSE)
      BY <1>2, <1>6, <3>1
    <3>3. One(w'.cbs, "scroll", w'.scroll.sched = TRUE)
      BY <2>1, <2>2, <3>2 DEF One
    <3>4. /\ One(p.cbs, "flush", w.sched = TRUE) /\ One(p.cbs, "auto", w.auto = "scheduled")
          /\ One(p.cbs, "probe", w.probe.sched = TRUE)
      BY <1>2, <1>6, WindowShaped DEF WindowInv, Flagged, Kinds
    <3>5. QED BY <1>2, <1>3, <2>2, <3>3, <3>4 DEF Flagged
  <2>5. /\ w'.auto = w.auto /\ \A f \in {"active", "by", "applied", "surf"} : w'[f] = w[f]
        /\ w'.tab = w.tab /\ w'.sched = w.sched /\ w'.dirty = w.dirty /\ p.recent = w.recent /\ p.restore = w.restore
    BY <1>2, <1>3, <2>2, WindowShaped DEF Differ, Fields
  <2>6. Rested' => Rested
    BY <2>5 DEF Rested
  <2>7. /\ w'.restore = w.restore \/ w'.restore = TRUE
        /\ w'.recent = TRUE => w'.restore = TRUE
    BY <2>1, <2>5 DEF PaneInv, RowsInv
  <2>8. QED BY <1>1, <1>4, <2>3, <2>4, <2>5, <2>6, <2>7, WindowStep DEF WindowInv
<1>7. QED BY <1>2, <1>5, <1>6 DEF ScrollTick

LEMMA AutoTickSound ==
  ASSUME PaneInv, AutoTick
  PROVE  PaneInv'
<1>1. Runs("auto") /\ UNCHANGED <<live, recent, ses, win, events>>
  BY DEF AutoTick
<1> DEFINE p == Popped
           u == [p EXCEPT !.auto = "armed"]
           y == [p EXCEPT !.auto = "armed", !.sel = w.active]
<1>2. /\ Differ(w, p, {"cbs"}) /\ Shaped(p) /\ Owned(p) /\ Kept(w, p) /\ Fresh \in BOOLEAN /\ FlushesFresh(p.cbs)
      /\ Fresh = FALSE => Flagged(p)
      /\ Fresh = TRUE =>
           /\ \A j \in Kinds \ {"auto"}, b \in BOOLEAN : One(w.cbs, j, b) => One(p.cbs, j, b)
           /\ \A b \in BOOLEAN : One(w.cbs, "auto", b) => b = TRUE /\ One(p.cbs, "auto", FALSE)
  BY <1>1, PoppedIs DEF Kinds
<1>3. p.sched = w.sched /\ p.scroll = w.scroll /\ p.auto = w.auto /\ p.probe = w.probe /\ p.active = w.active
  BY <1>2, WindowShaped DEF Differ, Fields
<1>4. events' \in 0 .. MaxEvents /\ w.auto # "armed"
  BY <1>1 DEF PaneInv, SessionsInv
<1>5. Fresh = TRUE => w.auto = "scheduled" /\ One(p.cbs, "auto", FALSE)
  <2>1. One(w.cbs, "auto", w.auto = "scheduled") /\ (w.auto = "scheduled") \in BOOLEAN
    BY WindowShaped DEF WindowInv, Flagged
  <2>2. QED BY <1>2, <2>1
<1>6. CASE w' = p /\ Fresh = FALSE
  <2>1. Fine(w, w')
    BY <1>2, <1>3, <1>4, <1>6 DEF Fine, WindowInv
  <2>2. QED BY <1>1, <1>4, <2>1, FineStep
<1>7. ASSUME Fresh = TRUE, NEW x \in {u, y}
      PROVE  WindowInv(x) /\ Kept(w, x)
  <2>1. /\ Differ(p, x, {"auto", "sel"}) /\ x.auto = "armed" /\ x.sel \in {0, p.active}
    <3>1. CASE x = u
      BY <1>2, <3>1 DEF Differ, Shaped, Fields, Owned
    <3>2. CASE x = y
      BY <1>2, <1>3, <3>2 DEF Differ, Shaped, Fields
    <3>3. QED BY <1>7, <3>1, <3>2
  <2> HIDE DEF p
  <2>2. /\ DOMAIN x = Fields /\ x.surf = p.surf /\ x.sched = p.sched /\ x.probe = p.probe /\ x.cbs = p.cbs
        /\ x.active = p.active /\ x.applied = p.applied /\ x.scroll = p.scroll /\ x.defers = p.defers
        /\ x.turn = p.turn /\ x.anchor = p.anchor /\ x.ime = p.ime /\ x.bar = p.bar /\ Kept(p, x)
    BY <1>2, <2>1 DEF Differ, Shaped, Fields, Kept, Pane
  <2>3. Shaped(x) /\ Owned(x)
    BY <1>2, <2>1, <2>2 DEF Shaped, Owned
  <2>4. Flagged(x)
    <3>1. One(x.cbs, "auto", x.auto = "scheduled")
      BY <1>5, <1>7, <2>1, <2>2 DEF One
    <3>2. /\ One(p.cbs, "flush", w.sched = TRUE) /\ One(p.cbs, "scroll", w.scroll.sched = TRUE)
          /\ One(p.cbs, "probe", w.probe.sched = TRUE)
      BY <1>2, <1>7, WindowShaped DEF WindowInv, Flagged, Kinds
    <3>3. QED BY <1>2, <1>3, <2>2, <3>1, <3>2 DEF Flagged
  <2>5. QED BY <1>2, <2>2, <2>3, <2>4, KeptComposed DEF WindowInv
<1>8. CASE w' = AutoStopped(u) /\ Fresh = TRUE
  <2>1. WindowInv(u) /\ Kept(w, u)
    BY <1>7, <1>8
  <2> HIDE DEF u
  <2>2. WindowInv(w') /\ Kept(u, w') /\ w'.auto = "off"
    BY <1>8, <2>1, AutoStoppedSound
  <2>3. Kept(w, w')
    BY <2>1, <2>2, KeptComposed
  <2>4. Fine(w, w')
    BY <2>2, <2>3 DEF Fine
  <2>5. QED BY <1>1, <1>4, <2>4, FineStep
<1>9. CASE w' = AutoScheduled(Requested(ScrollQueued(y, "rows"))) /\ Fresh = TRUE
  <2> DEFINE a == ScrollQueued(y, "rows")
             c == Requested(a)
  <2>1. WindowInv(y) /\ Kept(w, y)
    BY <1>7, <1>9
  <2> HIDE DEF y
  <2>2. WindowInv(a) /\ Kept(y, a)
    BY <2>1, ScrollQueuedSound
  <2> HIDE DEF a
  <2>3. WindowInv(c) /\ Kept(a, c)
    BY <2>2, RequestedSound
  <2>4. w' = AutoScheduled(c)
    BY <1>9 DEF a
  <2> HIDE DEF c
  <2>5. WindowInv(w') /\ Kept(c, w') /\ w'.auto # "armed"
    BY <2>3, <2>4, AutoScheduledSound
  <2>6. Kept(w, a)
    BY <2>1, <2>2, KeptComposed
  <2>7. Kept(w, c)
    BY <2>3, <2>6, KeptComposed
  <2>8. Kept(w, w')
    BY <2>5, <2>7, KeptComposed
  <2>9. Fine(w, w')
    BY <2>5, <2>8 DEF Fine
  <2>10. QED BY <1>1, <1>4, <2>9, FineStep
<1>10. QED
  <2>1. CASE Fresh = FALSE
    BY <1>6, <2>1 DEF AutoTick
  <2>2. CASE Fresh = TRUE
    <3>1. w.auto # "off"
      BY <1>5, <2>2
    <3>2. QED BY <1>8, <1>9, <2>2, <3>1 DEF AutoTick
  <2>3. QED BY <1>2, <2>1, <2>2

LEMMA ProbeTickSound ==
  ASSUME PaneInv, ProbeTick
  PROVE  PaneInv'
<1>1. Runs("probe") /\ UNCHANGED <<live, recent, ses, win, events>>
  BY DEF ProbeTick
<1> DEFINE p == Popped
           u == [p EXCEPT !.probe.sched = FALSE]
<1>2. /\ Differ(w, p, {"cbs"}) /\ Shaped(p) /\ Owned(p) /\ Kept(w, p) /\ Fresh \in BOOLEAN /\ FlushesFresh(p.cbs)
      /\ Fresh = FALSE => Flagged(p)
      /\ Fresh = TRUE =>
           /\ \A j \in Kinds \ {"probe"}, b \in BOOLEAN : One(w.cbs, j, b) => One(p.cbs, j, b)
           /\ \A b \in BOOLEAN : One(w.cbs, "probe", b) => b = TRUE /\ One(p.cbs, "probe", FALSE)
  BY <1>1, PoppedIs DEF Kinds
<1>3. p.sched = w.sched /\ p.scroll = w.scroll /\ p.auto = w.auto /\ p.probe = w.probe
  BY <1>2, WindowShaped DEF Differ, Fields
<1>4. events' \in 0 .. MaxEvents /\ w.auto # "armed"
  BY <1>1 DEF PaneInv, SessionsInv
<1>5. Fresh = TRUE => w.probe.sched = TRUE /\ One(p.cbs, "probe", FALSE)
  <2>1. One(w.cbs, "probe", w.probe.sched = TRUE) /\ (w.probe.sched = TRUE) \in BOOLEAN
    BY WindowShaped DEF WindowInv, Flagged
  <2>2. QED BY <1>2, <2>1
<1>6. CASE w' = p /\ Fresh = FALSE
  <2>1. Fine(w, w')
    BY <1>2, <1>3, <1>4, <1>6 DEF Fine, WindowInv
  <2>2. QED BY <1>1, <1>4, <2>1, FineStep
<1>7. CASE w' = EnsuredProbe(u) /\ Fresh = TRUE
  <2>1. Differ(p, u, {"probe"}) /\ u.probe.sched = FALSE /\ DOMAIN u.probe = DOMAIN p.probe
    BY <1>2 DEF Differ, Shaped, Fields
  <2> HIDE DEF p, u
  <2>2. /\ DOMAIN u = Fields /\ u.surf = p.surf /\ u.sched = p.sched /\ u.scroll = p.scroll /\ u.cbs = p.cbs
        /\ u.active = p.active /\ u.applied = p.applied /\ u.auto = p.auto /\ u.defers = p.defers
        /\ u.sel = p.sel /\ u.turn = p.turn /\ u.anchor = p.anchor /\ u.ime = p.ime /\ u.bar = p.bar /\ Kept(p, u)
    BY <1>2, <2>1 DEF Differ, Shaped, Fields, Kept, Pane
  <2>3. Shaped(u) /\ Owned(u)
    BY <1>2, <2>1, <2>2 DEF Shaped, Owned
  <2>4. Flagged(u)
    <3>1. One(u.cbs, "probe", u.probe.sched = TRUE)
      BY <1>5, <1>7, <2>1, <2>2 DEF One
    <3>2. /\ One(p.cbs, "flush", w.sched = TRUE) /\ One(p.cbs, "scroll", w.scroll.sched = TRUE)
          /\ One(p.cbs, "auto", w.auto = "scheduled")
      BY <1>2, <1>7, WindowShaped DEF WindowInv, Flagged, Kinds
    <3>3. QED BY <1>2, <1>3, <2>2, <3>1, <3>2 DEF Flagged
  <2>5. /\ WindowInv(w') /\ Kept(u, w') /\ Differ(u, w', {"probe", "cbs", "dirty"})
    BY <1>7, <2>3, <2>4, EnsuredProbeSound DEF WindowInv
  <2>6. Kept(w, w')
    <3>1. Kept(w, u)
      BY <1>2, <2>2, KeptComposed
    <3>2. QED BY <2>5, <3>1, KeptComposed
  <2>7. w'.auto = w.auto
    BY <1>3, <2>2, <2>5 DEF Differ, Fields
  <2>8. Fine(w, w')
    BY <2>5, <2>6, <2>7 DEF Fine
  <2>9. QED BY <1>1, <1>4, <2>8, FineStep
<1>8. QED
  <2>1. CASE Fresh = FALSE
    BY <1>6, <2>1 DEF ProbeTick
  <2>2. CASE Fresh = TRUE
    BY <1>5, <1>7, <2>2 DEF ProbeTick
  <2>3. QED BY <1>2, <2>1, <2>2

LEMMA DelayPassesSound ==
  ASSUME PaneInv, DelayPasses
  PROVE  PaneInv'
<1>1. w' = [w EXCEPT !.recent = FALSE] /\ UNCHANGED <<live, recent, ses, win, events>>
  BY DEF DelayPasses
<1>2. Differ(w, w', {"recent"}) /\ w'.recent = FALSE
  BY <1>1, WindowShaped DEF Differ, Fields
<1>3. WindowInv(w')
  BY <1>2, WindowShaped, Inert DEF Differ
<1>4. /\ w'.auto = w.auto /\ \A f \in {"active", "by", "applied", "surf"} : w'[f] = w[f]
      /\ w'.restore = w.restore /\ (Rested' => Rested)
  BY <1>2, WindowShaped DEF Differ, Fields, Rested
<1>5. events' \in 0 .. MaxEvents /\ w.auto # "armed"
  BY <1>1 DEF PaneInv, SessionsInv
<1>6. QED BY <1>1, <1>2, <1>3, <1>4, <1>5, WindowStep

\* A step after which the window has a repaint requested.
LEMMA RequestedStep ==
  ASSUME SessionsInv', WindowInv(w'), w'.auto # "armed", Known', RowsInv', Told',
         w'.sched = TRUE \/ w'.dirty = TRUE
  PROVE  PaneInv'
BY DEF PaneInv, Shown, Rested

LEMMA RestoreLinksSound ==
  ASSUME PaneInv, RestoreLinks
  PROVE  PaneInv'
<1> DEFINE u == [w EXCEPT !.restore = FALSE]
           x == LinkRowsBumped(u)
<1>1. w' = Requested(x) /\ ~w.recent /\ UNCHANGED <<live, recent, ses, win, events>>
  BY DEF RestoreLinks
<1>2. Differ(w, u, {"restore"}) /\ u.restore = FALSE /\ u.surf = w.surf
  BY WindowShaped DEF Differ, Fields
<1> HIDE DEF u
<1>3. WindowInv(u)
  BY <1>2, WindowShaped, Inert DEF Differ
<1>4. /\ WindowInv(x) /\ Differ(u, x, {"surf"})
      /\ u.surf.rev = 0 => x = u
      /\ u.surf.rev # 0 =>
            /\ x.surf.rev = IF u.surf.rev < MaxRev THEN u.surf.rev + 1 ELSE u.surf.rev
            /\ x.surf.bumped = TRUE
            /\ \A f \in DOMAIN u.surf \ {"rev", "mode", "bumped"} : x.surf[f] = u.surf[f]
  BY <1>3, LinkRowsBumpedIs
<1> HIDE DEF x
<1>5. /\ WindowInv(w') /\ Kept(x, w') /\ w'.sched = TRUE /\ Differ(x, w', {"pend", "sched", "defers", "cbs"})
  BY <1>1, <1>4, RequestedSound
<1>6. /\ w'.active = w.active /\ w'.by = w.by /\ w'.applied = w.applied /\ w'.surf = x.surf /\ w'.auto = w.auto
      /\ w'.recent = w.recent /\ w'.restore = FALSE
  BY <1>2, <1>4, <1>5, WindowShaped DEF Differ, Fields
<1>7. w.surf.rev = 0 => w'.surf = w.surf
  BY <1>2, <1>4, <1>6
<1>8. w.surf.rev # 0 => /\ w'.surf.rev = (IF w.surf.rev < MaxRev THEN w.surf.rev + 1 ELSE w.surf.rev)
                        /\ w'.surf.bumped = TRUE /\ w'.surf.id = w.surf.id /\ w'.surf.val = w.surf.val
  BY <1>2, <1>4, <1>6, WindowShaped DEF WindowInv, Shaped
<1>9. SessionsInv' /\ Told'
  BY <1>1, <1>6 DEF PaneInv, SessionsInv, Watched, Told
<1>10. Known'
  BY <1>1, <1>6, <1>7, <1>8 DEF PaneInv, Known, Watched
<1>11. RowsInv'
  <2>1. w'.recent # TRUE
    BY <1>1, <1>6
  <2>2. CASE w.surf.rev = 0
    BY <1>1, <1>7, <2>1, <2>2 DEF PaneInv, RowsInv, Row
  <2>3. CASE w.surf.rev # 0
    <3>1. w'.surf.rev \in Nat /\ w'.surf.rev # 0
      BY <1>8, <2>3 DEF PaneInv, RowsInv
    <3>2. w'.surf.val # 0 /\ w'.surf.id # 0
      BY <1>8, <2>3 DEF PaneInv, RowsInv
    <3>3. QED BY <1>8, <2>1, <2>3, <3>1, <3>2 DEF RowsInv
  <2>4. QED BY <2>2, <2>3
<1>12. QED BY <1>5, <1>6, <1>9, <1>10, <1>11, RequestedStep DEF PaneInv

LEMMA BoundsChangeSound ==
  ASSUME PaneInv, NEW size \in Sizes, BoundsChange(size)
  PROVE  PaneInv'
<1>1. /\ UNCHANGED <<live, recent, ses>> /\ win' = size /\ events < MaxEvents /\ events' = events + 1
      /\ w' = Requested(Later(Outdated(w, "geometry"), "geometry"))
  BY DEF BoundsChange, Event
<1>2. WindowInv(w') /\ Kept(w, w') /\ w'.sched = TRUE /\ w'.auto = w.auto
  BY <1>1, WindowShaped, GeometryScheduledSound
<1>3. events' \in 0 .. MaxEvents
  BY <1>1, PaneBoundsAssumption DEF PaneInv, SessionsInv
<1>4. SessionsInv'
  BY <1>1, <1>3 DEF PaneInv, SessionsInv, Watched
<1>5. Known' /\ RowsInv' /\ Told'
  <2>1. /\ w'.active = w.active /\ w'.by = w.by /\ w'.applied = w.applied /\ w'.surf = w.surf
        /\ w'.recent = w.recent /\ w'.restore = w.restore
    BY <1>2 DEF Kept, Pane
  <2>2. QED BY <1>1, <2>1 DEF PaneInv, Known, Watched, RowsInv, Row, Told
<1>6. QED BY <1>2, <1>4, <1>5, RequestedStep DEF PaneInv

\* The sessions keep what a resize does not touch.
SameRows ==
  \A r \in Ids : /\ ses'[r].rev = ses[r].rev /\ ses'[r].val = ses[r].val /\ ses'[r].err = ses[r].err
                 /\ ses'[r].token = ses[r].token /\ ses'[r].watch = ses[r].watch

\* The window applies a geometry and tells the session it shows, unless it had told it.
LEMMA GeometryStep ==
  ASSUME PaneInv, NEW size \in Sizes, UNCHANGED <<live, recent>>, win' \in Sizes, events' \in 0 .. MaxEvents,
         ses' = IF TellsGeometry(w, size) THEN ToldGeometry(Active, size) ELSE ses,
         w'.active = w.active, w'.by = w.by, w'.applied = IF Active = 0 THEN 0 ELSE size,
         w'.surf.id \in {w.surf.id, w.active}
  PROVE  SessionsInv' /\ Known' /\ Told' /\ SameRows
<1>1. ses \in [Ids -> SessionStates] /\ size \in 0 .. 2 /\ size # 0
  BY DEF PaneInv, SessionsInv, Sizes
<1>2. CASE TellsGeometry(w, size)
  <2>1. Active \in Ids /\ Active = w.active /\ w.active \in live
    BY <1>2, ActiveIs DEF TellsGeometry
  <2>2. ses' = ToldGeometry(Active, size)
    BY <1>2
  <2>3. /\ ses' \in [Ids -> SessionStates] /\ SameRows
        /\ \A r \in Ids \ {Active} : ses'[r].geo = ses[r].geo /\ ses'[r].foreign = ses[r].foreign
        /\ Active \in live /\ ses[Active].err = FALSE => ses'[Active].geo = size /\ ses'[Active].foreign = FALSE
    <3> DEFINE t == ToldGeometry(Active, size)
    <3>1. /\ t \in [Ids -> SessionStates]
          /\ \A r \in Ids : /\ t[r].rev = ses[r].rev /\ t[r].val = ses[r].val /\ t[r].err = ses[r].err
                            /\ t[r].screen = ses[r].screen /\ t[r].token = ses[r].token
                            /\ t[r].watch = ses[r].watch
          /\ \A r \in Ids \ {Active} : t[r].geo = ses[r].geo /\ t[r].foreign = ses[r].foreign
          /\ Active \in live /\ ses[Active].err = FALSE => t[Active].geo = size /\ t[Active].foreign = FALSE
      BY <1>1, <2>1, ToldGeometryIs, Zenon
    <3>2. ses' = t
      BY <2>2
    <3> HIDE DEF t
    <3>3. QED BY <3>1, <3>2 DEF SameRows
  <2>4. Watched' = Watched
    BY <2>3 DEF Watched, SameRows
  <2>5. SessionsInv' /\ Known'
    <3>1. \A r \in Ids : ses'[r].rev # 0
      BY <2>3 DEF PaneInv, SessionsInv, SameRows
    <3>2. SessionsInv'
      BY <2>3, <2>4, <3>1 DEF PaneInv, SessionsInv
    <3>3. Known'
      BY <2>4 DEF PaneInv, Known
    <3>4. QED BY <3>2, <3>3
  <2>6. Told'
    <3>1. ses'[Active].err = ses[Active].err
      BY <2>1, <2>3 DEF SameRows
    <3>2. w'.active = Active /\ w'.applied = size
      BY <2>1, ActiveIs
    <3>3. ses'[Active].err = FALSE => ses'[Active].geo = size
      BY <2>1, <2>3, <3>1
    <3>4. QED BY <3>2, <3>3 DEF Told
  <2>7. QED BY <2>3, <2>5, <2>6
<1>3. CASE ~TellsGeometry(w, size)
  <2>1. ses' = ses /\ SameRows /\ (Active = 0 \/ w.applied = size)
    BY <1>3 DEF TellsGeometry, SameRows
  <2>2. SessionsInv' /\ Known'
    BY <2>1 DEF PaneInv, SessionsInv, Known, Watched
  <2>3. Told'
    BY <2>1, ActiveIs DEF PaneInv, Told
  <2>4. QED BY <2>1, <2>2, <2>3
<1>4. QED BY <1>2, <1>3

\* The surface is the one painted before, or holds no rows.
LEMMA RowsKept ==
  ASSUME PaneInv, SameRows, w'.recent = w.recent, w'.restore = w.restore,
         w'.surf = w.surf \/ (w'.surf.rev = 0 /\ w'.surf.val = 0)
  PROVE  RowsInv'
<1>1. CASE w'.surf = w.surf
  <2>1. CASE w.surf.val = 0
    BY <1>1, <2>1 DEF PaneInv, RowsInv
  <2>2. CASE w.surf.val # 0
    <3>1. w.surf.id \in Ids
      BY <2>2 DEF PaneInv, RowsInv, Known, Watched
    <3>2. QED BY ZenonT(60), <1>1, <2>2, <3>1 DEF PaneInv, RowsInv, Row, SameRows
  <2>3. QED BY <2>1, <2>2
<1>2. CASE w'.surf.rev = 0 /\ w'.surf.val = 0
  BY <1>2 DEF PaneInv, RowsInv
<1>3. QED BY <1>1, <1>2

LEMMA GeometryTickSound ==
  ASSUME PaneInv, GeometryTick
  PROVE  PaneInv'
<1>1. Runs("geometry") /\ UNCHANGED <<live, recent, win, events>>
  BY DEF GeometryTick
<1> DEFINE p == Popped
           x == GeometryApplied(p, win)
<1>2. Differ(w, p, {"cbs"}) /\ Shaped(p) /\ Owned(p) /\ Kept(w, p) /\ Fresh \in BOOLEAN /\ Flagged(p)
  BY <1>1, PoppedIs DEF Kinds
<1>3. /\ events' \in 0 .. MaxEvents /\ w.auto # "armed" /\ WindowInv(p) /\ p.auto = w.auto
      /\ win \in Sizes /\ win' \in Sizes
  BY <1>1, <1>2, WindowShaped DEF PaneInv, SessionsInv, WindowInv, Differ, Fields
<1>4. CASE Fresh = FALSE
  <2>1. w' = p /\ ses' = ses
    BY <1>4 DEF GeometryTick
  <2>2. Fine(w, w')
    BY <1>2, <1>3, <2>1 DEF Fine
  <2>3. QED BY <1>1, <1>3, <2>1, <2>2, FineStep
<1>5. CASE Fresh = TRUE
  <2>1. w' = Requested(x) /\ ses' = IF TellsGeometry(w, win) THEN ToldGeometry(Active, win) ELSE ses
    BY <1>5 DEF GeometryTick
  <2> HIDE DEF p
  <2>2. /\ WindowInv(x) /\ Differ(p, x, {"applied", "surf"})
        /\ x.applied = IF Active = 0 THEN 0 ELSE win
        /\ x.surf = p.surf \/ (x.surf.rev = 0 /\ x.surf.val = 0 /\ x.surf.id = p.surf.id)
    BY <1>3, GeometryAppliedIs
  <2> HIDE DEF x
  <2>3. WindowInv(w') /\ w'.sched = TRUE /\ Differ(x, w', {"pend", "sched", "defers", "cbs"})
    BY <2>1, <2>2, RequestedSound
  <2>4. /\ w'.active = w.active /\ w'.by = w.by /\ w'.applied = x.applied /\ w'.surf = x.surf /\ w'.auto = w.auto
        /\ w'.recent = w.recent /\ w'.restore = w.restore /\ p.surf = w.surf
    BY <1>2, <2>2, <2>3, WindowShaped DEF Differ, Fields
  <2>5. w'.surf.id \in {w.surf.id, w.active}
    BY <2>2, <2>4
  <2>6. SessionsInv' /\ Known' /\ Told' /\ SameRows
    BY <1>1, <1>3, <2>1, <2>2, <2>4, <2>5, GeometryStep
  <2>7. RowsInv'
    BY <2>2, <2>4, <2>6, RowsKept
  <2>8. QED BY <1>3, <2>3, <2>4, <2>6, <2>7, RequestedStep
<1>6. QED BY <1>2, <1>4, <1>5

LEMMA ApplyConfigSound ==
  ASSUME PaneInv, NEW size \in Sizes, NEW hud \in BOOLEAN, ApplyConfig(size, hud)
  PROVE  PaneInv'
<1> DEFINE v == Invalidated(w)
           x == GeometryApplied(v, size)
           y == PerfMode(x, hud)
<1>1. /\ UNCHANGED <<live, recent>> /\ win' = size /\ events < MaxEvents /\ events' = events + 1
      /\ ses' = IF TellsGeometry(w, size) THEN ToldGeometry(Active, size) ELSE ses
      /\ w' = Notified(y)
  BY DEF ApplyConfig, Event
<1>2. /\ Differ(w, v, {"surf"}) /\ v.surf.rev = 0 /\ v.surf.val = 0 /\ v.surf.id = w.surf.id
      /\ DOMAIN v.surf = DOMAIN w.surf
  BY WindowShaped, InvalidatedIs DEF WindowInv
<1> HIDE DEF v
<1>3. WindowInv(v)
  BY <1>2, WindowShaped, SurfaceInert
<1>4. /\ WindowInv(x) /\ Differ(v, x, {"applied", "surf"})
      /\ x.applied = IF Active = 0 THEN 0 ELSE size
      /\ x.surf = v.surf \/ (x.surf.rev = 0 /\ x.surf.val = 0 /\ x.surf.id = v.surf.id)
  BY <1>3, GeometryAppliedIs
<1> HIDE DEF x
<1>5. WindowInv(y) /\ Differ(x, y, {"probe", "cbs", "dirty", "pend", "sched", "defers"})
  BY <1>4, PerfModeSound, Zenon
<1> HIDE DEF y
<1>6. WindowInv(w') /\ Differ(y, w', {"dirty"}) /\ w'.dirty = TRUE
  BY <1>1, <1>5, NotifiedSound
<1>7. Differ(x, w', {"probe", "cbs", "dirty", "pend", "sched", "defers"})
  BY <1>5, <1>6, DifferComposed
<1>8. Differ(w, x, {"applied", "surf"})
  BY <1>2, <1>4, DifferComposed
<1>9. /\ w'.active = w.active /\ w'.by = w.by /\ w'.applied = x.applied /\ w'.surf = x.surf /\ w'.auto = w.auto
      /\ w'.recent = w.recent /\ w'.restore = w.restore
  BY <1>7, <1>8, WindowShaped DEF Differ, Fields
<1>10. events' \in 0 .. MaxEvents /\ win' \in Sizes
  BY <1>1, PaneBoundsAssumption DEF PaneInv, SessionsInv
<1>11. w'.surf.id \in {w.surf.id, w.active} /\ w'.surf.rev = 0 /\ w'.surf.val = 0
  BY <1>2, <1>4, <1>9
<1>12. SessionsInv' /\ Known' /\ Told' /\ SameRows
  BY <1>1, <1>4, <1>9, <1>10, <1>11, GeometryStep
<1>13. RowsInv'
  BY <1>9, <1>11, <1>12, RowsKept
<1>14. QED BY <1>6, <1>9, <1>12, <1>13, RequestedStep DEF PaneInv

\* What a repaint of the pane leaves on the surface: the rows of before, which have the
\* revision of the newest publication, or rows built from it.
LEMMA SyncedIs ==
  ASSUME NEW v, WindowInv(v)
  PROVE  LET x == Synced(v)
         IN /\ WindowInv(x) /\ Differ(v, x, {"hover", "bar", "surf"})
            /\ \/ /\ x.surf.id = v.active /\ x.surf.rev = ses[Active].rev /\ x.surf.val = ses[Active].val
                  /\ x.surf.geo = v.applied /\ x.surf.bumped = FALSE
                  /\ ~v.recent => x.surf.links = TRUE
               \/ /\ v.surf.id = v.active /\ v.surf.geo = v.applied /\ v.surf.val # 0 /\ v.surf.rev = ses[Active].rev
                  /\ \A f \in DOMAIN v.surf \ {"mode"} : x.surf[f] = v.surf[f]
<1> DEFINE u == [v EXCEPT !.hover = IF HoverKept(v) THEN @ ELSE 0, !.bar = IF ses[Active].err THEN 0 ELSE @]
           y == [u EXCEPT !.surf.mode = PaintMode(v)]
           z == [u EXCEPT !.surf = Painted(v)]
<1>1. Differ(v, u, {"hover", "bar"}) /\ u.bar \in {0, v.bar}
  BY DEF WindowInv, Shaped, Differ, Fields
<1> HIDE DEF u
<1>2. WindowInv(u)
  <2>1. /\ {v.sel, v.anchor, v.turn, v.ime} \subseteq {0, v.active} /\ {0, v.bar} \subseteq Owner
        /\ u.sel = v.sel /\ u.anchor = v.anchor /\ u.turn = v.turn /\ u.ime = v.ime
    BY <1>1 DEF WindowInv, Shaped, Owned, Owner, Differ, Fields
  <2>2. Differ(v, u, {"sel", "anchor", "turn", "ime", "bar", "hover"})
    BY <1>1 DEF Differ
  <2>3. QED BY <1>1, <2>1, <2>2, GesturesFine DEF Fine
<1>3. u.surf = v.surf
  BY <1>1 DEF WindowInv, Shaped, Differ, Fields
<1>4. CASE ~FullRebuild(v) /\ v.surf.rev = ses[Active].rev
  <2>1. Synced(v) = y
    BY <1>4 DEF Synced, u
  <2>2. /\ Differ(u, y, {"surf"}) /\ DOMAIN y.surf = DOMAIN u.surf
        /\ \A f \in DOMAIN u.surf \ {"mode"} : y.surf[f] = u.surf[f]
    BY <1>2 DEF WindowInv, Shaped, Differ, Fields
  <2> HIDE DEF y
  <2>3. WindowInv(y)
    BY <1>2, <2>2, SurfaceInert
  <2>4. Differ(v, y, {"hover", "bar", "surf"})
    BY <1>1, <2>2, DifferComposed
  <2>5. v.surf.id = v.active /\ v.surf.geo = v.applied /\ v.surf.val # 0
    BY <1>4 DEF FullRebuild
  <2>6. QED BY <1>3, <1>4, <2>1, <2>2, <2>3, <2>4, <2>5
<1>5. CASE ~(~FullRebuild(v) /\ v.surf.rev = ses[Active].rev)
  <2>1. Synced(v) = z
    BY <1>5 DEF Synced, u
  <2>2. Differ(u, z, {"surf"}) /\ z.surf = Painted(v)
    BY <1>2 DEF WindowInv, Shaped, Differ, Fields
  <2> HIDE DEF z
  <2>3. /\ DOMAIN Painted(v) = {"id", "rev", "val", "geo", "mode", "links", "bumped"}
        /\ Painted(v).id = v.active /\ Painted(v).rev = ses[Active].rev /\ Painted(v).val = ses[Active].val
        /\ Painted(v).geo = v.applied /\ Painted(v).bumped = FALSE
        /\ Painted(v).links = (PaintMode(v) = "normal")
    BY DEF Painted
  <2>4. ~v.recent => Painted(v).links = TRUE
    BY <2>3 DEF PaintMode
  <2>5. WindowInv(z)
    <3>1. DOMAIN z.surf = DOMAIN u.surf
      BY <1>2, <2>2, <2>3 DEF WindowInv, Shaped
    <3>2. QED BY <1>2, <2>2, <3>1, SurfaceInert
  <2>6. Differ(v, z, {"hover", "bar", "surf"})
    BY <1>1, <2>2, DifferComposed
  <2>7. QED BY <2>1, <2>2, <2>3, <2>4, <2>5, <2>6
<1>6. QED BY <1>4, <1>5

LEMMA RenderSound ==
  ASSUME PaneInv, Render
  PROVE  PaneInv'
<1>1. UNCHANGED <<live, recent, win, events>>
  BY DEF Render
<1>2. events' \in 0 .. MaxEvents /\ w.auto # "armed" /\ win \in Sizes /\ win' \in Sizes /\ win # 0
  BY <1>1 DEF PaneInv, SessionsInv, Sizes
<1>3. CASE w.tab # "terminal" \/ Active = 0
  <2>1. PICK o \in {0, w.ime} : w' = [w EXCEPT !.dirty = FALSE, !.ime = o]
    <3>1. CASE w.tab # "terminal"
      BY <3>1 DEF Render
    <3>2. CASE w.tab = "terminal" /\ Active = 0
      <4>1. w' = [w EXCEPT !.dirty = FALSE]
        BY <3>2 DEF Render
      <4>2. [w EXCEPT !.dirty = FALSE] = [w EXCEPT !.dirty = FALSE, !.ime = w.ime]
        BY WindowShaped DEF Fields
      <4>3. QED BY <4>1, <4>2
    <3>3. QED BY <1>3, <3>1, <3>2
  <2>2. ses' = ses
    BY <1>3 DEF Render
  <2>3. Differ(w, w', {"dirty", "ime"}) /\ w'.ime \in {0, w.active}
    BY <2>1, WindowShaped DEF Differ, Fields
  <2>4. /\ DOMAIN w' = Fields /\ w'.surf = w.surf /\ w'.scroll = w.scroll /\ w'.probe = w.probe /\ w'.cbs = w.cbs
        /\ w'.active = w.active /\ w'.applied = w.applied /\ w'.defers = w.defers /\ w'.auto = w.auto
        /\ w'.sched = w.sched /\ w'.sel = w.sel /\ w'.turn = w.turn /\ w'.anchor = w.anchor /\ w'.bar = w.bar
        /\ w'.by = w.by /\ w'.tab = w.tab /\ w'.recent = w.recent /\ w'.restore = w.restore
    BY <2>3, WindowShaped DEF Differ, Fields
  <2>5. WindowInv(w')
    <3>1. Shaped(w') /\ Owned(w')
      BY <2>3, <2>4, WindowShaped DEF WindowInv, Shaped, Owned
    <3>2. Flagged(w')
      BY <2>4, WindowShaped, SameFlags DEF WindowInv
    <3>3. QED BY <3>1, <3>2 DEF WindowInv
  <2>6. SessionsInv' /\ Known' /\ RowsInv' /\ Told'
    BY ZenonT(60), <1>1, <2>2, <2>4 DEF PaneInv, SessionsInv, Watched, Known, RowsInv, Row, Told
  <2>7. Shown'
    BY <1>1, <1>3, <2>4, ActiveIs DEF Shown, Rested
  <2>8. QED BY <1>2, <2>4, <2>5, <2>6, <2>7 DEF PaneInv
<1>4. CASE w.tab = "terminal" /\ Active # 0
  <2> DEFINE g == GeometryApplied(w, win)
             v == [g EXCEPT !.dirty = FALSE]
  <2>1. /\ ses' = IF TellsGeometry(w, win) THEN ToldGeometry(Active, win) ELSE ses
        /\ w' = Synced(v)
    BY <1>4 DEF Render
  <2>2. /\ WindowInv(g) /\ Differ(w, g, {"applied", "surf"}) /\ g.applied = win
        /\ g.surf = w.surf \/ (g.surf.rev = 0 /\ g.surf.val = 0 /\ g.surf.id = w.surf.id)
    BY <1>2, <1>4, WindowShaped, GeometryAppliedIs
  <2> HIDE DEF g
  <2>3. Differ(g, v, {"dirty"})
    BY <2>2 DEF WindowInv, Shaped, Differ, Fields
  <2> HIDE DEF v
  <2>4. WindowInv(v)
    BY <2>2, <2>3, Inert DEF Differ
  <2>5. /\ WindowInv(w') /\ Differ(v, w', {"hover", "bar", "surf"})
        /\ \/ /\ w'.surf.id = v.active /\ w'.surf.rev = ses[Active].rev /\ w'.surf.val = ses[Active].val
              /\ w'.surf.geo = v.applied /\ w'.surf.bumped = FALSE
              /\ ~v.recent => w'.surf.links = TRUE
           \/ /\ v.surf.id = v.active /\ v.surf.geo = v.applied /\ v.surf.val # 0 /\ v.surf.rev = ses[Active].rev
              /\ \A f \in DOMAIN v.surf \ {"mode"} : w'.surf[f] = v.surf[f]
    BY <2>1, <2>4, SyncedIs
  <2>6. /\ v.surf = g.surf /\ v.active = w.active /\ v.recent = w.recent /\ v.applied = win
        /\ w'.active = w.active /\ w'.by = w.by /\ w'.applied = win /\ w'.auto = w.auto
        /\ w'.recent = w.recent /\ w'.restore = w.restore
        /\ DOMAIN v.surf = {"id", "rev", "val", "geo", "mode", "links", "bumped"}
    BY <2>2, <2>3, <2>4, <2>5, WindowShaped DEF WindowInv, Shaped, Differ, Fields
  <2>7. Active = w.active /\ w.active \in live /\ w.active \in Ids /\ w.active # 0
    BY <1>4, ActiveIs
  <2>8. SessionsInv' /\ Known' /\ Told' /\ SameRows
    <3>1. w'.surf.id \in {w.surf.id, w.active}
      BY <2>2, <2>5, <2>6
    <3>2. QED BY <1>1, <1>2, <1>4, <2>1, <2>6, <3>1, GeometryStep
  <2>9. /\ ses[w.active].rev \in Nat /\ ses[w.active].rev # 0 /\ ses[w.active].val \in Nat \ {0}
        /\ ses'[w.active].rev = ses[w.active].rev /\ ses'[w.active].val = ses[w.active].val
        /\ ses'[w.active].err = ses[w.active].err
    BY <2>7, <2>8 DEF PaneInv, SessionsInv, SessionStates, SameRows
  <2>10. CASE /\ w'.surf.id = w.active /\ w'.surf.rev = ses[w.active].rev /\ w'.surf.val = ses[w.active].val
              /\ w'.surf.geo = win /\ w'.surf.bumped = FALSE
              /\ ~w.recent => w'.surf.links = TRUE
    <3>1. RowsInv'
      <4>1. w.recent => w'.restore = TRUE
        BY <2>6 DEF PaneInv, RowsInv
      <4>2. w'.surf.links = TRUE \/ w'.restore = TRUE
        BY <2>10, <4>1
      <4>3. w'.recent = TRUE => w'.restore = TRUE
        BY <2>6 DEF PaneInv, RowsInv
      <4>4. w'.surf.rev = ses'[w'.surf.id].rev /\ w'.surf.val = ses'[w'.surf.id].val
        BY <2>9, <2>10
      <4>5. w'.surf.rev \in Nat /\ w'.surf.rev # 0 /\ w'.surf.val # 0 /\ w'.surf.id # 0
        BY <2>7, <2>9, <2>10
      <4>6. w'.surf.rev <= ses'[w'.surf.id].rev
        BY <4>4, <4>5
      <4>7. QED BY <4>2, <4>3, <4>4, <4>5, <4>6 DEF RowsInv, Row
    <3>2. Current'
      BY <1>1, <2>6, <2>9, <2>10 DEF Current
    <3>3. QED BY <1>2, <2>5, <2>6, <2>8, <3>1, <3>2 DEF PaneInv, Shown
  <2>11. CASE /\ v.surf.id = w.active /\ v.surf.geo = win /\ v.surf.val # 0 /\ v.surf.rev = ses[w.active].rev
              /\ \A f \in DOMAIN v.surf \ {"mode"} : w'.surf[f] = v.surf[f]
    <3>1. g.surf = w.surf
      BY <2>2, <2>6, <2>11
    <3>2. /\ w.surf.id = w.active /\ w.surf.geo = win /\ w.surf.val # 0 /\ w.surf.rev = ses[w.active].rev
          /\ w'.surf.id = w.surf.id /\ w'.surf.rev = w.surf.rev /\ w'.surf.val = w.surf.val
          /\ w'.surf.geo = w.surf.geo /\ w'.surf.links = w.surf.links /\ w'.surf.bumped = w.surf.bumped
      BY <2>6, <2>11, <3>1
    <3>3. RowsInv'
      BY ZenonT(60), <2>6, <2>7, <2>9, <3>2 DEF PaneInv, RowsInv, Row
    <3>4. ses[w.active].err = TRUE \/ ses[w.active].err = FALSE
      BY <2>7 DEF PaneInv, SessionsInv, SessionStates
    <3>5. Current'
      BY ZenonT(60), <1>1, <2>6, <2>9, <3>2, <3>4 DEF PaneInv, RowsInv, Row, Current
    <3>6. QED BY <1>2, <2>5, <2>6, <2>8, <3>3, <3>5 DEF PaneInv, Shown
  <2>12. Active = w.active /\ v.active = w.active /\ v.applied = win /\ (v.recent <=> w.recent)
    BY <2>6, <2>7
  <2>13. CASE /\ w'.surf.id = v.active /\ w'.surf.rev = ses[Active].rev /\ w'.surf.val = ses[Active].val
              /\ w'.surf.geo = v.applied /\ w'.surf.bumped = FALSE
              /\ ~v.recent => w'.surf.links = TRUE
    BY <2>10, <2>12, <2>13
  <2>14. CASE /\ v.surf.id = v.active /\ v.surf.geo = v.applied /\ v.surf.val # 0 /\ v.surf.rev = ses[Active].rev
              /\ \A f \in DOMAIN v.surf \ {"mode"} : w'.surf[f] = v.surf[f]
    BY <2>11, <2>12, <2>14
  <2>15. QED BY <2>5, <2>13, <2>14
<1>5. QED BY <1>3, <1>4

LEMMA WithoutKeeps ==
  ASSUME NEW S, recent \in Seq(S), NEW s
  PROVE  Without(s) \in Seq(S)
<1>1. CASE s \in Range(recent)
  <2> DEFINE i == CHOOSE i \in DOMAIN recent : recent[i] = s
  <2>1. i \in DOMAIN recent
    BY <1>1 DEF Range
  <2>2. i \in 1 .. Len(recent) /\ Len(recent) \in Nat
    BY <2>1, LenProperties
  <2> HIDE DEF i
  <2>3. SubSeq(recent, 1, i - 1) \in Seq(S)
    BY <2>2, SubSeqProperties
  <2>4. SubSeq(recent, i + 1, Len(recent)) \in Seq(S)
    BY <2>2, SubSeqProperties
  <2>5. RemoveAt(recent, i) \in Seq(S)
    BY <2>3, <2>4, ConcatProperties DEF RemoveAt
  <2>6. QED BY <1>1, <2>5 DEF Without, i
<1>2. CASE s \notin Range(recent)
  BY <1>2 DEF Without
<1>3. QED BY <1>1, <1>2

LEMMA TouchedKeeps ==
  ASSUME NEW S, recent \in Seq(S), NEW s \in S
  PROVE  Touched(s) \in Seq(S)
<1>1. Without(s) \in Seq(S)
  BY WithoutKeeps
<1>2. Append(Without(s), s) \in Seq(S)
  BY <1>1, AppendProperties
<1>3. QED BY <1>2 DEF Touched

\* A step of one session, by its worker, a watcher or another window.
LEMMA OneSessionStep ==
  ASSUME PaneInv, NEW s \in Ids, UNCHANGED <<win, w>>, events' \in 0 .. MaxEvents,
         ses' \in [Ids -> SessionStates], \A r \in Ids \ {s} : ses'[r] = ses[r],
         ses'[s].rev # 0, ses[s].watch # "none" => ses'[s].watch # "none",
         live' \subseteq Watched', recent' \in Seq(Watched'), \A r \in Ids \ {s} : r \in live' <=> r \in live,
         w.surf.id = s /\ w.surf.val # 0 /\ w.surf.bumped # TRUE /\ ses'[s].err = FALSE =>
            /\ w.surf.rev <= ses'[s].rev
            /\ w.surf.rev = ses'[s].rev => w.surf.val = ses'[s].val,
         w.active = s /\ s \in live' => \/ ses'[s].watch # "me" \/ ses'[s].token = TRUE
                                        \/ /\ s \in live /\ ses[s].watch = "me" /\ ses[s].token = FALSE
                                           /\ ses'[s].val = ses[s].val /\ ses'[s].err = ses[s].err,
         w.active = s /\ s \in live' => \/ ses'[s].foreign = TRUE \/ ses'[s].err = TRUE
                                        \/ /\ s \in live /\ ses'[s].foreign = ses[s].foreign
                                           /\ ses'[s].err = ses[s].err /\ ses'[s].geo = ses[s].geo
  PROVE  PaneInv'
<1>1. w' = w /\ win' = win
  OBVIOUS
<1>2. Watched \subseteq Watched'
  BY DEF Watched
<1>3. SessionsInv'
  BY <1>1 DEF PaneInv, SessionsInv
<1>4. Known'
  BY <1>1, <1>2 DEF PaneInv, Known
<1>5. RowsInv'
  <2>1. CASE w.surf.val = 0
    BY <1>1, <2>1 DEF PaneInv, RowsInv
  <2>2. CASE w.surf.val # 0 /\ w.surf.id = s
    BY <1>1, <2>2 DEF PaneInv, RowsInv, Row
  <2>3. CASE w.surf.val # 0 /\ w.surf.id # s
    <3>1. ses'[w.surf.id] = ses[w.surf.id]
      BY <2>3 DEF PaneInv, RowsInv, Known, Watched
    <3>2. QED BY <1>1, <2>3, <3>1 DEF PaneInv, RowsInv, Row
  <2>4. QED BY <2>1, <2>2, <2>3
<1>6. Shown'
  <2>1. Rested' <=> Rested
    BY <1>1 DEF Rested
  <2>2. CASE w.active = s
    BY <1>1, <2>1, <2>2 DEF PaneInv, Shown, Current, Watched
  <2>3. CASE w.active # s
    <3>1. w.active \in Ids \/ w.active \notin live'
      BY DEF Watched
    <3>2. QED BY <1>1, <2>1, <2>3, <3>1 DEF PaneInv, Shown, Current
  <2>4. QED BY <2>2, <2>3
<1>7. Told'
  <2>1. CASE w.active = s
    BY <1>1, <2>1 DEF PaneInv, Told
  <2>2. CASE w.active # s
    <3>1. w.active \in Ids \/ w.active \notin live'
      BY DEF Watched
    <3>2. QED BY <1>1, <2>2, <3>1 DEF PaneInv, Told
  <2>3. QED BY <2>1, <2>2
<1>8. QED BY <1>1, <1>3, <1>4, <1>5, <1>6, <1>7 DEF PaneInv

LEMMA WorkerSound ==
  ASSUME PaneInv, NEW s \in Ids, SessionWorker(s)
  PROVE  PaneInv'
<1>1. PICK x : /\ x \in SessionStates /\ ses' = [ses EXCEPT ![s] = x]
               /\ x.rev \in Nat /\ x.rev > 0 /\ x.watch = ses[s].watch /\ x.token = TRUE
               /\ x.geo = ses[s].geo /\ x.foreign = ses[s].foreign
               /\ x.err = TRUE \/ (x.err = FALSE /\ ses[s].err = FALSE /\ x.rev > ses[s].rev)
  <2>1. ses[s] \in SessionStates /\ ses \in [Ids -> SessionStates] /\ ses[s].val + 1 \in Nat \ {0}
        /\ ses[s].rev \in Nat /\ ses[s].rev # 0
    BY DEF PaneInv, SessionsInv, SessionStates
  <2>2. CASE SetError(s)
    <3> DEFINE x == [ses[s] EXCEPT !.val = @ + 1, !.rev = 1, !.err = TRUE, !.screen = "primary", !.token = TRUE]
    <3>1. "primary" \in Screens /\ TRUE \in BOOLEAN /\ 1 \in Nat
      BY ScreensAssumption
    <3>2. x \in SessionStates
      BY <2>1, <3>1, Zenon DEF SessionStates
    <3>3. ses' = [ses EXCEPT ![s] = x]
      BY <2>1, <2>2 DEF SetError, SessionStates
    <3>4. /\ x.rev = 1 /\ x.err = TRUE /\ x.watch = ses[s].watch /\ x.token = TRUE
          /\ x.geo = ses[s].geo /\ x.foreign = ses[s].foreign
      BY <2>1 DEF SessionStates
    <3> HIDE DEF x
    <3>5. x.rev \in Nat /\ x.rev > 0
      BY <3>4
    <3>6. QED BY <3>2, <3>3, <3>4, <3>5
  <2>3. CASE \E screen \in Screens : PublishViewport(s, screen)
    <3>1. PICK screen \in Screens : PublishViewport(s, screen)
      BY <2>3
    <3>2. PICK r \in IF ses[s].rev = 1 THEN {3} ELSE {ses[s].rev + 1, ses[s].rev + 2} :
             ses' = [ses EXCEPT ![s].val = @ + 1, ![s].rev = r, ![s].screen = screen, ![s].token = TRUE]
      BY <3>1 DEF PublishViewport
    <3>3. r \in Nat /\ r > ses[s].rev /\ TRUE \in BOOLEAN
      BY <2>1, <3>2
    <3> DEFINE x == [ses[s] EXCEPT !.val = @ + 1, !.rev = r, !.screen = screen, !.token = TRUE]
    <3>4. x \in SessionStates
      BY <2>1, <3>3, Zenon DEF SessionStates
    <3>5. ses' = [ses EXCEPT ![s] = x]
      BY <2>1, <3>2 DEF SessionStates
    <3>6. /\ x.rev = r /\ x.watch = ses[s].watch /\ x.token = TRUE
          /\ x.geo = ses[s].geo /\ x.foreign = ses[s].foreign /\ x.err = ses[s].err
      BY <2>1 DEF SessionStates
    <3>7. ses[s].err = FALSE
      BY <2>1, <3>1 DEF PublishViewport, SessionStates
    <3> HIDE DEF x
    <3>8. x.rev \in Nat /\ x.rev > 0
      BY SMTT(30), <2>1, <3>3, <3>6
    <3>9. QED BY <3>3, <3>4, <3>5, <3>6, <3>7, <3>8
  <2>4. QED BY <2>2, <2>3 DEF SessionWorker
<1>2. UNCHANGED <<live, recent, win, w, events>> /\ s \in live
  BY DEF SessionWorker, SetError, PublishViewport
<1>3. /\ ses' \in [Ids -> SessionStates] /\ ses'[s] = x /\ \A r \in Ids \ {s} : ses'[r] = ses[r]
      /\ ses \in [Ids -> SessionStates] /\ ses[s].rev \in Nat
  BY <1>1 DEF PaneInv, SessionsInv, SessionStates
<1>4. Watched' = Watched
  BY <1>1, <1>3 DEF Watched
<1>5. /\ live' \subseteq Watched' /\ recent' \in Seq(Watched') /\ events' \in 0 .. MaxEvents
  BY <1>2, <1>4 DEF PaneInv, SessionsInv
<1>6. w.surf.id = s /\ w.surf.val # 0 /\ w.surf.bumped # TRUE /\ x.err = FALSE => w.surf.rev <= x.rev /\ w.surf.rev # x.rev
  <2>1. SUFFICES ASSUME w.surf.id = s, w.surf.val # 0, w.surf.bumped # TRUE, x.err = FALSE
                 PROVE  w.surf.rev <= x.rev /\ w.surf.rev # x.rev
    OBVIOUS
  <2>2. ses[s].err = FALSE /\ x.rev > ses[s].rev
    BY <1>1, <2>1
  <2>3. w.surf.rev \in Nat /\ w.surf.rev <= ses[s].rev
    BY <2>1, <2>2 DEF PaneInv, RowsInv, Row
  <2>4. QED BY <1>1, <1>3, <2>2, <2>3
<1>7. x.rev # 0
  BY <1>1
<1>8. x.err = TRUE \/ x.err = ses[s].err
  BY <1>1
<1>9. QED BY ZenonT(60), <1>1, <1>2, <1>3, <1>5, <1>6, <1>7, <1>8, OneSessionStep

LEMMA WatcherReceivesSound ==
  ASSUME PaneInv, NEW s \in Ids, WatcherReceives(s)
  PROVE  PaneInv'
<1>1. /\ ses[s].watch = "me" /\ ses' = [ses EXCEPT ![s].token = FALSE, ![s].watch = "drained"]
      /\ UNCHANGED <<live, recent, win, w, events>>
  BY DEF WatcherReceives
<1>2. ses \in [Ids -> SessionStates] /\ ses[s] \in SessionStates /\ FALSE \in BOOLEAN
  BY DEF PaneInv, SessionsInv
<1> DEFINE x == [ses[s] EXCEPT !.token = FALSE, !.watch = "drained"]
<1>3. x \in SessionStates
  BY <1>2, Zenon DEF SessionStates
<1>4. ses' = [ses EXCEPT ![s] = x]
  BY <1>1, <1>2 DEF SessionStates
<1>5. /\ x.rev = ses[s].rev /\ x.watch = "drained" /\ x.val = ses[s].val
      /\ x.geo = ses[s].geo /\ x.foreign = ses[s].foreign /\ x.err = ses[s].err
  BY <1>2 DEF SessionStates
<1> HIDE DEF x
<1>6. ses' \in [Ids -> SessionStates] /\ ses'[s] = x /\ \A r \in Ids \ {s} : ses'[r] = ses[r]
  BY <1>2, <1>3, <1>4
<1>7. Watched' = Watched
  BY <1>1, <1>5, <1>6 DEF Watched
<1>8. /\ live' \subseteq Watched' /\ recent' \in Seq(Watched') /\ events' \in 0 .. MaxEvents
  BY <1>1, <1>7 DEF PaneInv, SessionsInv
<1>9. w.surf.id = s /\ w.surf.val # 0 /\ w.surf.bumped # TRUE /\ x.err = FALSE =>
            /\ w.surf.rev <= x.rev
            /\ w.surf.rev = x.rev => w.surf.val = x.val
  BY <1>5 DEF PaneInv, RowsInv, Row
<1>10. x.rev # 0 /\ x.watch # "none" /\ x.watch # "me" /\ (s \in live' => s \in live)
  BY <1>1, <1>5 DEF PaneInv, SessionsInv
<1>11. \A r \in Ids \ {s} : r \in live' <=> r \in live
  BY <1>1
<1>12. QED BY <1>1, <1>5, <1>6, <1>8, <1>9, <1>10, <1>11, OneSessionStep

LEMMA WatcherUpdatesSound ==
  ASSUME PaneInv, NEW s \in Ids, WatcherUpdates(s)
  PROVE  PaneInv'
<1>1. /\ ses[s].watch = "drained" /\ ses' = [ses EXCEPT ![s].watch = "me"] /\ w' = Requested(w)
      /\ UNCHANGED <<live, recent, win, events>>
  BY DEF WatcherUpdates
<1>2. ses \in [Ids -> SessionStates] /\ ses[s] \in SessionStates
  BY DEF PaneInv, SessionsInv
<1> DEFINE x == [ses[s] EXCEPT !.watch = "me"]
<1>3. x \in SessionStates
  BY <1>2, Zenon DEF SessionStates
<1>4. ses' = [ses EXCEPT ![s] = x]
  BY <1>1, <1>2 DEF SessionStates
<1>5. /\ x.rev = ses[s].rev /\ x.watch = "me" /\ x.val = ses[s].val
      /\ x.geo = ses[s].geo /\ x.foreign = ses[s].foreign /\ x.err = ses[s].err
  BY <1>2 DEF SessionStates
<1> HIDE DEF x
<1>6. ses' \in [Ids -> SessionStates] /\ ses'[s] = x /\ \A r \in Ids \ {s} : ses'[r] = ses[r]
  BY <1>2, <1>3, <1>4
<1>7. Watched' = Watched
  BY <1>1, <1>5, <1>6 DEF Watched
<1>8. /\ \A r \in Ids : /\ ses'[r].rev = ses[r].rev /\ ses'[r].val = ses[r].val /\ ses'[r].err = ses[r].err
                        /\ ses'[r].geo = ses[r].geo /\ ses'[r].foreign = ses[r].foreign
  BY <1>5, <1>6
<1>9. SessionsInv'
  BY <1>1, <1>6, <1>7, <1>8 DEF PaneInv, SessionsInv
<1>10. WindowInv(w') /\ Kept(w, w') /\ w'.sched = TRUE /\ w'.auto # "armed"
  BY <1>1, WindowShaped, RequestedSound, FineHandlers DEF Fine, PaneInv
<1>11. /\ w'.active = w.active /\ w'.by = w.by /\ w'.applied = w.applied /\ w'.surf = w.surf
       /\ w'.recent = w.recent /\ w'.restore = w.restore
  BY <1>10 DEF Kept, Pane
<1>12. Known'
  BY <1>7, <1>11 DEF PaneInv, Known
<1>13. RowsInv'
  BY ZenonT(60), <1>8, <1>11 DEF PaneInv, RowsInv, Row, Known, Watched
<1>14. Told'
  <2>1. w.active \in live => w.active \in Ids
    BY ActiveIs
  <2>2. QED BY <1>1, <1>8, <1>11, <2>1 DEF PaneInv, Told
<1>15. QED BY <1>9, <1>10, <1>12, <1>13, <1>14, RequestedStep

\* A step of another window: a session opened, selected or closed.
LEMMA OtherWindowSound ==
  ASSUME PaneInv, NEW s \in Ids,
         OtherSpawns(s) \/ OtherCloses(s) \/ \E geo \in Sizes : OtherSelects(s, geo)
  PROVE  PaneInv'
<1>1. events' \in 0 .. MaxEvents /\ UNCHANGED <<win, w>>
  BY PaneBoundsAssumption DEF OtherSpawns, OtherCloses, OtherSelects, Event, PaneInv, SessionsInv
<1>2. /\ ses \in [Ids -> SessionStates] /\ ses[s] \in SessionStates /\ ses[s].rev # 0
      /\ live \subseteq Watched /\ recent \in Seq(Watched)
  BY DEF PaneInv, SessionsInv
<1>3. CASE OtherSpawns(s)
  <2> DEFINE x == NewSession("other")
  <2>1. /\ s \notin live /\ ses[s].watch = "none" /\ live' = live \cup {s} /\ recent' = Append(recent, s)
        /\ ses' = [ses EXCEPT ![s] = x]
    BY <1>3 DEF OtherSpawns
  <2>2. x \in SessionStates /\ x.rev = 1 /\ x.watch = "other"
    BY ScreensAssumption DEF NewSession, SessionStates
  <2> HIDE DEF x
  <2>3. ses' \in [Ids -> SessionStates] /\ ses'[s] = x /\ \A r \in Ids \ {s} : ses'[r] = ses[r]
    BY <1>2, <2>1, <2>2
  <2>4. Watched' = Watched \cup {s}
    BY <2>1, <2>2, <2>3 DEF Watched
  <2>5. live' \subseteq Watched' /\ \A r \in Ids \ {s} : r \in live' <=> r \in live
    BY <1>2, <2>1, <2>4
  <2>6. recent' \in Seq(Watched')
    <3>1. recent \in Seq(Watched')
      BY <1>2, <2>4, SeqMonotonic
    <3>2. QED BY <2>1, <2>4, <3>1, AppendProperties
  <2>7. w.surf.id # s /\ w.active # s
    BY <2>1, IdsAssumption DEF PaneInv, Known, Watched
  <2>8. ses'[s].rev # 0 /\ ses'[s].watch # "none"
    BY <2>2, <2>3
  <2>9. QED BY <1>1, <2>3, <2>5, <2>6, <2>7, <2>8, OneSessionStep
<1>4. CASE OtherCloses(s)
  <2>1. ses' = ses /\ live' = live \ {s} /\ recent' = Without(s)
    BY <1>4 DEF OtherCloses
  <2>2. Watched' = Watched /\ recent' \in Seq(Watched')
    BY <1>2, <2>1, WithoutKeeps DEF Watched
  <2>3. live' \subseteq Watched' /\ (\A r \in Ids \ {s} : r \in live' <=> r \in live) /\ s \notin live'
    BY <1>2, <2>1, <2>2
  <2>4. w.surf.id = s /\ w.surf.val # 0 /\ w.surf.bumped # TRUE /\ ses'[s].err = FALSE =>
            /\ w.surf.rev <= ses'[s].rev
            /\ w.surf.rev = ses'[s].rev => w.surf.val = ses'[s].val
    BY <2>1 DEF PaneInv, RowsInv, Row
  <2>5. QED BY <1>1, <1>2, <2>1, <2>2, <2>3, <2>4, OneSessionStep
<1>5. CASE \E geo \in Sizes : OtherSelects(s, geo)
  <2>1. PICK geo \in Sizes : OtherSelects(s, geo)
    BY <1>5
  <2> DEFINE t == ToldGeometry(s, geo)
             x == [t[s] EXCEPT !.foreign = TRUE]
  <2>2. s \in live /\ live' = live /\ recent' = Touched(s) /\ ses' = [t EXCEPT ![s].foreign = TRUE]
    BY <2>1 DEF OtherSelects
  <2>3. /\ t \in [Ids -> SessionStates]
        /\ \A r \in Ids : /\ t[r].rev = ses[r].rev /\ t[r].val = ses[r].val /\ t[r].err = ses[r].err
                          /\ t[r].screen = ses[r].screen /\ t[r].token = ses[r].token
                          /\ t[r].watch = ses[r].watch
    <3>1. geo \in 0 .. 2
      BY DEF Sizes
    <3>2. QED BY ZenonT(60), <3>1, ToldGeometryIs
  <2>4. \A r \in Ids \ {s} : t[r] = ses[r]
    BY <1>2 DEF ToldGeometry
  <2> HIDE DEF t
  <2>5. t[s] \in SessionStates /\ TRUE \in BOOLEAN
    BY <2>3
  <2>6. x \in SessionStates
    BY <2>5, Zenon DEF SessionStates
  <2>7. ses' = [t EXCEPT ![s] = x]
    BY <2>2, <2>3 DEF SessionStates
  <2>8. /\ x.rev = ses[s].rev /\ x.watch = ses[s].watch /\ x.val = ses[s].val /\ x.token = ses[s].token
        /\ x.foreign = TRUE /\ x.err = ses[s].err
    BY <2>3, <2>5 DEF SessionStates
  <2> HIDE DEF x
  <2>9. ses' \in [Ids -> SessionStates] /\ ses'[s] = x /\ \A r \in Ids \ {s} : ses'[r] = ses[r]
    BY <2>3, <2>4, <2>6, <2>7
  <2>10. Watched' = Watched
    BY <2>8, <2>9 DEF Watched
  <2>11. live' \subseteq Watched' /\ recent' \in Seq(Watched')
    BY <1>2, <2>2, <2>10, TouchedKeeps
  <2>12. w.surf.id = s /\ w.surf.val # 0 /\ w.surf.bumped # TRUE /\ x.err = FALSE =>
            /\ w.surf.rev <= x.rev
            /\ w.surf.rev = x.rev => w.surf.val = x.val
    BY <2>8 DEF PaneInv, RowsInv, Row
  <2>13. \/ x.watch # "me" \/ x.token = TRUE
         \/ /\ s \in live /\ ses[s].watch = "me" /\ ses[s].token = FALSE /\ x.val = ses[s].val /\ x.err = ses[s].err
    <3>1. ses[s].token \in BOOLEAN
      BY <1>2 DEF SessionStates
    <3>2. QED BY <2>2, <2>8, <3>1
  <2>14. x.rev # 0 /\ (ses[s].watch # "none" => x.watch # "none")
    BY <1>2, <2>8
  <2>15. \A r \in Ids \ {s} : r \in live' <=> r \in live
    BY <2>2
  <2>16. QED BY <1>1, <2>8, <2>9, <2>11, <2>12, <2>13, <2>14, <2>15, OneSessionStep
<1>6. QED BY <1>3, <1>4, <1>5

\* The window switches to a session: nothing of the old one is left to act on the new one.
LEMMA SwitchStep ==
  ASSUME NEW v, Switching(v), w' = ViewRefreshed(v), SessionsInv',
         {v.active, v.surf.id} \subseteq Watched' \cup {0},
         v.active \in live' /\ v.by = "user" /\ ses'[v.active].foreign = FALSE /\ ses'[v.active].err = FALSE
           => v.applied = 0 \/ ses'[v.active].geo = v.applied
  PROVE  PaneInv'
<1>1. /\ WindowInv(w') /\ w'.auto = "off" /\ w'.sched = TRUE /\ w'.recent = FALSE
      /\ w'.active = v.active /\ w'.by = v.by /\ w'.tab = v.tab /\ w'.applied = v.applied
      /\ w'.surf.rev = 0 /\ w'.surf.val = 0 /\ w'.surf.id = v.surf.id
  BY ViewRefreshedSound
<1>2. Known' /\ Told'
  BY <1>1 DEF Known, Told
<1>3. RowsInv'
  BY <1>1 DEF RowsInv
<1>4. QED BY <1>1, <1>2, <1>3, RequestedStep

\* The window that is about to switch: the session, how it came to show it, the tab.
LEMMA SwitchingFrom ==
  ASSUME WindowInv(w), NEW v, Differ(w, v, {"active", "by", "ime", "tab", "applied"}),
         v.active \in Owner, v.applied \in 0 .. 2, v.ime = 0
  PROVE  Switching(v) /\ v.surf = w.surf
<1>1. /\ DOMAIN v = Fields /\ v.surf = w.surf /\ v.scroll = w.scroll /\ v.probe = w.probe /\ v.cbs = w.cbs
      /\ v.defers = w.defers /\ v.auto = w.auto /\ v.sched = w.sched /\ v.bar = w.bar
  BY DEF WindowInv, Shaped, Differ, Fields
<1>2. Flagged(v)
  BY <1>1, SameFlags DEF WindowInv
<1>3. QED BY <1>1, <1>2 DEF WindowInv, Shaped, Owned, Switching

LEMMA SpawnSound ==
  ASSUME PaneInv, NEW s \in Ids, NEW remote \in BOOLEAN, Spawn(s, remote)
  PROVE  PaneInv'
<1> DEFINE x == [NewSession("me") EXCEPT !.geo = w.applied]
           v == [w EXCEPT !.active = s, !.by = "user", !.ime = 0, !.tab = IF remote THEN "terminal" ELSE @]
<1>1. /\ events < MaxEvents /\ events' = events + 1 /\ s \notin live /\ ses[s].watch = "none"
      /\ live' = live \cup {s} /\ recent' = Append(recent, s) /\ ses' = [ses EXCEPT ![s] = x]
      /\ w' = ViewRefreshed(v) /\ win' = win
  BY DEF Spawn, Event
<1>2. /\ ses \in [Ids -> SessionStates] /\ live \subseteq Watched /\ recent \in Seq(Watched) /\ win \in Sizes
      /\ w.applied \in 0 .. 2 /\ w.surf.id \in Watched \cup {0}
      /\ \A r \in Ids : ses[r].rev # 0
  BY DEF PaneInv, SessionsInv, WindowInv, Owned, Known
<1>3. events' \in 0 .. MaxEvents
  BY <1>1, PaneBoundsAssumption DEF PaneInv, SessionsInv
<1>4. x \in SessionStates
  <2>1. NewSession("me") \in SessionStates
    BY ScreensAssumption DEF NewSession, SessionStates
  <2>2. QED BY <1>2, <2>1, Zenon DEF SessionStates
<1>5. x.rev = 1 /\ x.watch = "me" /\ x.geo = w.applied
  BY DEF NewSession
<1> HIDE DEF x
<1>6. ses' \in [Ids -> SessionStates] /\ ses'[s] = x /\ \A r \in Ids \ {s} : ses'[r] = ses[r]
  BY <1>1, <1>2, <1>4
<1>7. Watched' = Watched \cup {s}
  BY <1>1, <1>5, <1>6 DEF Watched
<1>8. SessionsInv'
  <2>1. recent' \in Seq(Watched')
    <3>1. recent \in Seq(Watched')
      BY <1>2, <1>7, SeqMonotonic
    <3>2. QED BY <1>1, <1>7, <3>1, AppendProperties
  <2>2. \A r \in Ids : ses'[r].rev # 0
    BY <1>2, <1>5, <1>6
  <2>3. QED BY <1>1, <1>2, <1>3, <1>6, <1>7, <2>1, <2>2 DEF SessionsInv
<1>9. /\ Differ(w, v, {"active", "by", "ime", "tab", "applied"}) /\ v.active = s /\ v.ime = 0 /\ v.applied = w.applied
  BY WindowShaped DEF Differ, Fields
<1> HIDE DEF v
<1>10. Switching(v) /\ v.surf = w.surf
  BY <1>2, <1>9, WindowShaped, SwitchingFrom DEF Owner
<1>11. {v.active, v.surf.id} \subseteq Watched' \cup {0}
  BY <1>2, <1>7, <1>9, <1>10
<1>12. QED BY <1>1, <1>5, <1>6, <1>8, <1>9, <1>10, <1>11, SwitchStep

LEMMA SelectSound ==
  ASSUME PaneInv, NEW s \in Ids, Select(s)
  PROVE  PaneInv'
<1> DEFINE v == [w EXCEPT !.active = s, !.by = "user", !.ime = 0]
           t == ToldGeometry(s, w.applied)
<1>1. /\ events < MaxEvents /\ events' = events + 1 /\ ses[s].watch # "none" /\ recent' = Touched(s)
      /\ ses' = (IF w.applied # 0 THEN t ELSE ses) /\ w' = ViewRefreshed(v) /\ live' = live /\ win' = win
  BY DEF Select, Event, SelectionTold
<1>2. /\ ses \in [Ids -> SessionStates] /\ live \subseteq Watched /\ recent \in Seq(Watched) /\ win \in Sizes
      /\ w.applied \in 0 .. 2 /\ w.surf.id \in Watched \cup {0}
      /\ \A r \in Ids : ses[r].rev # 0
  BY DEF PaneInv, SessionsInv, WindowInv, Owned, Known
<1>3. events' \in 0 .. MaxEvents
  BY <1>1, PaneBoundsAssumption DEF PaneInv, SessionsInv
<1>4. /\ t \in [Ids -> SessionStates]
      /\ \A r \in Ids : /\ t[r].rev = ses[r].rev /\ t[r].val = ses[r].val /\ t[r].err = ses[r].err
                        /\ t[r].screen = ses[r].screen /\ t[r].token = ses[r].token
                        /\ t[r].watch = ses[r].watch
      /\ \A r \in Ids \ {s} : t[r].geo = ses[r].geo /\ t[r].foreign = ses[r].foreign
      /\ s \in live /\ ses[s].err = FALSE => t[s].geo = w.applied /\ t[s].foreign = FALSE
  BY ZenonT(60), <1>2, ToldGeometryIs
<1> HIDE DEF t
<1>5. /\ ses' \in [Ids -> SessionStates]
      /\ \A r \in Ids : ses'[r].rev = ses[r].rev /\ ses'[r].watch = ses[r].watch /\ ses'[r].err = ses[r].err
  BY <1>1, <1>2, <1>4
<1>6. Watched' = Watched /\ s \in Watched
  BY <1>1, <1>5 DEF Watched
<1>7. SessionsInv'
  <2>1. recent' \in Seq(Watched')
    BY <1>1, <1>2, <1>6, TouchedKeeps
  <2>2. QED BY <1>1, <1>2, <1>3, <1>5, <1>6, <2>1 DEF SessionsInv
<1>8. /\ Differ(w, v, {"active", "by", "ime", "tab", "applied"}) /\ v.active = s /\ v.ime = 0 /\ v.applied = w.applied
  BY WindowShaped DEF Differ, Fields
<1> HIDE DEF v
<1>9. Switching(v) /\ v.surf = w.surf
  BY <1>2, <1>8, WindowShaped, SwitchingFrom DEF Owner
<1>10. {v.active, v.surf.id} \subseteq Watched' \cup {0}
  BY <1>2, <1>6, <1>8, <1>9
<1>11. s \in live' /\ ses'[s].err = FALSE => w.applied = 0 \/ ses'[s].geo = w.applied
  BY <1>1, <1>4, <1>5
<1>12. QED BY <1>1, <1>7, <1>8, <1>9, <1>10, <1>11, SwitchStep

LEMMA CloseSound ==
  ASSUME PaneInv, NEW s \in Ids, Close(s)
  PROVE  PaneInv'
<1> DEFINE rest == Without(s)
           next == IF rest = <<>> THEN 0 ELSE Last(rest)
           now == IF w.active = s THEN next ELSE w.active
           v == [w EXCEPT !.active = now, !.ime = 0, !.by = IF w.active = s THEN "close" ELSE @,
                          !.applied = IF now = 0 THEN 0 ELSE @]
<1>1. /\ events < MaxEvents /\ events' = events + 1 /\ live' = live \ {s} /\ recent' = rest
      /\ w' = ViewRefreshed(v) /\ ses' = ses /\ win' = win
  BY DEF Close, Event
<1>2. /\ ses \in [Ids -> SessionStates] /\ live \subseteq Watched /\ recent \in Seq(Watched) /\ win \in Sizes
      /\ w.applied \in 0 .. 2 /\ w.surf.id \in Watched \cup {0} /\ w.active \in Watched \cup {0}
      /\ \A r \in Ids : ses[r].rev # 0
  BY DEF PaneInv, SessionsInv, WindowInv, Owned, Known
<1>3. events' \in 0 .. MaxEvents
  BY <1>1, PaneBoundsAssumption DEF PaneInv, SessionsInv
<1>4. Watched' = Watched /\ rest \in Seq(Watched)
  BY <1>1, <1>2, WithoutKeeps DEF Watched
<1> HIDE DEF rest
<1>5. next \in Watched \cup {0}
  <2>1. CASE rest = <<>>
    BY <2>1
  <2>2. CASE rest # <<>>
    <3>1. Len(rest) \in 1 .. Len(rest)
      BY <1>4, <2>2, LenProperties, EmptySeq
    <3>2. rest[Len(rest)] \in Watched
      BY <1>4, <3>1, ElementOfSeq
    <3>3. QED BY <2>2, <3>2 DEF Last
  <2>3. QED BY <2>1, <2>2
<1> HIDE DEF next
<1>6. now \in Watched \cup {0} /\ now \in Owner
  BY <1>2, <1>5 DEF Watched, Owner
<1>7. SessionsInv'
  BY <1>1, <1>2, <1>3, <1>4 DEF SessionsInv
<1>8. /\ Differ(w, v, {"active", "by", "ime", "tab", "applied"}) /\ v.active = now /\ v.ime = 0
      /\ v.applied = IF now = 0 THEN 0 ELSE w.applied
      /\ v.by = IF w.active = s THEN "close" ELSE w.by
  BY WindowShaped DEF Differ, Fields
<1> HIDE DEF v
<1>9. Switching(v) /\ v.surf = w.surf
  <2>1. v.applied \in 0 .. 2
    BY <1>2, <1>8
  <2>2. QED BY <1>6, <1>8, <2>1, WindowShaped, SwitchingFrom
<1>10. {v.active, v.surf.id} \subseteq Watched' \cup {0}
  BY <1>2, <1>4, <1>6, <1>8, <1>9
<1>11. v.active \in live' /\ v.by = "user" /\ ses'[v.active].foreign = FALSE /\ ses'[v.active].err = FALSE
       => v.applied = 0 \/ ses'[v.active].geo = v.applied
  <2>1. CASE w.active = s
    BY <1>8, <2>1
  <2>2. CASE w.active # s
    BY <1>1, <1>8, <2>2 DEF PaneInv, Told
  <2>3. QED BY <2>1, <2>2
<1>12. QED BY <1>1, <1>7, <1>9, <1>10, <1>11, SwitchStep

\* The window as it opens, with a session of its own at its geometry.
LEMMA PaneStarts ==
  ASSUME PaneInit
  PROVE  PaneInv
<1> DEFINE opened == [NoWindow EXCEPT !.active = 1, !.applied = 1]
           x == [NewSession("me") EXCEPT !.geo = 1]
           y == NewSession("none")
<1>1. /\ live \in {{1}, Ids} /\ events = 0 /\ win = 1
      /\ recent \in [1 .. Cardinality(live) -> live]
      /\ ses = [s \in Ids |-> IF s \in live THEN x ELSE y]
      /\ w = IF live = {1} THEN opened ELSE ViewRefreshed(opened)
  BY Zenon DEF PaneInit
<1>2. 1 \in live /\ live \subseteq Ids /\ IsFiniteSet(live)
  <2>1. IsFiniteSet({1}) /\ IsFiniteSet(Ids) /\ 1 \in Ids
    BY IdsAssumption, FS_Singleton
  <2>2. live = {1} \/ live = Ids
    BY <1>1
  <2>3. QED BY <2>1, <2>2
<1>3. x \in SessionStates /\ x.rev = 1 /\ x.watch = "me" /\ x.geo = 1
  <2>1. NewSession("me") \in SessionStates
    BY ScreensAssumption DEF NewSession, SessionStates
  <2>2. 1 \in 0 .. 2
    OBVIOUS
  <2>3. x \in SessionStates
    BY <2>1, <2>2, Zenon DEF SessionStates
  <2>4. QED BY <2>3 DEF NewSession
<1>4. y \in SessionStates /\ y.rev = 1
  BY ScreensAssumption DEF NewSession, SessionStates
<1> HIDE DEF x, y
<1>5. ses \in [Ids -> SessionStates] /\ \A s \in Ids : ses[s].rev # 0
  BY <1>1, <1>3, <1>4
<1>6. live \subseteq Watched
  BY <1>1, <1>2, <1>3 DEF Watched
<1>7. recent \in Seq(Watched)
  <2>1. Cardinality(live) \in Nat
    BY <1>2, FS_CardinalityType
  <2>2. recent \in Seq(live)
    BY <1>1, <2>1, IsASeq
  <2>3. QED BY <1>6, <2>2, SeqMonotonic
<1>8. SessionsInv
  BY <1>1, <1>5, <1>6, <1>7, PaneBoundsAssumption DEF SessionsInv, Sizes
<1>9. /\ DOMAIN opened = Fields /\ opened.surf = NoSurface /\ opened.active = 1 /\ opened.applied = 1 /\ opened.by = "user"
      /\ opened.cbs = <<>> /\ opened.sched = FALSE /\ opened.defers = 0 /\ opened.dirty = TRUE
      /\ opened.scroll = [who |-> 0, what |-> "none", sched |-> FALSE] /\ opened.recent = FALSE
      /\ opened.auto = "off" /\ opened.anchor = 0 /\ opened.sel = 0 /\ opened.turn = 0 /\ opened.ime = 0
      /\ opened.bar = 0 /\ opened.probe = [on |-> FALSE, sched |-> FALSE]
  BY DEF NoWindow, Fields
<1> HIDE DEF opened
<1>10. WindowInv(opened)
  <2>1. Shaped(opened)
    <3>1. DOMAIN NoSurface = {"id", "rev", "val", "geo", "mode", "links", "bumped"}
      BY DEF NoSurface
    <3>2. <<>> \in Seq(Callbacks)
      BY EmptySeq
    <3>3. QED BY <1>9, <3>1, <3>2 DEF Shaped
  <2>2. Owned(opened)
    BY <1>2, <1>9 DEF Owned, Owner, MAX_FRAME_DEFERS
  <2>3. \A k : One(<<>>, k, FALSE)
    BY DEF One
  <2>4. FlushesFresh(<<>>)
    BY DEF FlushesFresh
  <2>5. /\ ~(opened.sched = TRUE) /\ ~(opened.scroll.sched = TRUE)
        /\ ~(opened.auto = "scheduled") /\ ~(opened.probe.sched = TRUE)
    BY <1>9
  <2>6. /\ One(opened.cbs, "flush", opened.sched = TRUE) /\ One(opened.cbs, "scroll", opened.scroll.sched = TRUE)
        /\ One(opened.cbs, "auto", opened.auto = "scheduled")
        /\ One(opened.cbs, "probe", opened.probe.sched = TRUE)
    BY <1>9, <2>3, <2>5 DEF One
  <2>7. QED BY <1>9, <2>1, <2>2, <2>4, <2>6 DEF WindowInv, Flagged
<1>11. /\ WindowInv(w) /\ w.auto = "off" /\ w.recent = FALSE /\ w.active = 1 /\ w.applied = 1
       /\ w.surf.id = 0 /\ w.surf.rev = 0 /\ w.surf.val = 0 /\ (w.sched = TRUE \/ w.dirty = TRUE)
  <2>1. CASE live = {1}
    BY <1>1, <1>9, <1>10, <2>1 DEF NoSurface
  <2>2. CASE live # {1}
    <3>1. Switching(opened)
      BY <1>9, <1>10 DEF Switching, WindowInv, Owned
    <3>2. w = ViewRefreshed(opened)
      BY <1>1, <2>2
    <3>3. /\ WindowInv(w) /\ w.auto = "off" /\ w.sched = TRUE /\ w.recent = FALSE
          /\ w.active = opened.active /\ w.applied = opened.applied
          /\ w.surf.rev = 0 /\ w.surf.val = 0 /\ w.surf.id = opened.surf.id
      BY <3>1, <3>2, ViewRefreshedSound
    <3>4. opened.surf.id = 0
      BY <1>9 DEF NoSurface
    <3>5. QED BY <1>9, <3>3, <3>4
  <2>3. QED BY <2>1, <2>2
<1>12. Known /\ RowsInv /\ Shown
  <2>1. 1 \in Watched
    BY <1>2, <1>6
  <2>2. Known
    BY <1>11, <2>1 DEF Known
  <2>3. RowsInv
    BY <1>11 DEF RowsInv
  <2>4. Shown
    BY <1>11 DEF Shown, Rested
  <2>5. QED BY <2>2, <2>3, <2>4
<1>13. Told
  BY <1>1, <1>2, <1>3, <1>11 DEF Told
<1>14. QED BY <1>8, <1>11, <1>12, <1>13 DEF PaneInv

\* What the user does keeps the invariant.
LEMMA UserEventSound ==
  ASSUME PaneInv, UserEvent
  PROVE  PaneInv'
<1>1. CASE Sessions
  <2>1. PICK s \in Ids : \/ \E remote \in BOOLEAN : Spawn(s, remote)
                         \/ Select(s) \/ Close(s) \/ OtherSpawns(s) \/ OtherCloses(s)
                         \/ \E geo \in Sizes : OtherSelects(s, geo)
    BY <1>1, Zenon DEF Sessions
  <2>2. CASE \E remote \in BOOLEAN : Spawn(s, remote)
    BY <2>2, SpawnSound
  <2>3. CASE Select(s)
    BY <2>3, SelectSound
  <2>4. CASE Close(s)
    BY <2>4, CloseSound
  <2>5. CASE OtherSpawns(s) \/ OtherCloses(s) \/ \E geo \in Sizes : OtherSelects(s, geo)
    BY <2>5, OtherWindowSound, Zenon
  <2>6. QED BY <2>1, <2>2, <2>3, <2>4, <2>5
<1>2. CASE Pointer
  BY <1>2, ScrollWheelSound, MouseDownSound, MouseMoveSound, MouseUpSound, Zenon DEF Pointer
<1>3. CASE ScrollbackKey \/ InputKey
  BY <1>3, KeySound DEF InputKey
<1>4. CASE Compose \/ Commit \/ UnmarkText
  BY <1>4, ComposeSound DEF UnmarkText
<1>5. CASE ModifiersChanged
  BY <1>5, ModifiersChangedSound
<1>6. CASE SessionCommand
  <2>1. CASE TogglePerf
    BY <2>1, PerfAndTabSound
  <2>2. CASE CopyPreviousTurn \/ \E found \in BOOLEAN : SelectPreviousTurn(found)
    BY <2>2, PreviousTurnSound
  <2>3. CASE \/ \E step \in {-1, 1} : SelectNeighbour(step)
             \/ \E i \in 1 .. Cardinality(Ids) : SelectSlot(i)
    <3>1. PICK s \in live : Select(s)
      BY <2>3, Zenon DEF SelectNeighbour, SelectSlot
    <3>2. s \in Ids
      BY <3>1, ActiveIs
    <3>3. QED BY <3>1, <3>2, SelectSound
  <2>4. QED BY <1>6, <2>1, <2>2, <2>3, Zenon DEF SessionCommand
<1>7. CASE \E size \in Sizes : BoundsChange(size) \/ \E hud \in BOOLEAN : ApplyConfig(size, hud)
  BY <1>7, BoundsChangeSound, ApplyConfigSound, Zenon
<1>8. CASE \E tab \in {"terminal", "other"} : ShowTab(tab)
  BY <1>8, PerfAndTabSound
<1>9. QED BY <1>1, <1>2, <1>3, <1>4, <1>5, <1>6, <1>7, <1>8, Zenon DEF UserEvent

LEMMA PaneStep == PaneInv /\ [PaneNext]_paneVars => PaneInv'
<1> SUFFICES ASSUME PaneInv, [PaneNext]_paneVars
             PROVE  PaneInv'
  OBVIOUS
<1>1. CASE UserEvent
  BY <1>1, UserEventSound
<1>2. CASE Closure
  BY <1>2, FlushSound, GeometryTickSound, ScrollTickSound, AutoTickSound, ProbeTickSound DEF Closure
<1>3. CASE Render
  BY <1>3, RenderSound
<1>4. CASE DelayPasses \/ RestoreLinks
  BY <1>4, DelayPassesSound, RestoreLinksSound
<1>5. ASSUME NEW s \in Ids, SessionWorker(s) \/ Watcher(s)
      PROVE  PaneInv'
  BY <1>5, WorkerSound, WatcherReceivesSound, WatcherUpdatesSound DEF Watcher
<1>6. CASE UNCHANGED paneVars
  <2>1. UNCHANGED <<live, recent, ses, win, w, events>>
    BY <1>6 DEF paneVars
  <2>2. QED BY ZenonT(60), <2>1 DEF PaneInv, SessionsInv, Watched, Known, RowsInv, Row, Shown, Rested, Current, Told
<1>7. QED BY <1>1, <1>2, <1>3, <1>4, <1>5, <1>6 DEF PaneNext

\* However sessions are opened, switched and closed, here and in another window, between
\* the events of a gesture and the closures it queued: a scroll, a selection, a drag, a
\* turn selection or a composition never ends on another session than it began on
\* (refresh_active_terminal_view, clear_terminal_ime), and a flag that says a closure of the
\* next frame is scheduled is set exactly when one of the current epoch is queued.
THEOREM GesturesEndWhereTheyBegan == PaneSpec => []WindowSound
<1>1. PaneInit => PaneInv
  BY PaneStarts
<1>2. PaneInv => WindowSound
  BY PaneInvSound
<1>3. QED BY <1>1, <1>2, PaneStep, PTL DEF PaneSpec

\* A window with no repaint, token or geometry refresh outstanding shows its session's
\* newest publication at the window's geometry, with links unless their restoration is
\* under way, and the session the user selected was resized to it (request_repaint,
\* sync_terminal_surface, select_session).
THEOREM SettledWindowIsRight == PaneSpec => []SettledWindow
<1>1. PaneInit => PaneInv
  BY PaneStarts
<1>2. PaneInv => SettledWindow
  BY PaneInvSound
<1>3. QED BY <1>1, <1>2, PaneStep, PTL DEF PaneSpec

=============================================================================
