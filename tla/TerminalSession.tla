-------------------------- MODULE TerminalSession --------------------------
(***************************************************************************)
(* One terminal session: the worker that owns the emulator, in its two    *)
(* forms.  A local shell's worker (crates/seance-terminal/src/local.rs)    *)
(* polls a channel filled by the PTY reader thread and polls the child; an *)
(* SSH worker (crates/seance-ssh/src/backend.rs) selects between commands  *)
(* and channel messages.  Both share the emulator, the turn tracker, the   *)
(* published viewport and the transcript sink with its writer thread       *)
(* (crates/seance-core/src/session_logs.rs).                               *)
(*                                                                         *)
(* An output chunk is one row of scrollback; text is its length.  Cells,   *)
(* colours, key codes and the performance samples are left out.  What the  *)
(* notification of a publication does is the business of TerminalView.     *)
(***************************************************************************)
EXTENDS Integers, Sequences, SequencesExt

CONSTANTS MaxOut,        \* bound: chunks the shell writes
          MaxCmds,       \* bound: commands sent to the worker
          MaxTraffic,    \* bound: those chunks and commands together
          ScrollOps,     \* bound: the scroll commands among them
          SinkCapacity,  \* TRANSCRIPT_CHANNEL_CAPACITY
          FileCapacity,  \* events that fit session_transcript_max_bytes_per_session
          MaxTurns,      \* TurnTracker.max_turns
          MaxText,       \* TurnTracker.max_bytes_per_turn
          Marker,        \* length of TRUNCATION_MARKER
          Flood,         \* bound: chunks that add no row are written while fewer are under way
          Transcripts    \* logging.session_transcript_enabled

ASSUME BoundsAssumption == {MaxOut, MaxCmds, MaxTraffic, Flood} \subseteq Nat /\ Transcripts \in BOOLEAN
ASSUME ScrollAssumption ==
    ScrollOps \subseteq {"up", "down", "top", "bottom", "pageup", "pagedown", "offset0"}
ASSUME CapacityAssumption == {SinkCapacity, FileCapacity, MaxTurns, Marker} \subseteq Nat \ {0}
\* TurnTracker::new raises max_bytes_per_turn to the marker's length.
ASSUME TextAssumption == MaxText \in Nat /\ MaxText >= Marker

VARIABLES
    kind,     \* "local" or "ssh"
    handle,   \* a window or the registry still holds the session's handle
    cmds,     \* SessionCommands in the channel
    pending,  \* pending_command, or the command being written, at most one
    sent,     \* commands sent so far
    applied,  \* commands the worker has applied or dropped at its end
    copy,     \* the caller blocked on a reply channel
    pty,      \* chunks in the PTY or the reader's buffer
    chan,     \* output_rx (local) or the channel's messages (ssh)
    child,    \* the shell process
    pc,       \* where the worker is
    changed,  \* output written since the worker last refreshed for output
    skipped,  \* a redundant resize dropped that refresh
    owed,     \* chunks delivered when try_wait saw the exit and not yet drained (ghost)
    exit,     \* exit_status of the SSH worker
    emu,      \* TerminalEmulator
    turn,     \* TurnTracker
    view,     \* SharedSessionState: viewport and summary
    sink      \* transcript queue, file and counters

ui == <<handle, cmds, sent, copy>>
source == <<pty, chan, child>>
flags == <<changed, skipped, owed, exit>>
vars == <<kind, ui, pending, applied, source, pc, flags, emu, turn, view, sink>>

Geometries == 0 .. 1   \* 0 is TerminalGeometry::default
Page == 1              \* rows - 1

\* SessionCommand.  Input, Text, Key and Paste that encode to bytes are "text", or
\* "enter" when the bytes hold a line end; a key map_terminal_key does not know, or
\* an empty text, encodes to nothing.
Inputs == {"text", "enter", "mouse", "nothing"}
Encodable == Inputs \ {"nothing"}
Deltas == {"up", "down"}
Scrolls == Deltas \cup {"top", "bottom", "pageup", "pagedown", "offset0"}
Commands == [op : Inputs \cup ScrollOps, arg : {0}]
            \cup [op : {"resize"}, arg : Geometries]
            \cup [op : {"copy"}, arg : 1 .. MaxCmds]
Scroll(c) == c.op \in Scrolls

\* encode_key_event, encode_text_event, encode_mouse_event, encode_paste.
Encodes(op) == op \in Encodable

NoView == [rows |-> 0, offset |-> 0, bottom |-> TRUE, geo |-> 0, exit |-> "none"]
Error == [NoView EXCEPT !.exit = "error"]

\* FileTranscriptSink::new.  hand is the event the writer thread has received, lost
\* (ghost) the events it threw away without counting them, dead that it has ended.
NewSink == [queue |-> 0, hand |-> 0, file |-> 0, dropped |-> 0, lost |-> 0, recorded |-> 0,
            truncated |-> FALSE, dead |-> FALSE]

NewTracker == [line |-> FALSE, primary |-> TRUE, active |-> 0, out |-> 0, cut |-> FALSE,
               completed |-> <<>>]

Init ==
    /\ kind \in {"local", "ssh"}
    /\ handle = TRUE /\ cmds = <<>> /\ sent = 0 /\ copy = [id |-> 0, st |-> "none"]
    /\ pending = <<>> /\ applied = 0
    /\ pty = <<>> /\ chan = <<>> /\ child = [st |-> "running", made |-> 0]
    /\ pc = "start" /\ changed = FALSE /\ skipped = FALSE /\ owed = 0 /\ exit = "none"
    /\ emu = [rows |-> 0, offset |-> 0, bottom |-> TRUE, geo |-> 0, alt |-> FALSE,
              seenRows |-> 0, seenOffset |-> 0]
    /\ turn = NewTracker
    /\ view = NoView
    /\ sink = NewSink

-----------------------------------------------------------------------------
(***************************************************************************)
(* Turns.                                                                  *)
(***************************************************************************)

\* append_bounded_text: the text and its truncation mark never pass max_bytes.
\* floor_char_boundary may cut anywhere below the budget.
AppendBounded(len, cut, incoming) ==
    LET remaining == MaxText - len
        budget == remaining - (IF Marker < remaining THEN Marker ELSE remaining)
        Marked(n) == IF n + Marker <= MaxText THEN n + Marker ELSE MaxText
    IN IF incoming = 0 \/ cut THEN {<<len, cut>>}
       ELSE IF incoming <= remaining /\ len < MaxText THEN {<<len + incoming, FALSE>>}
       ELSE {<<Marked(len + k), TRUE>> : k \in 0 .. budget}

\* track_output_bytes for a chunk of n printable bytes.
TrackOutput(n) ==
    IF ~turn.primary \/ turn.active = 0 THEN {turn}
    ELSE {[turn EXCEPT !.out = t[1], !.cut = t[2]] : t \in AppendBounded(turn.out, turn.cut, n)}

\* enforce_history_limit after the active turn was pushed.
Completed ==
    LET all == IF turn.active = 0 THEN turn.completed
               ELSE Append(turn.completed, turn.active)
    IN IF Len(all) > MaxTurns THEN Tail(all) ELSE all

\* submit_command: a non-empty line becomes the active turn.
Submitted ==
    IF ~turn.line THEN turn
    ELSE [turn EXCEPT !.line = FALSE, !.completed = Completed,
                      !.active = @ + 1, !.out = 0, !.cut = FALSE]

\* process_input_ground_byte: text fills the line, a line end submits it.
GroundByte(op) == IF op = "enter" THEN Submitted ELSE [turn EXCEPT !.line = TRUE]

\* track_input_bytes, which the worker does not call for the mouse.
TrackInput(op) ==
    IF turn.primary /\ op \in {"text", "enter"} THEN GroundByte(op) ELSE turn

-----------------------------------------------------------------------------
(***************************************************************************)
(* Transcript sink.                                                        *)
(***************************************************************************)

\* FileTranscriptSink::record: try_send; an event for a full queue, or for a writer
\* that has ended, is counted as dropped.
Recorded ==
    IF ~Transcripts THEN sink   \* NoopTranscriptSink
    ELSE IF sink.queue < SinkCapacity /\ ~sink.dead
    THEN [sink EXCEPT !.queue = @ + 1, !.recorded = @ + 1]
    ELSE [sink EXCEPT !.dropped = @ + 1, !.recorded = @ + 1]

\* rx.recv, with "continue" once the file is truncated: what comes then is thrown away.
ReceiveEvent ==
    /\ sink.queue > 0 /\ sink.hand = 0
    /\ sink' = IF sink.truncated THEN [sink EXCEPT !.queue = @ - 1, !.lost = @ + 1]
               ELSE [sink EXCEPT !.queue = @ - 1, !.hand = 1]

\* write_transcript_events with an event in hand: the first that does not fit is counted
\* and marks the file, once.
WriteEvent ==
    /\ sink.hand = 1
    /\ sink' = IF sink.file = FileCapacity
               THEN [sink EXCEPT !.hand = 0, !.truncated = TRUE, !.dropped = @ + 1]
               ELSE [sink EXCEPT !.hand = 0, !.file = @ + 1]

\* File::create, the write of an event or that of the marker fails: the thread ends, and
\* what it holds and what is queued is never written nor counted.  (A file that holds
\* nothing may be one that was never created.)
WriterDies ==
    /\ ~sink.dead /\ (sink.hand = 1 \/ (sink.file = 0 /\ ~sink.truncated))
    /\ sink' = IF sink.hand = 1 /\ sink.file = FileCapacity
               THEN [sink EXCEPT !.hand = 0, !.truncated = TRUE, !.dropped = @ + 1,
                                 !.lost = @ + sink.queue, !.queue = 0, !.dead = TRUE]
               ELSE [sink EXCEPT !.hand = 0, !.lost = @ + sink.queue + sink.hand,
                                 !.queue = 0, !.dead = TRUE]

WriteTranscript ==
    /\ Transcripts
    /\ ReceiveEvent \/ WriteEvent \/ WriterDies
    /\ UNCHANGED <<kind, ui, pending, applied, source, pc, flags, emu, turn, view>>

-----------------------------------------------------------------------------
(***************************************************************************)
(* Emulator and publication.                                               *)
(***************************************************************************)

\* Ghostty (external): output moves a viewport that is at the bottom.
VtWrite(e, chunk) ==
    IF chunk = "redraw" THEN e
    ELSE IF chunk = "alt" THEN [e EXCEPT !.alt = ~@]
    ELSE [e EXCEPT !.rows = @ + 1, !.offset = IF @ = e.rows THEN @ + 1 ELSE @]

\* record_and_write_output: the chunk is recorded, then written to the emulator.
WriteChunk(chunk) ==
    /\ sink' = Recorded
    /\ emu' = VtWrite(emu, chunk)
    /\ IF chunk = "text" THEN turn' \in TrackOutput(2) ELSE turn' = turn
    /\ changed' = TRUE

Clamp(n, e) == IF n < 0 THEN 0 ELSE IF n > e.rows THEN e.rows ELSE n

\* Ghostty (external): ScrollViewport::Delta stops at both ends.
Delta(e, n) == [e EXCEPT !.offset = Clamp(@ + n, e), !.bottom = FALSE]

\* TerminalEmulator::scroll_viewport, with the at_bottom flag it leaves.
\* SetOffsetRows reads the scrollbar that the last refresh kept.
ScrollViewport(e, op) ==
    CASE op = "top" -> [e EXCEPT !.offset = 0, !.bottom = FALSE]
      [] op = "bottom" -> [e EXCEPT !.offset = e.rows, !.bottom = TRUE]
      [] op = "pageup" -> Delta(e, -Page)
      [] op = "pagedown" -> [Delta(e, Page) EXCEPT !.bottom = TRUE]
      [] op = "offset0" -> [Delta(e, -e.seenOffset) EXCEPT !.bottom = (e.seenRows = 0)]

\* compact_scroll_command_burst: deltas that follow each other are summed, and the sum
\* is applied before the next command of another kind and at the end.
Flushed(acc) == IF acc.some THEN Delta(acc.e, acc.delta) ELSE acc.e
Compacted(acc, c) ==
    IF c.op \in Deltas
    THEN [acc EXCEPT !.delta = @ + (IF c.op = "up" THEN -1 ELSE 1), !.some = TRUE]
    ELSE [e |-> ScrollViewport(Flushed(acc), c.op), delta |-> 0, some |-> FALSE]

\* The batch of compact_scroll_command_burst and the loop that applies it.
ApplyBatch(e, batch) ==
    LET acc[n \in 0 .. Len(batch)] ==
            IF n = 0 THEN [e |-> e, delta |-> 0, some |-> FALSE]
            ELSE Compacted(acc[n - 1], batch[n])
    IN Flushed(acc[Len(batch)])

\* refresh_inner keeps the scrollbar; the alternate screen counts as the bottom.
Measured(e) == [e EXCEPT !.seenRows = e.rows, !.seenOffset = e.offset]
Refreshed(e) == [Measured(e) EXCEPT !.bottom = @ \/ e.alt]

\* The tracker learns which screen is active only in a refresh.
OnScreen(e, t) == [t EXCEPT !.primary = ~e.alt]

\* publish_viewport: the summary and the viewport are replaced.
Published(e, status) ==
    [rows |-> e.rows, offset |-> e.offset, bottom |-> e.bottom, geo |-> e.geo, exit |-> status]

\* refresh_inner fails, before or after it measured the screen: set_error replaces the
\* viewport, and the caller goes on as if it had been refreshed.
RefreshFails(e, t) ==
    /\ \/ emu' = e /\ turn' = t
       \/ emu' = Measured(e) /\ turn' = OnScreen(e, t)
    /\ view' = [Error EXCEPT !.geo = e.geo]

\* TerminalEmulator::refresh.
Publish(e, t, status) ==
    /\ \/ /\ emu' = Refreshed(e) /\ turn' = OnScreen(e, t)
          /\ view' = Published(Refreshed(e), status)
       \/ RefreshFails(e, t)
    /\ skipped' = FALSE

\* The worker's thread ends: its receivers go, and with them what was queued.
End ==
    /\ pc' = "done" /\ pending' = <<>> /\ cmds' = <<>>
    /\ applied' = sent
    /\ copy' = IF copy.st = "waiting" THEN [copy EXCEPT !.st = "stopped"] ELSE copy

\* spawn_local_session and run_ssh_session report an error in place of the screen.
Fail ==
    /\ view' = Error /\ End
    /\ UNCHANGED <<kind, handle, sent, source, flags, emu, turn, sink>>

-----------------------------------------------------------------------------
(***************************************************************************)
(* Commands.                                                               *)
(***************************************************************************)

\* The first drain of a local worker ends when the channel is empty or the publish
\* budget is spent, so it may take a command at any point of it.
Working == pc = "top"
HasCommand == pending # <<>> \/ cmds # <<>>
First == IF pending # <<>> THEN pending[1] ELSE Head(cmds)
Rest == IF pending # <<>> THEN cmds ELSE Tail(cmds)

\* After a command the local worker drains and refreshes, the SSH worker selects again.
Continue == pc' = IF kind = "local" THEN "after" ELSE "top"

\* The exit status a refresh of the running worker carries.
Status == IF kind = "ssh" THEN exit ELSE "none"

Taken ==
    /\ HasCommand
    /\ pending' = <<>> /\ cmds' = Rest /\ applied' = applied + 1

\* The command is on its way out, and with it the worker: write_all to the PTY, or a
\* message to an SSH channel, waits for as long as the other side does not read.
StartWrite ==
    /\ pending' = <<First>> /\ cmds' = Rest /\ pc' = "writing"
    /\ UNCHANGED <<applied, copy, view>>

\* Input, Text, Key, Mouse and Paste: tracked and recorded, then written to the shell.
ApplyInput ==
    /\ Working /\ HasCommand /\ First.op \in Inputs
    /\ \/ /\ Encodes(First.op)
          /\ turn' = TrackInput(First.op) /\ sink' = Recorded
          /\ StartWrite
       \/ /\ ~Encodes(First.op)
          /\ Taken /\ Continue
          /\ UNCHANGED <<copy, turn, view, sink>>
       \* encode_key_event or encode_mouse_event fails.
       \/ /\ Encodes(First.op)
          /\ view' = Error /\ End
          /\ UNCHANGED <<turn, sink>>
    /\ UNCHANGED <<kind, handle, sent, source, flags, emu>>

\* The write ends, or fails and ends the session.  Over SSH a resize is refreshed after
\* window_change, whose errors and those of the emulator's resize are dropped.
Written ==
    /\ pc = "writing"
    /\ \/ /\ Taken /\ Continue
          /\ UNCHANGED copy
          /\ IF First.op = "resize"
             THEN \E geo \in {emu.geo, First.arg} : Publish([emu EXCEPT !.geo = geo], turn, Status)
             ELSE UNCHANGED <<emu, turn, view, skipped>>
       \/ /\ First.op # "resize"
          /\ view' = Error /\ End
          /\ UNCHANGED <<emu, turn, skipped>>
    /\ UNCHANGED <<kind, handle, sent, source, changed, owed, exit, sink>>

\* Resize of a local shell: the geometry it has already is skipped with "continue",
\* which starts the next iteration and with it a new "changed".
ApplyRedundantResize ==
    /\ kind = "local" /\ Working /\ Taken /\ First.op = "resize" /\ First.arg = emu.geo
    /\ pc' = "top"
    /\ skipped' = (skipped \/ changed) /\ changed' = FALSE
    /\ UNCHANGED <<kind, handle, sent, copy, source, owed, exit, emu, turn, view, sink>>

ApplyResize ==
    /\ Working /\ HasCommand /\ First.op = "resize"
    /\ IF kind = "ssh" THEN StartWrite /\ UNCHANGED <<skipped, emu, turn>>
       ELSE /\ First.arg # emu.geo
            /\ Taken /\ Continue
            /\ Publish([emu EXCEPT !.geo = First.arg], turn, "none")
            /\ UNCHANGED copy
    /\ UNCHANGED <<kind, handle, sent, source, changed, owed, exit, sink>>

\* resize_pty or the emulator's resize fails.
LocalResizeFails ==
    /\ kind = "local" /\ Working /\ HasCommand /\ First.op = "resize" /\ First.arg # emu.geo
    /\ Fail

\* drain_scroll_command_batch: the scroll commands at the head of the channel, and
\* the command that stopped the drain.
BatchLength ==
    LET Stops(i) == i <= Len(Rest) => ~Scroll(Rest[i])
    IN CHOOSE n \in 0 .. Len(Rest) : Stops(n + 1) /\ \A i \in 1 .. n : Scroll(Rest[i])

\* Mutant: the command that ended the batch is lost.
DeferredLost == <<>>

Deferred == IF BatchLength < Len(Rest) THEN <<Rest[BatchLength + 1]>> ELSE <<>>

ApplyScroll ==
    /\ Working /\ HasCommand /\ Scroll(First)
    /\ Publish(ApplyBatch(emu, <<First>> \o SubSeq(Rest, 1, BatchLength)), turn, Status)
    /\ IF ~handle /\ BatchLength = Len(Rest)
       THEN End   \* disconnected
       ELSE /\ Continue
            /\ pending' = Deferred
            /\ cmds' = SubSeq(Rest, BatchLength + 2, Len(Rest))
            /\ applied' = applied + 1 + BatchLength
            /\ UNCHANGED copy
    /\ UNCHANGED <<kind, handle, sent, source, changed, owed, exit, sink>>

\* CopyActiveScreen, CopySelectionText and PreviousTurn answer on their own channel:
\* an answer for a caller that gave up goes nowhere.
ApplyCopy ==
    /\ Working /\ Taken /\ First.op = "copy" /\ Continue
    /\ copy' = IF copy = [id |-> First.arg, st |-> "waiting"]
               THEN [copy EXCEPT !.st = "answered"] ELSE copy
    /\ UNCHANGED <<kind, handle, sent, source, flags, emu, turn, view, sink>>

ApplyCommand ==
    \/ ApplyInput
    \/ ApplyRedundantResize \/ ApplyResize \/ LocalResizeFails
    \/ ApplyScroll
    \/ ApplyCopy

-----------------------------------------------------------------------------
(***************************************************************************)
(* The local worker (run_local_session).                                   *)
(***************************************************************************)

Start ==
    /\ pc = "start"
    /\ \/ /\ Publish(emu, turn, "none") /\ pc' = "top"
          /\ UNCHANGED <<kind, ui, pending, applied, source, changed, owed, exit, sink>>
       \/ Fail   \* the PTY, the shell or the emulator cannot be created

\* The reader thread hands one read to the worker.
Reader ==
    /\ kind = "local" /\ pty # <<>> /\ pc # "done"
    /\ chan' = Append(chan, Head(pty)) /\ pty' = Tail(pty)
    /\ UNCHANGED <<kind, ui, pending, applied, child, pc, flags, emu, turn, view, sink>>

DrainOne ==
    /\ kind = "local" /\ pc \in {"top", "after", "final"} /\ chan # <<>>
    /\ WriteChunk(Head(chan)) /\ chan' = Tail(chan)
    /\ owed' = IF owed = 0 THEN 0 ELSE owed - 1
    /\ UNCHANGED <<kind, ui, pending, applied, pty, child, pc, skipped, exit, view>>

\* Mutant: a disconnected channel is taken for a timeout.
NoCommandForever ==
    /\ kind = "local" /\ pc = "top" /\ ~HasCommand
    /\ pc' = "after"
    /\ UNCHANGED <<kind, ui, pending, applied, source, flags, emu, turn, view, sink>>

\* recv_timeout ends without a command.
NoCommand ==
    /\ kind = "local" /\ pc = "top" /\ ~HasCommand
    /\ IF handle THEN pc' = "after" /\ UNCHANGED <<pending, cmds, applied, copy>>
       ELSE End
    /\ UNCHANGED <<kind, handle, sent, source, flags, emu, turn, view, sink>>

\* The second drain ends when the channel is empty, whatever time that takes; then the
\* refresh for output.
RefreshOutput ==
    /\ kind = "local" /\ pc = "after" /\ chan = <<>>
    /\ IF changed THEN Publish(emu, turn, "none") ELSE UNCHANGED <<emu, turn, view, skipped>>
    /\ pc' = "poll" /\ changed' = FALSE
    /\ UNCHANGED <<kind, ui, pending, applied, source, owed, exit, sink>>

\* try_wait: running, exited, or an error.
Poll ==
    /\ kind = "local" /\ pc = "poll"
    /\ \/ /\ IF child.st = "exited" THEN pc' = "final" /\ owed' = Len(chan)
             ELSE pc' = "top" /\ owed' = owed
          /\ UNCHANGED <<kind, ui, pending, applied, source, changed, skipped, exit, emu, turn, view,
                         sink>>
       \/ Fail

\* The drain for the exit ends; the reader may deliver more before the refresh.
FinalDrainEnds ==
    /\ kind = "local" /\ pc = "final" /\ chan = <<>>
    /\ pc' = "publish"
    /\ UNCHANGED <<kind, ui, pending, applied, source, flags, emu, turn, view, sink>>

\* Mutant: the exit status is published without the final drain.
FinalWithoutDrain ==
    /\ kind = "local" /\ pc = "final"
    /\ Publish(emu, turn, "exited") /\ End
    /\ UNCHANGED <<kind, handle, sent, source, changed, owed, exit, sink>>

FinalRefresh ==
    /\ kind = "local" /\ pc = "publish"
    /\ Publish(emu, turn, "exited") /\ End
    /\ UNCHANGED <<kind, handle, sent, source, changed, owed, exit, sink>>

LocalWorker ==
    DrainOne \/ NoCommand \/ RefreshOutput \/ Poll \/ FinalDrainEnds \/ FinalRefresh

-----------------------------------------------------------------------------
(***************************************************************************)
(* The SSH worker (run_ssh_session).                                       *)
(***************************************************************************)

\* A row, a switch of the active screen, or bytes that leave the screen as it is.
Data == {"text", "alt", "redraw"}
CanRead == kind = "ssh" /\ chan # <<>> /\ (pc = "burst" \/ (pc = "top" /\ pending = <<>>))

\* Data and ExtendedData, the first one and those of drain_data_burst.
SshData ==
    /\ CanRead /\ Head(chan) \in Data
    /\ WriteChunk(Head(chan)) /\ chan' = Tail(chan) /\ pc' = "burst"
    /\ UNCHANGED <<kind, ui, pending, applied, pty, child, skipped, owed, exit, view>>

\* Mutant: the burst ends without a refresh.
SshBurstUnpublished ==
    /\ kind = "ssh" /\ pc = "burst"
    /\ pc' = "top"
    /\ UNCHANGED <<kind, ui, pending, applied, source, flags, emu, turn, view,
                   sink>>

\* The burst ends at the publish budget.
SshBurstEnds ==
    /\ kind = "ssh" /\ pc = "burst"
    /\ Publish(emu, turn, exit) /\ pc' = "top" /\ changed' = FALSE
    /\ UNCHANGED <<kind, ui, pending, applied, source, owed, exit, sink>>

SshExitStatus ==
    /\ CanRead /\ Head(chan) = "exit" /\ chan' = Tail(chan)
    /\ exit' = "exited" /\ Publish(emu, turn, "exited") /\ pc' = "top" /\ changed' = FALSE
    /\ UNCHANGED <<kind, ui, pending, applied, pty, child, owed, sink>>

\* Eof, Close and the end of the stream end the session.
SshClosed ==
    /\ CanRead /\ Head(chan) = "eof" /\ chan' = Tail(chan)
    /\ Publish(emu, turn, IF exit # "none" THEN exit ELSE "closed") /\ End
    /\ changed' = FALSE
    /\ UNCHANGED <<kind, handle, sent, pty, child, owed, exit, sink>>

SshWorker == SshData \/ SshBurstEnds \/ SshExitStatus \/ SshClosed

-----------------------------------------------------------------------------
(***************************************************************************)
(* The shell and the callers.                                              *)
(***************************************************************************)

\* The shell writes, or a process it left behind that holds the PTY (external).
Produce(chunk) ==
    /\ kind = "local" \/ child.st = "running"
    /\ pc # "done"
    /\ IF chunk = "redraw" THEN Len(pty) + Len(chan) < Flood /\ UNCHANGED child
       ELSE /\ child.made < MaxOut /\ child.made + sent < MaxTraffic
            /\ child' = [child EXCEPT !.made = @ + 1]
    /\ IF kind = "local" THEN pty' = Append(pty, chunk) /\ UNCHANGED chan
       ELSE chan' = Append(chan, chunk) /\ UNCHANGED pty
    /\ UNCHANGED <<kind, ui, pending, applied, pc, flags, emu, turn, view, sink>>

\* The child ends; a server reports it and closes, in either order, or only closes (external).
ChildEnds(st) ==
    /\ pc # "done"
    /\ IF kind = "local"
       THEN child.st = "running" /\ st = "exited" /\ UNCHANGED chan
       ELSE /\ <<child.st, st>> \in {<<"running", "exited">>, <<"running", "closed">>,
                                      <<"exited", "closed">>}
            /\ \/ chan' = Append(chan, IF st = "exited" THEN "exit" ELSE "eof")
               \/ st = "closed" /\ child.st = "running" /\ chan' = chan \o <<"eof", "exit">>
    /\ child' = [child EXCEPT !.st = st]
    /\ UNCHANGED <<kind, ui, pending, applied, pty, pc, flags, emu, turn, view, sink>>

\* The trait's methods queue a command; the copying ones block the caller on the reply.
Send(c) ==
    /\ handle /\ pc # "done" /\ copy.st # "waiting"
    /\ sent < MaxCmds /\ child.made + sent < MaxTraffic
    /\ c.op = "copy" => c.arg = sent + 1
    /\ cmds' = Append(cmds, c) /\ sent' = sent + 1
    /\ copy' = IF c.op = "copy" THEN [id |-> c.arg, st |-> "waiting"] ELSE copy
    /\ UNCHANGED <<kind, handle, pending, applied, source, pc, flags, emu, turn, view, sink>>

CopyTimesOut ==
    /\ copy.st = "waiting" /\ copy' = [copy EXCEPT !.st = "timed_out"]
    /\ UNCHANGED <<kind, handle, cmds, sent, pending, applied, source, pc, flags, emu, turn, view, sink>>

\* The registry and the windows let go of the session.
DropHandle ==
    /\ handle /\ copy.st # "waiting" /\ handle' = FALSE
    /\ UNCHANGED <<kind, cmds, sent, copy, pending, applied, source, pc, flags, emu, turn, view, sink>>

Worker == Start \/ ApplyCommand \/ LocalWorker \/ SshWorker

Next ==
    \/ Worker
    \/ Written
    \/ Reader
    \/ WriteTranscript
    \/ \E chunk \in Data : Produce(chunk)
    \/ \E st \in {"exited", "closed"} : ChildEnds(st)
    \/ \E c \in Commands : Send(c)
    \/ CopyTimesOut
    \/ DropHandle

Spec == Init /\ [][Next]_vars

\* The turn a local worker takes when its first drain ends, at the publish budget.
LocalTurn == kind = "local" /\ (ApplyCommand \/ NoCommand)

\* Threads are scheduled: the worker and the reader go on whenever they can, and a drain
\* with a deadline ends at it.  Nothing is assumed of the shell, which may neither read
\* nor stop writing, of the caller, the timeout or the transcript writer: a write to the
\* shell (Written) may wait for ever.
FairSpec ==
    Spec /\ WF_vars(Worker) /\ WF_vars(Reader) /\ WF_vars(LocalTurn) /\ WF_vars(SshBurstEnds)

-----------------------------------------------------------------------------
(***************************************************************************)
(* Properties.                                                             *)
(***************************************************************************)

\* Every variable keeps its type; in particular the turn history keeps its limit and
\* the emulator's offset stays within its rows (enforce_history_limit, scroll_viewport).
TypeOK ==
    /\ kind \in {"local", "ssh"} /\ handle \in BOOLEAN
    /\ cmds \in Seq(Commands) /\ pending \in Seq(Commands) /\ Len(pending) <= 1
    /\ sent \in 0 .. MaxCmds /\ applied \in 0 .. MaxCmds
    /\ copy \in [id : 0 .. MaxCmds, st : {"none", "waiting", "answered", "timed_out", "stopped"}]
    /\ pty \in Seq(Data) /\ chan \in Seq(Data \cup {"exit", "eof"})
    /\ child \in [st : {"running", "exited", "closed"}, made : 0 .. MaxOut]
    /\ pc \in {"start", "top", "writing", "after", "poll", "final", "publish", "burst", "done"}
    /\ changed \in BOOLEAN /\ skipped \in BOOLEAN /\ owed \in Nat /\ exit \in {"none", "exited"}
    /\ emu \in [rows : Nat, offset : Nat, bottom : BOOLEAN, geo : Geometries, alt : BOOLEAN,
                seenRows : Nat, seenOffset : Nat]
    /\ emu.offset <= emu.rows
    /\ turn.completed \in Seq(Nat) /\ Len(turn.completed) <= MaxTurns
    /\ view.exit \in {"none", "exited", "closed", "error"}
    /\ sink.queue \in 0 .. SinkCapacity /\ sink.file \in 0 .. FileCapacity

\* No command is lost or applied twice: what was sent is applied, deferred or queued,
\* also across a scroll batch that stops at another command (drain_scroll_command_batch).
CommandsAccounted == applied + Len(pending) + Len(cmds) = sent

\* Output in the emulator that is not in the published viewport is about to be
\* published, unless a redundant resize dropped that refresh (run_local_session) or the
\* viewport shows that the refresh failed (TerminalEmulator::refresh).
NoSilentOutput ==
    emu.rows # view.rows /\ pc # "done" => changed \/ skipped \/ view.exit = "error"

\* When the exit of a local shell is published, everything its reader had delivered by
\* the time the exit was noticed is on the screen published with it, although the
\* reader goes on delivering meanwhile (the drain after try_wait).
ExitAfterDrain ==
    [][kind = "local" /\ view.exit # "exited" /\ view'.exit = "exited"
       => owed = 0 /\ view'.rows = emu.rows]_vars

\* Every recorded event is in the file, with the writer, in its queue, counted as
\* dropped, or lost uncounted; and only a truncated file, which is full and has counted
\* a drop, or a writer that failed loses any: that one no more than it held and had
\* queued (FileTranscriptSink, write_transcript_events).
TranscriptAccounted ==
    /\ sink.file + sink.hand + sink.queue + sink.dropped + sink.lost = sink.recorded
    /\ sink.truncated => sink.file = FileCapacity /\ sink.dropped > 0 /\ sink.hand = 0
    /\ sink.dead => sink.queue = 0 /\ sink.hand = 0
    /\ ~sink.truncated => sink.lost <= IF sink.dead THEN SinkCapacity + 1 ELSE 0

\* The captured output of a turn, marker included, never passes max_bytes_per_turn
\* (append_bounded_text).
TurnTextBounded == turn.out <= MaxText

\* Nothing that entered the session is lost on its way, in well-typed states: commands
\* are applied, output is published or its refresh is known to have failed, transcript
\* events are kept, counted or lost by a writer that stopped, and a turn keeps as much
\* text as it may.
SessionAccounted ==
    TypeOK /\ CommandsAccounted /\ NoSilentOutput /\ TranscriptAccounted /\ TurnTextBounded

\* The worker waits for the shell to read, or drains what the shell never stops writing.
AwaitsShell == pc = "writing"
Drains == kind = "local" /\ pc \in {"after", "final"}

\* A local session whose handle is gone ends (recv_timeout reports Disconnected), unless
\* the shell never reads its input or never leaves the channel empty.
ClosedLocalEnds ==
    (kind = "local" /\ ~handle) ~> (pc = "done" \/ []AwaitsShell \/ []Drains)

\* Output in the emulator reaches the published viewport, unless the session ends, a
\* redundant resize dropped the refresh or it failed, or the worker waits for the shell.
OutputShown ==
    \A n \in 1 .. MaxOut :
        (emu.rows >= n) ~> \/ view.rows >= n \/ pc = "done"
                           \/ skipped \/ view.exit = "error"
                           \/ []AwaitsShell \/ []Drains
=============================================================================
