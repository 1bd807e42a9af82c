------------------------------ MODULE TextEdit ------------------------------
(***************************************************************************)
(* The caret and selection of the hand-made text fields                    *)
(* (seance-ui/src/text_input.rs): an anchor and a focus, both counted in   *)
(* characters, over a text that its owner may replace at any time.  A text *)
(* is a sequence of characters; the byte offsets that replace_char_range   *)
(* computes are left out, since they are taken from the same characters.   *)
(***************************************************************************)
EXTENDS Integers, Sequences

Low(a, b) == IF a < b THEN a ELSE b
High(a, b) == IF a < b THEN b ELSE a

Carets == [anchor : Nat, focus : Nat]
Caret(n) == [anchor |-> n, focus |-> n]

(* The state of a field that has just been focused: the caret at its end. *)
WithText(t) == Caret(Len(t))

(* Pulls a state left over from an earlier text back inside the text. *)
Sync(e, t) == [anchor |-> Low(e.anchor, Len(t)), focus |-> Low(e.focus, Len(t))]

HasSelection(e) == e.anchor # e.focus
SelStart(e) == Low(e.anchor, e.focus)
SelEnd(e) == High(e.anchor, e.focus)

(* The focus moves to n, and the anchor with it unless shift extends. *)
MoveTo(e, n, extend) == [anchor |-> IF extend THEN e.anchor ELSE n, focus |-> n]

MoveLeft(e, t, extend) ==
    LET s == Sync(e, t)
    IN IF ~extend /\ HasSelection(s) THEN Caret(SelStart(s))
       ELSE MoveTo(s, IF s.focus = 0 THEN 0 ELSE s.focus - 1, extend)

MoveRight(e, t, extend) ==
    LET s == Sync(e, t)
    IN IF ~extend /\ HasSelection(s) THEN Caret(SelEnd(s))
       ELSE MoveTo(s, Low(s.focus + 1, Len(t)), extend)

SelectAll(t) == [anchor |-> 0, focus |-> Len(t)]

(* The text with the characters from..to - 1 (counted from 0) replaced. *)
ReplaceRange(t, from, to, by) == SubSeq(t, 1, from) \o by \o SubSeq(t, to + 1, Len(t))

ReplaceSelection(e, t, by) ==
    LET s == Sync(e, t)
    IN [ed |-> Caret(SelStart(s) + Len(by)),
        text |-> ReplaceRange(t, SelStart(s), SelEnd(s), by)]

Backspace(e, t) ==
    LET s == Sync(e, t)
    IN CASE HasSelection(s) -> ReplaceSelection(s, t, <<>>)
         [] ~HasSelection(s) /\ s.focus = 0 -> [ed |-> s, text |-> t]
         [] OTHER -> [ed |-> Caret(s.focus - 1),
                      text |-> ReplaceRange(t, s.focus - 1, s.focus, <<>>)]

DeleteForward(e, t) ==
    LET s == Sync(e, t)
    IN CASE HasSelection(s) -> ReplaceSelection(s, t, <<>>)
         [] ~HasSelection(s) /\ s.focus >= Len(t) -> [ed |-> s, text |-> t]
         [] OTHER -> [ed |-> Caret(s.focus),
                      text |-> ReplaceRange(t, s.focus, s.focus + 1, <<>>)]

(* What copy would put on the clipboard: the selected characters that the  *)
(* text still has (slice_chars ends a range past the text at its end).     *)
Selected(e, t) == SubSeq(t, Low(SelStart(e), Len(t)) + 1, Low(SelEnd(e), Len(t)))

Cut(e, t) == IF Selected(e, t) = <<>> THEN [ed |-> e, text |-> t]
             ELSE ReplaceSelection(e, t, <<>>)

EditKeys == {"left", "right", "home", "end", "backspace", "delete", "all", "cut", "type"}
MutatingKeys == {"backspace", "delete", "cut", "type"}

(* One key of apply_text_input_event; a typed character and a paste both   *)
(* insert input in place of the selection.  Copy changes no field.         *)
ApplyKey(k, shift, e, t, input) ==
    CASE k = "left" -> [ed |-> MoveLeft(e, t, shift), text |-> t]
      [] k = "right" -> [ed |-> MoveRight(e, t, shift), text |-> t]
      [] k = "home" -> [ed |-> MoveTo(e, 0, shift), text |-> t]
      [] k = "end" -> [ed |-> MoveTo(e, Len(t), shift), text |-> t]
      [] k = "all" -> [ed |-> SelectAll(t), text |-> t]
      [] k = "backspace" -> Backspace(e, t)
      [] k = "delete" -> DeleteForward(e, t)
      [] k = "cut" -> Cut(e, t)
      [] k = "type" -> ReplaceSelection(e, t, input)
=============================================================================
