------------------------------- MODULE TextEdit -------------------------------
(***************************************************************************)
(* The text editor behind every form field (src/src/main.rs and              *)
(* src/src/text_field.rs): one byte-indexed selection and one marked range    *)
(* for the field that is edited, moved by keys, clicks and the platform's     *)
(* input method, over texts whose characters have one byte or several, and    *)
(* sliced at them by every edit; Rust panics where a slice splits a character. *)
(*                                                                         *)
(* Three characters stand for all: "a" has one byte, "I" two and three in     *)
(* lower case, where it becomes an "a" and the accent "m", which no grapheme   *)
(* begins with.  Lines, pixels and the clipboard are left out.               *)
(***************************************************************************)
EXTENDS Integers, SequencesExt

CONSTANTS
  MaxLength,   \* bound: characters in a field
  NoRange      \* no marked range

ASSUME EditAssumption == MaxLength \in Nat \ {0}

VARIABLES
  field,       \* the kind of field edited: "free", "search" or "digits"
  text,        \* field_text(active), characters
  selection,   \* edit_selection, edit_selection_reversed
  marked,      \* edit_marked_range
  stale        \* auxiliary: the text changed under the selection: a handler replaced
               \* it, or lower case gave it another length

editVars == <<field, text, selection, marked, stale>>

Characters == {"a", "I", "m"}
Strings(n) == UNION {[1..k -> Characters] : k \in 0..n}

\* The byte offset behind character i: an "a" has one byte, any other two; str::len, and
\* the offsets where a character or a grapheme begins or ends.
At(t, i) == i + Cardinality({j \in 1..i : t[j] # "a"})
Bytes(t) == At(t, Len(t))
Boundaries(t) == {At(t, i) : i \in 0..Len(t)}
Graphemes(t) ==
  {At(t, i) : i \in {j \in 0..Len(t) : j \in {0, Len(t)} \/ t[j + 1] # "m"}}

\* Slices of a text at byte offsets, which must be boundaries.
Before(t, offset) == SubSeq(t, 1, CHOOSE i \in 0..Len(t) : At(t, i) = offset)
After(t, offset) ==
  SubSeq(t, 1 + CHOOSE i \in 0..Len(t) : At(t, i) = offset, Len(t))

Lower(t) == FoldLeft(LAMBDA s, c : s \o (IF c = "I" THEN <<"a", "m">> ELSE <<c>>), <<>>, t)
\* A numeric field keeps the digits of what is typed, every "a".
Sanitized(t) ==
  IF field = "digits" THEN [j \in 1..Cardinality({i \in DOMAIN t : t[i] = "a"}) |-> "a"]
  ELSE t
Stored(t) == IF field = "search" THEN Lower(t) ELSE t

At0(offset) == [start |-> offset, end |-> offset, reversed |-> FALSE]
Clamp(offset) == IF offset > Bytes(text) THEN Bytes(text) ELSE offset

EditInit ==
  /\ field \in {"free", "search", "digits"}
  /\ text = <<>> /\ selection = At0(0) /\ marked = NoRange /\ stale = FALSE

(* -------------------------- cursor and selection ------------------------ *)

\* focus_field and reset_edit_cursor: another field, whatever it holds, or this one.
Focus(kind, t) ==
  /\ kind = "search" => "I" \notin Range(t)
  /\ kind = "digits" => Range(t) \subseteq {"a"}
  /\ field' = kind /\ text' = t
  /\ selection' = At0(Bytes(t)) /\ marked' = NoRange /\ stale' = FALSE

CursorOffset == IF selection.reversed THEN selection.start ELSE selection.end

\* Mutant: one byte back.
Previous_byte(offset) == Max({0, offset - 1})

\* previous_edit_boundary, next_edit_boundary.
Previous(offset) == Max({0} \cup {g \in Graphemes(text) : g < offset})
NextBoundary(offset) ==
  LET beyond == {g \in Graphemes(text) \ {Bytes(text)} : g > offset}
  IN IF beyond = {} THEN Bytes(text) ELSE Min(beyond)

\* move_edit_cursor; select_edit_to, which swaps the ends that cross.
MoveTo(offset) ==
  /\ selection' = At0(offset) /\ marked' = NoRange /\ stale' = FALSE
  /\ UNCHANGED <<field, text>>
SelectTo(offset) ==
  LET s == IF selection.reversed THEN [selection EXCEPT !.start = offset]
                                 ELSE [selection EXCEPT !.end = offset]
  IN /\ selection' = IF s.end < s.start
                       THEN [start |-> s.end, end |-> s.start, reversed |-> ~s.reversed]
                       ELSE s
     /\ UNCHANGED <<field, text, marked, stale>>

\* A plain arrow collapses a selection to one of its ends, wherever those are.
Collapse(offset) ==
  /\ selection.start # selection.end
  /\ selection' = At0(offset) /\ marked' = NoRange
  /\ UNCHANGED <<field, text, stale>>

\* A key, alone or with shift: the start, the end, or a grapheme left or right.
KeyTargets == {0, Bytes(text), Previous(CursorOffset), NextBoundary(CursorOffset)}
Move ==
  \/ \E offset \in {0, Bytes(text)} : MoveTo(offset)
  \/ /\ selection.start = selection.end
     /\ MoveTo(Previous(CursorOffset)) \/ MoveTo(NextBoundary(CursorOffset))
  \/ Collapse(selection.start) \/ Collapse(selection.end)
SelectByKey == \E offset \in KeyTargets : SelectTo(offset)
SelectAll ==
  /\ selection' = [start |-> 0, end |-> Bytes(text), reversed |-> FALSE]
  /\ stale' = (stale /\ marked # NoRange)
  /\ UNCHANGED <<field, text, marked>>

\* place_edit_cursor: the shaped line's closest index.
Click(extend) ==
  \E offset \in Boundaries(text) : IF extend THEN SelectTo(offset) ELSE MoveTo(offset)

(* --------------------------------- edits -------------------------------- *)

\* set_field_text_raw, and the cursor behind what was put in.
Put(start, end, new) ==
  LET updated == Before(text, start) \o new \o After(text, end)
  IN /\ {updated, Stored(updated)} \subseteq Strings(MaxLength)
     /\ text' = Stored(updated) /\ stale' = (Stored(updated) # updated)
     /\ selection' = At0(start + Bytes(new)) /\ marked' = NoRange
     /\ UNCHANGED field

\* replace_edit_selection: typing, pasting, cutting.
Slice(start, end) == Clamp(start) \in Boundaries(text) /\ Clamp(end) \in Boundaries(text)
Replaced(start, end, new) ==
  /\ Slice(start, end)
  /\ Put(Clamp(start), Max({Clamp(start), Clamp(end)}), Sanitized(new))
Replace(new) == Replaced(selection.start, selection.end, new)

\* backspace_field and delete_forward, with nothing selected.
Backspace ==
  /\ selection.start = selection.end /\ Previous(CursorOffset) < CursorOffset
  /\ Replaced(Previous(CursorOffset), CursorOffset, <<>>)
DeleteForward ==
  /\ selection.start = selection.end /\ NextBoundary(CursorOffset) # CursorOffset
  /\ Replaced(CursorOffset, NextBoundary(CursorOffset), <<>>)

(* --------------------------- the input method --------------------------- *)

\* range_from_utf16: a range of the text, rounded up to its characters; without one,
\* the marked range, and without that the selection.
Ranges(t) == {r \in [start : Boundaries(t), end : Boundaries(t)] : r.start <= r.end}
Meant == Ranges(text) \cup
  {IF marked # NoRange THEN marked ELSE [start |-> selection.start, end |-> selection.end]}

ReplaceText(r, new) == Replaced(r.start, r.end, new)

\* replace_and_mark_text_in_range: unlike the others it takes the text as it comes.
ReplaceAndMark(r, new, chosen) ==
  LET start == Clamp(r.start)
      updated == Before(text, start) \o new \o After(text, Max({start, Clamp(r.end)}))
  IN /\ Slice(r.start, r.end)
     /\ {updated, Stored(updated)} \subseteq Strings(MaxLength)
     /\ text' = Stored(updated) /\ stale' = (Stored(updated) # updated)
     /\ marked' = IF new = <<>> THEN NoRange
                  ELSE [start |-> start, end |-> start + Bytes(new)]
     /\ selection' = [start |-> start + chosen.start, end |-> start + chosen.end,
                      reversed |-> FALSE]
     /\ UNCHANGED field

\* set_selected_text_range, unmark_text.
SetSelectedRange(r) ==
  /\ selection' = [start |-> r.start, end |-> r.end, reversed |-> FALSE]
  /\ stale' = (stale /\ marked # NoRange)
  /\ UNCHANGED <<field, text, marked>>
Unmark == marked' = NoRange /\ UNCHANGED <<field, text, selection, stale>>

\* A handler sets the text of the field being edited and leaves its selection: another
\* subaddress's label, a lock, a unit switched, a payment URI.
SetByHandler(t) ==
  /\ field = "search" => "I" \notin Range(t)
  /\ field = "digits" => Range(t) \subseteq {"a"}
  /\ text' = t /\ stale' = TRUE
  /\ UNCHANGED <<field, selection, marked>>

Inputs == {<<>>, <<"a">>, <<"I">>}

EditNext ==
  \/ \E kind \in {"free", "search", "digits"}, t \in Strings(1) : Focus(kind, t)
  \/ Move \/ SelectByKey \/ SelectAll \/ Backspace \/ DeleteForward \/ Unmark
  \/ \E extend \in BOOLEAN : Click(extend)
  \/ \E new \in Inputs : Replace(new)
  \/ \E r \in Meant, new \in Inputs : ReplaceText(r, new)
  \/ \E r \in Meant, new \in Inputs : \E chosen \in Ranges(new) : ReplaceAndMark(r, new, chosen)
  \/ \E r \in Ranges(text) : SetSelectedRange(r)
  \/ \E t \in Strings(1) : SetByHandler(t)

EditSpec == EditInit /\ [][EditNext]_editVars

(* ------------------------------ properties ------------------------------ *)

\* Type correctness.
MaxBytes == 2 * MaxLength + 2
Spans == [start : 0..MaxBytes, end : 0..MaxBytes]
EditTypeOK ==
  /\ field \in {"free", "search", "digits"} /\ text \in Strings(MaxLength)
  /\ selection \in [start : 0..MaxBytes, end : 0..MaxBytes, reversed : BOOLEAN]
  /\ marked \in Spans \cup {NoRange} /\ stale \in BOOLEAN

\* Through keys, clicks, extended selections that cross, pastes, deletions and
\* everything an input method may mark, replace or select, the selection and the
\* marked range begin and end between characters, in order, so that every edit and
\* copy slices the text where it can be; unless the text was changed under them.
EditsSlice ==
  ~stale =>
    /\ {selection.start, selection.end} \subseteq Boundaries(text)
    /\ selection.start <= selection.end
    /\ marked # NoRange => {marked.start, marked.end} \subseteq Boundaries(text)
================================================================================
