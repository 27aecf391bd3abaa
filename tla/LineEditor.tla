----------------------------- MODULE LineEditor -----------------------------
(***************************************************************************)
(* IO::LineEditor: ReadLine edits a line key by key, with a history that   *)
(* outlives the call and options of its own for each call.  The line is a  *)
(* sequence of UTF-8 bytes and the cursor an offset into it.  A byte is    *)
(* here 0 if it continues a character, else the width of the one it        *)
(* begins.  Redraw can fail and end the call; what it draws is left out.   *)
(***************************************************************************)
EXTENDS Naturals, Sequences

CONSTANTS
  Widths,      \* of the characters typed, in bytes
  Limits,      \* the values of MaximumBytes
  Completions, \* what the completion function may return
  MaxHistory,  \* bound on the lines in the history
  MaxLine      \* bound on the length of a line past its limit

\* The bytes of one character.
Encoded(w) == [k \in 1..w |-> IF k = 1 THEN w ELSE 0]

\* Every character of s is there with all of its bytes.
WellFormed(s) ==
  \A k \in 1..Len(s) :
    IF s[k] = 0 THEN \E j \in 1..(k - 1) : s[j] > k - j
    ELSE /\ k + s[k] - 1 <= Len(s)
         /\ \A j \in 1..(s[k] - 1) : s[k + j] = 0

ASSUME LineEditorAssumption ==
  /\ Widths \subseteq 1..4
  /\ Limits \subseteq Nat
  /\ MaxHistory \in Nat
  /\ MaxLine \in Nat
  /\ \A s \in Completions : s \in Seq(0..4) /\ WellFormed(s)

VARIABLES
  reading,      \* a ReadLine is running
  options,      \* its Options
  line,         \* Line
  cursor,       \* Cursor
  historyIndex, \* HistoryIndex, which counts from 0
  history,      \* History_
  recalled      \* for the properties: the line was taken from the history
                \* in this call

vars == <<reading, options, line, cursor, historyIndex, history, recalled>>

OptionSet == [limit : Limits, multiline : BOOLEAN, addToHistory : BOOLEAN]
NoOptions == [limit |-> 0, multiline |-> FALSE, addToHistory |-> FALSE]

Init ==
  /\ reading = FALSE
  /\ options = NoOptions
  /\ line = <<>>
  /\ cursor = 0
  /\ historyIndex = 0
  /\ history = <<>>
  /\ recalled = FALSE
-----------------------------------------------------------------------------
\* Byte p of s, which like the code's offsets counts from 0, begins a
\* character or is the end of s.
Boundary(s, p) == p = Len(s) \/ s[p + 1] # 0

\* Deliberate error: a character is taken to be one byte.
PreviousByte(s, p) == IF p = 0 THEN 0 ELSE p - 1

\* The loop of PreviousBoundary ends at 0 or at a byte that begins a character.
PreviousBoundary(s, p) ==
  IF p = 0 THEN 0
  ELSE CHOOSE q \in 0..(p - 1) :
         /\ q = 0 \/ Boundary(s, q)
         /\ \A r \in (q + 1)..(p - 1) : ~Boundary(s, r)

NextBoundary(s, p) ==
  IF p >= Len(s) THEN Len(s)
  ELSE CHOOSE q \in (p + 1)..Len(s) :
         /\ Boundary(s, q)
         /\ \A r \in (p + 1)..(q - 1) : ~Boundary(s, r)

Inserted(s, p, text) == SubSeq(s, 1, p) \o text \o SubSeq(s, p + 1, Len(s))

\* s without its bytes from offset p up to q.
Erased(s, p, q) == SubSeq(s, 1, p) \o SubSeq(s, q + 1, Len(s))
-----------------------------------------------------------------------------
\* The call returns: its line and index are gone.
Leave ==
  /\ reading' = FALSE
  /\ options' = NoOptions
  /\ line' = <<>>
  /\ cursor' = 0
  /\ historyIndex' = 0
  /\ recalled' = FALSE

\* A key has changed what is shown: Redraw, which may fail.
Changed(newLine, newCursor) ==
  /\ \/ /\ line' = newLine
        /\ cursor' = newCursor
        /\ UNCHANGED <<reading, options, historyIndex, recalled>>
     \/ Leave
  /\ history' = history

\* Deliberate error: the index starts one behind the end.
ReadLineStartsBehind ==
  /\ ~reading
  /\ reading' = TRUE
  /\ options' \in OptionSet
  /\ historyIndex' = Len(history) + 1
  /\ UNCHANGED <<line, cursor, history, recalled>>

ReadLine ==
  /\ ~reading
  /\ reading' = TRUE
  /\ options' \in OptionSet
  /\ historyIndex' = Len(history)
  /\ UNCHANGED <<line, cursor, history, recalled>>

\* Escape, or a failure of WaitKey, of the completion function or of an
\* allocation, or text that does not fit.
ReadFails ==
  /\ reading
  /\ Leave
  /\ history' = history

Move ==
  /\ reading
  /\ \E p \in {PreviousBoundary(line, cursor), NextBoundary(line, cursor), 0, Len(line)} :
       Changed(line, p)

Delete ==
  /\ reading
  /\ cursor < Len(line)
  /\ Changed(Erased(line, cursor, NextBoundary(line, cursor)), cursor)

Backspace ==
  /\ reading
  /\ cursor > 0
  /\ Changed(Erased(line, PreviousBoundary(line, cursor), cursor),
             PreviousBoundary(line, cursor))

\* Up and Down: the line becomes a line of the history, or empty behind it.
Recall(index) ==
  /\ \/ /\ historyIndex' = index
        /\ line' = IF index < Len(history) THEN history[index + 1] ELSE <<>>
        /\ cursor' = Len(line')
        /\ recalled' = (index < Len(history))
        /\ UNCHANGED <<reading, options>>
     \/ Leave
  /\ history' = history

Up ==
  /\ reading
  /\ history # <<>>
  /\ Recall(IF historyIndex > 0 THEN historyIndex - 1 ELSE 0)

Down ==
  /\ reading
  /\ history # <<>>
  /\ Recall(IF historyIndex + 1 < Len(history) THEN historyIndex + 1 ELSE Len(history))

\* Deliberate error: only the length before the insertion is looked at.
FitsBefore(n) == Len(line) < options.limit

\* Room for n more bytes.
Fits(n) == Len(line) <= options.limit /\ n <= options.limit - Len(line)

Type ==
  /\ reading
  /\ \E w \in Widths :
       /\ Fits(w)
       /\ Changed(Inserted(line, cursor, Encoded(w)), cursor + w)

\* Shift and Enter, refused when the line is exactly as long as it may be.
Newline ==
  /\ reading
  /\ options.multiline
  /\ Len(line) # options.limit
  /\ Len(line) < MaxLine
  /\ Changed(Inserted(line, cursor, Encoded(1)), cursor + 1)

Complete ==
  /\ reading
  /\ \E text \in Completions :
       /\ Len(text) <= options.limit
       /\ Changed(text, Len(text))

(***************************************************************************)
(* Enter: what it echoes may fail, and so may the allocation for the       *)
(* history, both of which are a ReadFails; else the line is returned.      *)
(***************************************************************************)
Enter ==
  /\ reading
  /\ history' = IF options.addToHistory /\ line # <<>>
                THEN Append(history, line) ELSE history
  /\ Len(history') <= MaxHistory
  /\ Leave

\* ClearHistory, between two calls or from a callback during one.
ClearHistory ==
  /\ history' = <<>>
  /\ UNCHANGED <<reading, options, line, cursor, historyIndex, recalled>>

Next ==
  \/ ReadLine
  \/ ReadFails
  \/ Move
  \/ Delete
  \/ Backspace
  \/ Up
  \/ Down
  \/ Type
  \/ Newline
  \/ Complete
  \/ Enter
  \/ ClearHistory

Spec == Init /\ [][Next]_vars
-----------------------------------------------------------------------------
\* Whatever is typed, deleted, recalled and completed, the line keeps whole
\* characters and the cursor stays at the border of one.
CursorOnBoundary ==
  /\ WellFormed(line)
  /\ cursor \in 0..Len(line)
  /\ Boundary(line, cursor)

\* The history index a call keeps is one of the history's as long as there
\* is one, although callbacks may clear it meanwhile.
IndexInHistory == history # <<>> => historyIndex <= Len(history)

\* Neither of the two places that a call keeps ever points at nothing.
PlacesAreValid == CursorOnBoundary /\ IndexInHistory

\* Only a line of the history can be longer than MaximumBytes.
LongOnlyIfRecalled == reading /\ ~recalled => Len(line) <= options.limit
=============================================================================
