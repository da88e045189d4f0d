------------------------------ MODULE SoskText ------------------------------
(***************************************************************************)
(* The text of the on-screen keyboard (cdialog/sosk.c): a buffer that ends *)
(* at its first NUL, its length with the NUL, and the part of it that the  *)
(* input area shows, with the cursor in it.                                *)
(***************************************************************************)
EXTENDS Naturals, Sequences, FiniteSetsExt

CONSTANTS
  Chars,
  NUL,
  TextMax,   \* bytes of the buffer
  Width      \* characters of the input area, CDIALOG_SOSK_INPUT_AREA_WIDTH

VARIABLES
  buf,         \* what the bytes from 0 on hold
  length,      \* strlen + 1
  offset,      \* the first character that is shown
  cursorPos    \* the cursor, from the first that is shown

textVars == <<buf, length, offset, cursorPos>>

Cells == 0 .. TextMax - 1
Strlen(b) == Min({i \in Cells : b[i] = NUL} \cup {TextMax})

\* The length is that of the text, and the cursor is in the input area and not beyond the
\* text.
TypeOK ==
  /\ buf \in [Cells -> Chars \cup {NUL}] /\ length = Strlen(buf) + 1
  /\ cursorPos \in 0 .. Width - 1 /\ offset + cursorPos < length

\* cdialogSoskStartNoLock: the memory beyond the copied text is not set.
Init ==
  /\ buf \in {b \in [Cells -> Chars \cup {NUL}] : \E i \in Cells : b[i] = NUL}
  /\ length = Strlen(buf) + 1
  /\ offset = IF length > Width THEN length - Width ELSE 0
  /\ cursorPos = IF length > Width THEN Width - 1 ELSE length - 1

\* memmove of n bytes from "from" to "to", within the buffer.
Moved(b, to, from, n) ==
  [i \in Cells |-> IF i \in to .. to + n - 1 THEN b[i - to + from] ELSE b[i]]

\* cdialog_sosk_cursor_forward, in a text that is "len" long: near the right end the text
\* moves, as long as there is more of it.
Forward(len) ==
  IF offset + cursorPos >= len - 1 THEN UNCHANGED <<offset, cursorPos>>
  ELSE IF cursorPos >= Width - 4 /\ offset + Width <= len - 1
  THEN offset' = offset + 1 /\ UNCHANGED cursorPos
  ELSE cursorPos' = cursorPos + 1 /\ UNCHANGED offset

\* cdialog_sosk_cursor_back.
Back ==
  IF offset + cursorPos = 0 THEN UNCHANGED <<offset, cursorPos>>
  ELSE IF cursorPos <= 3 /\ offset > 0
  THEN offset' = offset - 1 /\ UNCHANGED cursorPos
  ELSE cursorPos' = cursorPos - 1 /\ UNCHANGED offset

\* Variant: all but the NUL moves.
OpenedNoEnd(b, at) == Moved(b, at + 1, at, length - at - 1)

\* The text with room for a character at "at".
Opened(b, at) ==
  IF b[at] = NUL THEN [b EXCEPT ![at + 1] = NUL] ELSE Moved(b, at + 1, at, length - at)

\* The text without the character before "at".
Closed(b, at) ==
  IF b[at] = NUL THEN [b EXCEPT ![at - 1] = NUL] ELSE Moved(b, at - 1, at, length - at)

CursorForward == Forward(length) /\ UNCHANGED <<buf, length>>
CursorBack    == Back /\ UNCHANGED <<buf, length>>

\* cdialog_sosk_input_char: in a full buffer there is no room for one more.
InputChar(c) ==
  /\ length + 1 <= TextMax
  /\ LET at == offset + cursorPos IN buf' = [Opened(buf, at) EXCEPT ![at] = c]
  /\ length' = length + 1
  /\ Forward(length + 1)

\* cdialog_sosk_input_bs.
InputBs ==
  /\ offset + cursorPos > 0
  /\ buf' = Closed(buf, offset + cursorPos)
  /\ length' = length - 1
  /\ Back

Next == CursorForward \/ CursorBack \/ (\E c \in Chars : InputChar(c)) \/ InputBs

Spec == Init /\ [][Next]_textVars

-----------------------------------------------------------------------------
\* The keyboard is a line editor: whatever part of the text is shown, characters go in and
\* out where the cursor is, none is lost or doubled.
Line == INSTANCE LineEditor WITH
  MaxLength <- TextMax - 1,
  text <- [i \in 1 .. Strlen(buf) |-> buf[i - 1]], at <- offset + cursorPos

ImplementsLine == Line!Spec
=============================================================================
