------------------------------- MODULE Editor -------------------------------
(***************************************************************************)
(* The macro editor (macroeditor) and the list of commands it works on     *)
(* (macromgr).  The line under the cursor is copied, the copy is edited by *)
(* a dialog or by a small table of items, and the copy is written back     *)
(* when the menu loop says that the dialog is over, or when an item has    *)
(* sent a signal.  A step is a frame of the menu loop.                     *)
(***************************************************************************)
EXTENDS Naturals, Sequences, SequencesExt, FiniteSetsExt

CONSTANTS
  MaxLines,   \* commands in the macro
  HalfPage,   \* MACROEDITOR_LINES_PER_PAGE >> 1
  Values      \* numbers that a dialog can give

VARIABLES
  lines,      \* the list: an address, an action and its data each
  count,      \* numberOfCmd, which is one less than there are
  pos,        \* selectedPos
  selected,   \* the copy
  temp,       \* selected.temp
  tables,     \* menu.tables
  row,        \* the item of the table under the cursor
  main,       \* Message.Main of the frame to come
  update,     \* MACROEDITOR_SIG_UPDATE_CMD is in its Message.Sub
  dialog,     \* "over" until the loop notices that it is
  wanted,     \* history: what the selected command is to be
  field,      \* history: the item that has opened the dialog
  both        \* history: another button was pressed in the frame that opened the dialog

vars == <<lines, count, pos, selected, temp, tables, row, main, update, dialog,
          wanted, field, both>>

Actions == {"delay", "analog"}    \* edited by a dialog, edited by a table
Fields  == {"x", "y"}
Neutral == 1                      \* MACROMGR_ANALOG_NEUTRAL, of both
Data    == [action : Actions, x : Values, y : Values]
Commands == [cmd : 1 .. MaxLines, data : Data]

TypeOK ==
  /\ lines \in Seq(Commands) /\ Len(lines) \in 1 .. MaxLines
  /\ count \in 0 .. MaxLines - 1 /\ pos \in 0 .. MaxLines
  /\ selected \in [cmd : 0 .. MaxLines, data : Data] /\ temp \in Values
  /\ tables \in {"none", "type", "analog"} /\ row \in Fields
  /\ main \in {"PROC", "WAIT", "CONTINUE"} /\ update \in BOOLEAN
  /\ dialog \in {"none", "on", "over"}
  /\ wanted \in Data /\ field \in Fields /\ both \in BOOLEAN

DelayZero == [action |-> "delay", x |-> 0, y |-> 0]
Fresh(action) == IF action = "analog" THEN [action |-> action, x |-> Neutral, y |-> Neutral]
                 ELSE DelayZero

\* macromgr_command_new: memory that is free, which may have been a command before.
Address == Min(1 .. MaxLines \ {lines[i].cmd : i \in DOMAIN lines})
NewCommand == [cmd |-> Address, data |-> DelayZero]

\* macroeditorInit
Init ==
  /\ lines = <<[cmd |-> 1, data |-> DelayZero]>>
  /\ count = 0 /\ pos = 0 /\ selected = [cmd |-> 0, data |-> DelayZero] /\ temp = 0
  /\ tables = "none" /\ row = "x" /\ main = "PROC" /\ update = FALSE /\ dialog = "none"
  /\ wanted = DelayZero /\ field = "x" /\ both = FALSE

-----------------------------------------------------------------------------
(* What a frame begins and ends with. *)

\* macromgrSetCommand, after a dialog or by the signal of an item.
ToWrite == main = "CONTINUE" \/ update
Written ==
  [i \in DOMAIN lines |->
    IF ToWrite /\ lines[i].cmd = selected.cmd THEN [lines[i] EXCEPT !.data = selected.data]
    ELSE lines[i]]

\* The line at the cursor is on the page (mfMenuScroll), so that drawing copies it.
Current  == Written[pos + 1]
Copied   == selected' = Current /\ wanted' = Current.data

\* The messages of the next frame, the item having called mfMenuBack or not.
Turned(opened) ==
  main' = IF opened \/ dialog = "on" THEN "WAIT"
          ELSE IF main = "WAIT" THEN "CONTINUE" ELSE "PROC"
TurnedBack == main' = "PROC"

NoDialog == dialog = "none" /\ UNCHANGED dialog /\ field' = "x"
OpenDialog(f) ==
  /\ dialog = "none"
  /\ \/ dialog' = "on" /\ field' = f /\ Turned(TRUE)
     \/ UNCHANGED <<dialog, field>> /\ Turned(FALSE)     \* no memory: nothing happens

-----------------------------------------------------------------------------
(* Frames in which a line is selected. *)

Idle == tables = "none" /\ main # "WAIT"
\* What is set before it is looked at again is put back, to have fewer states.
IdleRest == temp' = 0 /\ row' = "x" /\ both' = FALSE /\ update' = FALSE

Move ==
  /\ Idle /\ lines' = Written /\ Copied /\ UNCHANGED <<count, tables>>
  /\ \/ UNCHANGED pos
     \/ pos' = IF pos = 0 THEN count ELSE pos - 1
     \/ pos' = IF pos >= count THEN 0 ELSE pos + 1
     \/ pos' = IF pos <= HalfPage THEN 0 ELSE pos - HalfPage
     \/ pos' = IF count - pos <= HalfPage THEN count ELSE pos + HalfPage
  /\ NoDialog /\ Turned(FALSE) /\ IdleRest

\* Accept: a dialog that edits the copy, or a table. TRIANGLE: the table of types.
Edit ==
  /\ Idle /\ lines' = Written /\ Copied /\ UNCHANGED <<count, pos>>
  /\ \/ Current.data.action = "delay" /\ OpenDialog("x") /\ UNCHANGED tables
     \/ Current.data.action = "analog" /\ tables' = "analog" /\ NoDialog /\ Turned(FALSE)
     \/ tables' = "type" /\ NoDialog /\ Turned(FALSE)
  /\ IdleRest

\* SQUARE: macromgrRemove frees the command, the copy has its address until the next frame.
\* Variant: the cursor stays behind the end.
AnyWhere(p, last) == p
InRange(p, last) == IF last < p THEN last ELSE p
Delete ==
  /\ Idle /\ Copied
  /\ IF count = 0
     THEN lines' = [Written EXCEPT ![pos + 1].data = DelayZero] /\ UNCHANGED <<count, pos>>
     ELSE /\ lines' = RemoveAt(Written, pos + 1)
          /\ count' = count - 1 /\ pos' = InRange(pos, count')
  /\ UNCHANGED tables /\ NoDialog /\ Turned(FALSE) /\ IdleRest

InsertBefore ==
  /\ Idle /\ Len(lines) < MaxLines /\ Copied
  /\ lines' = InsertAt(Written, pos + 1, NewCommand)
  /\ count' = count + 1 /\ UNCHANGED pos
  /\ UNCHANGED tables /\ NoDialog /\ Turned(FALSE) /\ IdleRest
InsertAfter ==
  /\ Idle /\ Len(lines) < MaxLines /\ Copied
  /\ lines' = InsertAt(Written, pos + 2, NewCommand)
  /\ count' = count + 1 /\ pos' = pos + 1
  /\ UNCHANGED tables /\ NoDialog /\ Turned(FALSE) /\ IdleRest

\* Cancel, and the editor is entered again.
Leave ==
  /\ Idle /\ lines' = Written
  /\ count' = Len(lines) - 1 /\ pos' = 0 /\ selected' = [cmd |-> 0, data |-> DelayZero]
  /\ tables' = "none" /\ main' = "PROC" /\ wanted' = DelayZero /\ NoDialog /\ IdleRest

-----------------------------------------------------------------------------
(* Frames of a dialog. It may end in each that has noticed it. *)

Result(v) ==
  /\ IF tables = "none" THEN selected' = [selected EXCEPT !.data.x = v] /\ UNCHANGED temp
     ELSE temp' = v /\ UNCHANGED selected
  /\ wanted' = [wanted EXCEPT ![field] = v]
DialogFrame ==
  /\ dialog = "on"
  /\ \/ dialog' = "on" /\ UNCHANGED <<selected, temp, wanted>>
     \/ dialog' = "over" /\ UNCHANGED <<selected, temp, wanted>>    \* cancelled
     \/ dialog' = "over" /\ \E v \in Values : Result(v)
  /\ lines' = Written /\ update' = FALSE /\ Turned(FALSE)
  /\ UNCHANGED <<count, pos, tables, row, field, both>>
\* The copy is to be written in the next frame.
DialogOver ==
  /\ dialog = "over" /\ tables = "none"
  /\ dialog' = "none" /\ lines' = Written /\ update' = FALSE /\ Turned(FALSE)
  /\ UNCHANGED <<count, pos, selected, temp, tables, row, wanted, field, both>>

-----------------------------------------------------------------------------
(* Frames of a table. *)

InTable(which) == tables = which /\ lines' = Written

\* macroeditor_ctrl_set_type
SetType ==
  /\ InTable("type") /\ dialog = "none"
  /\ \E action \in Actions :
       IF action # selected.data.action
       THEN /\ selected' = [selected EXCEPT !.data = Fresh(action)] /\ update' = TRUE
            /\ wanted' = Fresh(action)
       ELSE UNCHANGED <<selected, wanted>> /\ update' = FALSE
  /\ tables' = "none" /\ TurnedBack
  /\ UNCHANGED <<count, pos, temp, row, dialog, field, both>>

\* macroeditor_ctrl_edit_analog_x and _y: the dialog edits a number of its own. In the same
\* frame the cursor may move, or cancel may take the table away.
EditField ==
  /\ InTable("analog")
  /\ temp' = selected.data[row] /\ OpenDialog(row)
  /\ \/ UNCHANGED <<row, tables, both>>
     \/ row' \in Fields \ {row} /\ both' = TRUE /\ UNCHANGED tables
     \/ tables' = "none" /\ both' = TRUE /\ UNCHANGED row
  /\ update' = FALSE
  /\ UNCHANGED <<count, pos, selected, wanted>>
\* MF_CM_CONTINUE: the number is put into the data, whether the dialog was accepted or not.
FieldDone ==
  /\ InTable("analog") /\ dialog = "over"
  /\ selected' = [selected EXCEPT !.data[row] = temp] /\ update' = TRUE
  /\ dialog' = "none" /\ tables' = "none" /\ TurnedBack
  /\ UNCHANGED <<count, pos, temp, row, wanted, field, both>>

TableMove ==
  /\ tables # "none" /\ lines' = Written /\ NoDialog
  /\ \/ row' \in Fields /\ UNCHANGED tables
     \/ tables' = "none" /\ UNCHANGED row
  /\ update' = FALSE /\ Turned(FALSE)
  /\ UNCHANGED <<count, pos, selected, temp, wanted, both>>

Next ==
  \/ Move \/ Edit \/ Delete \/ InsertBefore \/ InsertAfter \/ Leave
  \/ DialogFrame \/ DialogOver
  \/ SetType \/ EditField \/ FieldDone \/ TableMove

Spec == Init /\ [][Next]_vars

-----------------------------------------------------------------------------
\* The cursor is at a command, and what is written goes to that very command and is what
\* the user has made of it: the dialog's number where it belongs if it was accepted, and
\* else what was there. Two buttons in the frame that opens a dialog are left out: they
\* leave the number in the other item, or nowhere.
EditLands ==
  /\ count = Len(lines) - 1 /\ pos <= count
  /\ ToWrite => /\ selected.cmd = lines[pos + 1].cmd
                /\ ~both => selected.data = wanted
=============================================================================
