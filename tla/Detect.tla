-------------------------------- MODULE Detect --------------------------------
(***************************************************************************)
(* The dialog that asks for a combination of buttons                       *)
(* (src/include/cdialog/detectbuttons.c): it is pressed, or chosen from a  *)
(* list.  A step is a frame.                                               *)
(***************************************************************************)
EXTENDS Naturals, SequencesExt, Functions

CONSTANTS
  Lists,          \* the lists of available buttons it is opened with
  Keys,           \* the buttons that users press
  Combinations,   \* and what they press while buttons are detected
  Accept, Cancel, \* cdialogDevAcceptButton, cdialogDevCancelButton
  Row,            \* CDIALOG_DETECTBUTTONS_LIST_ROW
  Tried           \* bound: the buttons that users choose from the list

VARIABLES
  avail,    \* availButtonNames
  given,    \* *data.buttons, the caller's
  buttons,  \* work.buttons, those that are shown
  mode,     \* work.flags: "plain", "detecting", "choosing"
  waiting,  \* CDIALOG_DETECTBUTTONS_WAITFORRELEASE
  index,    \* work.index
  result,   \* base.result
  held,     \* history: what was pressed in the last frame, while buttons are detected
  released, \* history: there was a frame with nothing pressed since detecting began
  seen      \* history: what was pressed since then

vars == <<avail, given, buttons, mode, waiting, index, result, held, released, seen>>

Count == Len(avail)

TypeOK ==
  /\ avail \in Lists /\ given \subseteq Range(avail) /\ buttons \subseteq Range(avail)
  /\ mode \in {"plain", "detecting", "choosing"} /\ waiting \in BOOLEAN /\ index \in 0 .. 255
  /\ result \in {"unknown", "accept", "cancel"} /\ held \subseteq Range(avail)
  /\ released \in BOOLEAN /\ seen \subseteq Range(avail)

\* cdialogDetectbuttonsStartNoLock.
Init ==
  /\ avail \in Lists /\ given \in {{}, {Accept}} /\ buttons = given
  /\ mode = "plain" /\ waiting = FALSE /\ index = 0 /\ result = "unknown"
  /\ held = {} /\ released = FALSE /\ seen = {}

-----------------------------------------------------------------------------
(* Moving in the list, which is shown in columns of Row. *)

\* Variant: up from the top of a column goes to its foot, be there one or not.
UpToFoot(i) == IF i % Row = 0 THEN i + Row - 1 ELSE i - 1
Up(i) ==
  IF i % Row = 0
  THEN IF i + Row - 1 > Count THEN Count - 1 ELSE i + Row - 1
  ELSE i - 1
Down(i) == IF i = Count - 1 \/ (i + 1) % Row = 0 THEN (i \div Row) * Row ELSE i + 1
Right(i) == IF i + Row > Count - 1 THEN i % Row ELSE i + Row
LastColumn(i) == CHOOSE j \in i .. i + Count : (j - i) % Row = 0 /\ j < Count /\ j + Row >= Count
Left(i) == IF i < Row THEN LastColumn(i) ELSE i - Row

-----------------------------------------------------------------------------
(* A frame of cdialogDetectbuttonsUpdate. "real" is what is pressed, "pad" *)
(* what is reported of it: cdialogDevReadCtrlBuffer reports all or nothing.*)

\* A press counts if it is the first after all were up, or goes on with that one; what is
\* down when detecting begins does not.
Detecting(real) ==
  LET again == real # {} /\ ~waiting /\ real \cap buttons # {}
      adds  == real # {} /\ ~again /\ (buttons # {} \/ ~waiting) /\ ~(real \subseteq buttons)
  IN  /\ mode' = (IF again THEN "plain" ELSE mode)
      /\ waiting' = ((waiting /\ real # {}) \/ adds)
      /\ buttons' = (IF adds THEN buttons \cup real ELSE buttons)
      /\ UNCHANGED <<given, index, result>>

\* The first of "order" that is pressed decides.
Tested(pad, order) == SelectInSeq(order, LAMBDA tested : tested \in pad)

Toggle(b) == IF b \in buttons THEN buttons \ {b} ELSE buttons \cup {b}

Choosing(pad) ==
  LET key    == Tested(pad, <<"UP", "DOWN", "RIGHT", "LEFT", Accept, Cancel, "START">>)
      chosen == avail[index + 1]
  IN  /\ index' = (CASE key = 1 -> Up(index) [] key = 2 -> Down(index)
                      [] key = 3 -> Right(index) [] key = 4 -> Left(index) [] OTHER -> index)
      /\ key = 5 => chosen \in Tried
      /\ buttons' = (IF key = 5 THEN Toggle(chosen) ELSE buttons)
      /\ mode' = (IF key \in {6, 7} THEN "plain" ELSE mode)
      /\ UNCHANGED <<given, waiting, result>>

Plain(pad) ==
  LET key == Tested(pad, <<Accept, Cancel, "SQUARE", "TRIANGLE", "START">>) IN
  /\ mode' = (CASE key = 1 -> "detecting" [] key = 4 -> "choosing" [] OTHER -> mode)
  /\ waiting' = (waiting \/ key = 1)
  /\ buttons' = (IF key \in {1, 3} THEN {} ELSE buttons)
  /\ index' = (IF key = 4 THEN 0 ELSE index)
  /\ given' = (IF key = 5 THEN buttons ELSE given)
  /\ result' = (CASE key = 2 -> "cancel" [] key = 5 -> "accept" [] OTHER -> result)

Update(real, pad) ==
  /\ result = "unknown"
  /\ CASE mode = "detecting" -> Detecting(real)
       [] mode = "choosing"  -> Choosing(pad)
       [] OTHER              -> Plain(pad)
  /\ held' = (IF "detecting" \in {mode, mode'} THEN real ELSE {})
  /\ released' = (mode = "detecting" /\ (released \/ real = {}))
  /\ seen' = (IF released' THEN seen \cup real ELSE {})
  /\ UNCHANGED avail

\* It is closed, and opened again, for these buttons or others.
Reopen ==
  /\ result # "unknown"
  /\ given' \in {{}, {Accept}} /\ buttons' = given' /\ mode' = "plain" /\ waiting' = FALSE
  /\ index' = 0 /\ result' = "unknown" /\ held' = {} /\ released' = FALSE /\ seen' = {}
  /\ UNCHANGED avail

Frame ==
  \E real \in (IF mode = "detecting" THEN Combinations ELSE {{b} : b \in Keys}) :
    \E pad \in {real, {}} : Update(real, pad)

Next == Reopen \/ Frame

Spec == Init /\ [][Next]_vars

-----------------------------------------------------------------------------
\* While buttons are detected, those are taken that were pressed since all were up, in one
\* press or in several; the first press after all were up ends it when it is of a button that
\* was taken, and takes no other (cdialogDetectbuttonsUpdate).
Detected ==
  mode = "detecting" =>
    IF held = {} /\ held' \cap seen # {}
    THEN mode' = "plain" /\ buttons' = buttons
    ELSE mode' = "detecting" /\ buttons' = seen'

\* What is chosen is in the list, which is in columns and whose last is not full.
IndexInList == index < Count
=============================================================================
