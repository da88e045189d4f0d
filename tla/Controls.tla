------------------------------ MODULE Controls ------------------------------
(***************************************************************************)
(* What the items of a menu do with what they show (mfctrl): a switch, a   *)
(* choice from a list, a number and the buttons, each a variable of its    *)
(* caller, and the two that load and save a file.  A number is read and    *)
(* written by as many bytes as its greatest value needs, by the item on    *)
(* every message and by the dialog that edits it (mfdialog, cdialog).      *)
(* Last, the digits of that dialog, which are turned one at a time and are *)
(* kept below the greatest number.                                         *)
(***************************************************************************)
EXTENDS Integers, FiniteSetsExt

CONSTANTS
  Prefs,    \* what the callers give with a number: [max, min, width]
  Counts,   \* the lengths of the lists of options
  Byte,     \* the values of a byte, 256 in the code
  Beyond,   \* what a variable may hold to begin with, beyond what is allowed and beside it
  Null,
  Maxima,   \* the greatest numbers that the callers of the number dialog give
  Over      \* how far a number from a file goes beyond the greatest

VARIABLES
  control,  \* "bool", "option", "number", "buttons" or "file"
  pref,     \* arg of the control: a number's preferences, or the number of options
  var,      \* *var, and the bytes after it
  dialog,   \* the dialog that edits it, "none" or "shown"
  held,     \* the blocks of the menu's memory that the control has taken
  extra,    \* __mf_ctrl_ini_helper_handler is set
  unsure,   \* history: its value when set was taken for an error
  greatest, \* data.max of the number dialog
  numbers,  \* the digits that are shown, from 1
  digit     \* the digit that is edited

vars == <<control, pref, var, dialog, held, extra, unsure>>
quiet == <<control, pref, held, extra, unsure>>
numeditVars == <<greatest, numbers, digit>>

\* mf_ctrl_var_get_num reads as many bytes as the greatest value needs.
Word       == Byte * Byte
Bytes(max) == IF max < Byte THEN Byte ELSE IF max < Word THEN Word ELSE Word * Word
Got(n, max) == n % Bytes(max)
\* mf_ctrl_var_set_num leaves the bytes after those alone.
SetTo(max, value) == (var - Got(var, max)) + (value % Bytes(max))

TypeOK ==
  /\ var \in Nat /\ dialog \in {"none", "shown"} /\ held \subseteq {"params", "path"}
  /\ extra \in BOOLEAN /\ unsure \in BOOLEAN
  /\ \/ control \in {"bool", "buttons", "file"} /\ pref = Null
     \/ control = "option" /\ pref \in Counts
     \/ control = "number" /\ pref \in Prefs

\* A variable holds what a file gave, which nobody compares with the preferences.
Init ==
  /\ dialog = "none" /\ held = {} /\ extra = FALSE /\ unsure = FALSE
  /\ \/ control \in {"bool", "buttons"} /\ pref = Null /\ var \in {0, 1}
     \/ control = "file" /\ pref = Null /\ var = 0
     \/ control = "option" /\ pref \in Counts /\ var \in 0 .. pref - 1
     \/ control = "number" /\ pref \in Prefs /\ \E n \in Beyond : var \in {n, pref.max + n}

Free(kind) == control = kind /\ dialog = "none" /\ ~extra

-----------------------------------------------------------------------------
(* The items, when a button is pressed on them. *)

\* mfCtrlDefBool
Toggle == Free("bool") /\ var' = 1 - var /\ UNCHANGED <<quiet, dialog>>

\* mfCtrlDefOptions: the next, and the one before; the list ends with NULL.
OptionAfter(n, count) == IF n + 1 = count THEN 0 ELSE n + 1
\* Variant: the search for the last stops one after it.
BeforePast(n, count) == IF n = 0 THEN count ELSE n - 1
OptionBefore(n, count) == IF n = 0 THEN count - 1 ELSE n - 1
Choose ==
  /\ Free("option")
  /\ var' \in {OptionAfter(var, pref), OptionBefore(var, pref)}
  /\ UNCHANGED <<quiet, dialog>>

\* mfCtrlDefGetNumber: SQUARE and accept. The difference is one of unsigned numbers.
Less(value) ==
  IF pref.width # 0 THEN (IF value >= pref.width THEN value - pref.width ELSE value)
  ELSE IF value > pref.min THEN value - 1 ELSE value
\* Variant: the room up to the greatest value is not looked at.
MoreUnlimited(value) == IF pref.width # 0 THEN value + pref.width ELSE value + 1
More(value) ==
  IF pref.width # 0
  THEN (IF value > pref.max \/ pref.max - value >= pref.width THEN value + pref.width ELSE value)
  ELSE IF value < pref.max THEN value + 1 ELSE value
Step ==
  /\ Free("number")
  /\ LET value == Got(var, pref.max) IN
     \E v \in {Less(value), More(value)} : var' = SetTo(pref.max, v)
  /\ UNCHANGED <<quiet, dialog>>

\* mfDialogNumedit and mfDialogDetectbuttons, which begin the dialog or do not.
Edit ==
  /\ Free("number") \/ Free("buttons")
  /\ dialog' = "shown" /\ UNCHANGED <<quiet, var>>

-----------------------------------------------------------------------------
(* The dialogs, which keep the address of the variable. *)

\* cdialog_numedit_set_number. The digits are as many as the greatest value has.
NumberAccepted(max, n) == var' = SetTo(max, IF n > max THEN max ELSE n)
AcceptNumber ==
  /\ control = "number" /\ dialog = "shown" /\ dialog' = "none"
  /\ \E n \in {0, 1, pref.max \div 2, pref.max, pref.max + 1} : NumberAccepted(pref.max, n)
  /\ UNCHANGED quiet
AcceptButtons ==
  /\ control = "buttons" /\ dialog = "shown" /\ dialog' = "none"
  /\ var' \in {0, 1} /\ UNCHANGED quiet
Cancel == dialog = "shown" /\ dialog' = "none" /\ UNCHANGED <<quiet, var>>

-----------------------------------------------------------------------------
(* mfCtrlDefIniLoad and mfCtrlDefIniSave. *)

\* Variant: only one of the blocks is freed.
FreedParams(block) == block = "params"
Freed(block) == block \in {"params", "path"}

\* Memory for the parameters and the path; mfMenuSetExtra, whose value is that of a
\* procedure that gives none.
LoadItem ==
  /\ Free("file")
  /\ \/ held' = {"params", "path"} /\ extra' = TRUE /\ UNCHANGED unsure
     \/ held' = {"params", "path"} /\ extra' = FALSE /\ unsure' = TRUE  \* the blocks are lost
     \/ UNCHANGED <<held, extra, unsure>>      \* no memory for one of them
  /\ UNCHANGED <<control, pref, var, dialog>>
\* MF_CTRL_DEF_INI_SIG_FINISH
Finished ==
  /\ extra /\ extra' = FALSE
  /\ held' = {block \in held : ~Freed(block)}
  /\ UNCHANGED <<control, pref, var, dialog, unsure>>

Next ==
  \/ Toggle \/ Choose \/ Step \/ Edit
  \/ AcceptNumber \/ AcceptButtons \/ Cancel
  \/ LoadItem \/ Finished

Spec == Init /\ [][Next]_vars

-----------------------------------------------------------------------------
\* The variable is the user's: an allowed number is followed by an allowed one, the bytes
\* beside it stay, and a list of options is left at none of its ends and walked back as it was
\* walked on.
Kept ==
  /\ control = "number" =>
       LET value == Got(var, pref.max)
           then  == Got(var', pref.max)
       IN  /\ value <= pref.max => then <= pref.max
           /\ var' - then = var - value
  /\ control = "option" =>
       /\ var' \in 0 .. pref - 1
       /\ Choose => OptionAfter(var', pref) = var \/ OptionBefore(var', pref) = var
VariableKept == [][Kept]_vars

\* The control's memory is held for as long as its procedure is set, unless that was taken
\* for one that failed.
HeldWhileSet == held = (IF extra THEN {"params", "path"} ELSE {}) \/ unsure

-----------------------------------------------------------------------------
(* The digits of the number dialog (cdialog/numedit.c). *)

Digits(n) == Min({d \in 1 .. 9 : n < 10 ^ d})
Places(n) == 1 .. Digits(n)
Digit(n, size, i) == (n \div 10 ^ (size - i)) % 10

\* The digits of n, the greatest being m.
Written(n, m) == [i \in Places(m) |-> Digit(n, Digits(m), i)]
Value(ds, m)  == MapThenSumSet(LAMBDA i : ds[i] * 10 ^ (Digits(m) - i), Places(m))

NumeditTypeOK ==
  /\ greatest \in Maxima
  /\ numbers \in [Places(greatest) -> 0 .. 9]
  /\ digit \in Places(greatest)

\* cdialogNumeditStartNoLock. The number may come from a file, which nobody checks.
NumeditInit ==
  /\ greatest \in Maxima
  /\ \E n \in 0 .. greatest + Over : numbers = Written(n, greatest)
  /\ digit = Digits(greatest)

Right ==
  /\ digit' = IF digit = Digits(greatest) THEN 1 ELSE digit + 1
  /\ UNCHANGED <<greatest, numbers>>
Left ==
  /\ digit' = IF digit = 1 THEN Digits(greatest) ELSE digit - 1
  /\ UNCHANGED <<greatest, numbers>>

Turned(up) == [numbers EXCEPT ![digit] = IF up THEN (@ + 1) % 10 ELSE (@ + 9) % 10]

\* Variant: only the first digit is compared.
TooGreatFirst(ds, i) == i = 1 /\ ds[1] > Written(greatest, greatest)[1]
\* A digit is too great if the one before leaves no room for it.
TooGreat(ds, i) ==
  LET top == Written(greatest, greatest) IN
  ds[i] > top[i] /\ (i = 1 \/ ds[i - 1] >= top[i - 1])

\* The loop at the end of cdialog_numedit_rotate, from the first digit on: the digits that
\* are too great become those of the greatest number, and the one that was turned up 0.
Clamped(ds, up) ==
  LET top == Written(greatest, greatest)
      fit[i \in 0 .. Digits(greatest)] ==
        IF i = 0 THEN ds
        ELSE LET d == fit[i - 1] IN
             IF ~TooGreat(d, i) THEN d
             ELSE [d EXCEPT ![i] = IF i = digit /\ up THEN 0 ELSE top[i]]
  IN  IF ds[1] >= top[1] THEN fit[Digits(greatest)] ELSE ds

Rotate(up) ==
  /\ numbers' = Clamped(Turned(up), up)
  /\ UNCHANGED <<greatest, digit>>

NumeditNext == Right \/ Left \/ \E up \in BOOLEAN : Rotate(up)

NumeditSpec == NumeditInit /\ [][NumeditNext]_numeditVars

-----------------------------------------------------------------------------
\* With the greatest numbers that the callers give, turning a digit changes that digit and
\* no other if the number is allowed, and leads to an allowed number in any case.
DigitTurned ==
  \A up \in BOOLEAN : Rotate(up) =>
    LET alone == Value(Turned(up), greatest) IN
    IF alone <= greatest THEN Value(numbers', greatest) = alone
    ELSE Value(numbers', greatest) <= greatest
DigitTurns == [][DigitTurned]_numeditVars
=============================================================================
