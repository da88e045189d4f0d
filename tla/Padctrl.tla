-------------------------------- MODULE Padctrl --------------------------------
(***************************************************************************)
(* Reading the pad with key repeat (src/include/pad/padctrl), as the menu  *)
(* and the dialogs do in every frame.                                      *)
(***************************************************************************)
EXTENDS Naturals, FiniteSets

CONSTANTS
  Normal,      \* PADUTIL_PAD_NORMAL_BUTTONS
  Toggles,     \* PADUTIL_PAD_TOGGLE_BUTTONS, which stay on: a switch, a card that is in
  Repeat,      \* those of padctrlSetRepeatButtons
  StartDelay,  \* PADCTRL_REPEAT_START_DELAY and PADCTRL_REPEAT_NEXT_DELAY, in frames
  NextDelay

VARIABLES
  since,      \* the time since lastTick, in frames
  lastPad,    \* lastButtons
  prePressed, \* prePressed
  doRepeat,   \* doRepeat
  held,       \* what is pressed in this frame
  before,     \* history: what was pressed in the last one
  reported,   \* the buttons that the reader is given
  steady,     \* history: frames since what is pressed changed
  fresh,      \* history: there was a reset since the normal buttons changed
  blank       \* history: there was a frame with nothing on since the last reset

vars == <<since, lastPad, prePressed, doRepeat, held, before, reported, steady, fresh, blank>>

Buttons == Normal \cup Toggles
Long    == StartDelay + NextDelay

TypeOK ==
  /\ since \in 0 .. Long + 1 /\ lastPad \subseteq Buttons /\ prePressed \subseteq Normal
  /\ doRepeat \in BOOLEAN /\ held \subseteq Buttons /\ before \subseteq Buttons
  /\ reported \subseteq Buttons /\ steady \in 0 .. Long + 1 /\ fresh \in BOOLEAN /\ blank \in BOOLEAN

\* padctrlNew and padctrlResetRepeat: what is down is not to be reported. lastTick is 0,
\* long ago.
Reset(real) ==
  /\ since' = Long + 1 /\ lastPad' = real /\ prePressed' = real \cap Normal /\ doRepeat' = FALSE

Init ==
  /\ since = Long + 1 /\ doRepeat = FALSE /\ held \in SUBSET Buttons /\ before = held
  /\ lastPad = held /\ prePressed = held \cap Normal /\ reported = {}
  /\ steady = 0 /\ fresh = TRUE /\ blank = (held = {})

\* The buttons of a frame without those that were pressed at the reset, as long as exactly
\* they are.
\* Variant: as long as any of them is.
UnpressedAny(real) == IF prePressed \cap real # {} THEN real \ Normal ELSE real
Unpressed(real) ==
  IF prePressed # {} /\ prePressed = real \cap Normal THEN real \ Normal ELSE real

\* __padctrl_proc of a frame, "elapsed" after lastTick.
\* Nothing pressed: it returns early, and remembers what was.
Proc(real, elapsed) ==
  LET pad   == Unpressed(real)
      delay == IF doRepeat THEN NextDelay ELSE StartDelay
  IN  /\ prePressed' = (IF prePressed = real \cap Normal THEN prePressed ELSE {})
      /\ IF pad = {}
           THEN /\ reported' = {} /\ since' = elapsed /\ UNCHANGED <<lastPad, doRepeat>>
         ELSE IF pad # lastPad
           THEN reported' = pad /\ since' = 0 /\ lastPad' = pad /\ doRepeat' = FALSE
         ELSE IF elapsed >= delay
           THEN /\ reported' = pad \cap Repeat /\ since' = 0 /\ doRepeat' = TRUE
                /\ UNCHANGED lastPad
         ELSE /\ reported' = pad \cap Toggles /\ since' = elapsed
              /\ UNCHANGED <<lastPad, doRepeat>>

\* Time is counted up to beyond the first repetition.
Capped(n) == IF n <= Long THEN n + 1 ELSE n

\* padctrlPeekBuffer or padctrlReadBuffer, once in a frame.
Peek(real) ==
  /\ Proc(real, Capped(since))
  /\ held' = real /\ before' = held
  /\ steady' = (IF real = held THEN Capped(steady) ELSE 0)
  /\ fresh' = (fresh /\ real \cap Normal = held \cap Normal) /\ blank' = (blank \/ real = {})

\* A dialog or a message ends in between.
ResetRepeat ==
  /\ Reset(held) /\ fresh' = TRUE /\ reported' = {} /\ steady' = 0
  /\ blank' = (held = {})
  /\ UNCHANGED <<held, before>>

Next == (\E real \in SUBSET Buttons : Peek(real)) \/ ResetRepeat

Spec == Init /\ [][Next]_vars

-----------------------------------------------------------------------------
\* While something is always on, as the card is: a button is reported when it goes down; when
\* nothing changes, a button without repeat is not reported, one with repeat is after
\* StartDelay, and after NextDelay again; and what was down at a reset is not reported while
\* that is all that is (__padctrl_proc).  After a frame with nothing on ("blank") a button that
\* is pressed again may be taken for one that is held.
Follows ==
  (\E real \in SUBSET Buttons : Peek(real)) /\ ~blank' =>
    LET down == held' \cap Normal IN
    /\ (down \ held) \subseteq reported'
    /\ held' = held /\ fresh => reported' \cap Normal = {}
    /\ held' = held /\ ~fresh =>
         /\ reported' \cap Normal \subseteq Repeat
         /\ steady' < StartDelay => reported' \cap Normal = {}
         /\ steady' = StartDelay => down \cap Repeat \subseteq reported'
         /\ steady' = Long => down \cap Repeat \subseteq reported'
RepeatsFollow == [][Follows]_vars

\* padctrl.h: a button without repeat is returned as not pressed all the while it is held.
HeldNotAgain == \A b \in (held \cap before \cap Normal) \ Repeat : b \notin reported
=============================================================================
