-------------------------------- MODULE Screen --------------------------------
(***************************************************************************)
(* The screen memory that the menu borrows from the game (mfMenuMain.c,    *)
(* mfmenu_alloc_buffers): up to three frames of it, backed up as far as    *)
(* there is memory.                                                        *)
(***************************************************************************)
EXTENDS Integers, FiniteSets

CONSTANTS
  VramEnd,  \* the size of the screen memory: 128 times 16 KB
  Frame,    \* the size of the menu's frame: 17 of them
  Frames,   \* the frames that games show
  Null

VARIABLES
  shown,    \* the game's frame: cur_fb_addr, and its size, of two bytes a pixel or of four
  fb,       \* FrameBuffer: the frames' addresses, and whether each is restored
  drawn,    \* history: the memory that has the menu's picture in it
  unsaved,  \* history: the memory that the menu took though there was no backup of it
  open      \* the menu is shown

vars == <<shown, fb, drawn, unsaved, open>>

Wide       == shown.size > Frame
Memory     == 0 .. VramEnd - 1
Of(a)      == IF a = Null THEN {} ELSE a .. a + Frame - 1
GameFrame  == shown.at .. shown.at + shown.size - 1
FrameNames == {"disp", "draw", "clear"}
NoFrames   == [addr |-> [f \in FrameNames |-> Null], restore |-> {}]

TypeOK ==
  /\ shown \in Frames
  /\ \A f \in FrameNames : fb.addr[f] \in Int \cup {Null}
  /\ fb.restore \subseteq FrameNames /\ drawn \subseteq Nat /\ unsaved \subseteq Nat /\ open \in BOOLEAN

Init == shown \in Frames /\ fb = NoFrames /\ drawn = {} /\ unsaved = {} /\ open = FALSE

\* Where the frames are to be: behind the one that is shown, or at the start of the memory.
\* Variant: the end of the third frame is not looked at.
PlacedShort(a) ==
  IF a + 2 * Frame >= VramEnd
  THEN [disp |-> a, draw |-> 0, clear |-> Frame]
  ELSE [disp |-> a, draw |-> a + Frame, clear |-> a + 2 * Frame]
Placed(a) ==
  IF a + 2 * Frame >= VramEnd
  THEN [disp |-> a, draw |-> 0, clear |-> Frame]
  ELSE IF a + 3 * Frame >= VramEnd
  THEN [disp |-> a, draw |-> a + Frame, clear |-> 0]
  ELSE [disp |-> a, draw |-> a + Frame, clear |-> a + 2 * Frame]

\* The frames that are backed up if there is memory for n of them.
BackedUp(n) ==
  LET first == IF Wide THEN "clear" ELSE "draw"
      next  == IF Wide THEN "draw" ELSE "clear"
  IN  CASE n = 0 -> {} [] n = 1 -> {first} [] n = 2 -> {first, next} [] OTHER -> FrameNames

\* Without a backup the third frame is not used; with none at all the second neither, unless
\* the game's frame is larger than the menu's.
Used(addr, n) ==
  [f \in FrameNames |->
    IF \/ f = "clear" /\ "clear" \notin BackedUp(n)
       \/ f = "draw" /\ n = 0 /\ ~Wide
    THEN Null ELSE addr[f]]

\* Behind a frame of four bytes a pixel that ends with the memory the second frame does not fit,
\* and at the start of the memory it is the last one that would get a backup.
Unsaved(n) == IF Wide /\ shown.at + shown.size = VramEnd /\ n < 2 THEN Of(0) ELSE {}

\* mfmenu_alloc_buffers with memory for n frames: n is 0 in low memory mode, too. The third
\* frame gets the game's picture at once.
Alloc(n) ==
  /\ ~open
  /\ fb' = [addr |-> Used(Placed(shown.at), n), restore |-> BackedUp(n)]
  /\ open' = TRUE
  /\ drawn' = drawn \cup Of(fb'.addr["clear"])
  /\ unsaved' = unsaved \cup Unsaved(n)
  /\ UNCHANGED shown

\* The menu draws.
Draw ==
  /\ open
  /\ drawn' = drawn \cup UNION {Of(fb.addr[f]) : f \in FrameNames}
  /\ UNCHANGED <<shown, fb, unsaved, open>>

\* mfmenu_free_buffers.  What was lost before is so in a backup, too.
Free ==
  /\ open
  /\ drawn' = drawn \ ((UNION {Of(fb.addr[f]) : f \in fb.restore}) \ unsaved)
  /\ fb' = NoFrames /\ open' = FALSE
  /\ UNCHANGED <<shown, unsaved>>

\* The game draws its frame anew, and shows another one.
Game ==
  /\ ~open
  /\ drawn' = drawn \ GameFrame /\ unsaved' = unsaved \ GameFrame
  /\ shown' \in Frames
  /\ UNCHANGED <<fb, open>>

Next == (\E n \in 0 .. 3 : Alloc(n)) \/ Draw \/ Free \/ Game

Spec == Init /\ [][Next]_vars

-----------------------------------------------------------------------------
\* The menu's frames are in the screen memory and apart from each other, and outside of the
\* frame that the game showed all is as it was when the menu is gone, whatever memory there was
\* (mfmenu_alloc_buffers); but for the start of the memory, when the game's frame is of four
\* bytes a pixel and ends with the memory, and there is memory for fewer than two backups.
ScreenBack ==
  /\ \A f, g \in FrameNames :
       /\ Of(fb.addr[f]) \subseteq Memory
       /\ f # g => Of(fb.addr[f]) \cap Of(fb.addr[g]) = {}
  /\ ~open => drawn \subseteq GameFrame \cup unsaved
=============================================================================
