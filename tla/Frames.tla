-------------------------------- MODULE Frames --------------------------------
(***************************************************************************)
(* The frames that graphics go to (src/include/graphic/pb): one set of     *)
(* parameters, set up anew by the notifier for each frame of the game that *)
(* it writes a message into, and by the menu for its own frames.           *)
(***************************************************************************)
EXTENDS Naturals

CONSTANTS
  GameFrames,   \* the frames that the game shows: records of addr, format and width
  MenuScreen,   \* the menu's frame: its format and width
  Null

VARIABLES
  pb,      \* __pb_internal_params
  panel,   \* the frame that is shown instead of the game's, if any
  game,    \* the frame of the game
  seen,    \* the frame that the notifier has asked for
  user,    \* who has set up the parameters and is drawing
  put,     \* history: the last drawing: the frame, by whom, and what was asked for and shown then
  fb       \* the menu's second frame and the third, which holds the background

vars == <<pb, panel, game, seen, user, put, fb>>

Options == {"NO_CACHE", "BLEND", "DOUBLE_BUFFER", "STEAL_DISPLAY", "NO_DRAW"}
NoFrame == [format |-> 0, addr |-> Null, width |-> 0, cached |-> TRUE,
            pixelSize |-> 0, lineSize |-> 0, colorConv |-> Null]

TypeOK ==
  /\ pb.display \in {0, 1} /\ pb.draw = 1 - pb.display /\ pb.options \subseteq Options
  /\ game \in GameFrames /\ seen \in GameFrames
  /\ user \in {"none", "message", "menu"}

-----------------------------------------------------------------------------
(* The library. *)

PbInit == [frame |-> [i \in {0, 1} |-> NoFrame], display |-> 0, draw |-> 1, options |-> {}]

Enable(p, opt)  == [p EXCEPT !.options = @ \cup opt]
Disable(p, opt) == [p EXCEPT !.options = @ \ opt]
IsEnabled(p, opt) == opt \in p.options

SetDisplayBuffer(p, frame, addr) ==
  [p EXCEPT !.frame[p.display].format = frame.format, !.frame[p.display].addr = addr,
            !.frame[p.display].width = frame.width]
SetDrawBuffer(p, frame, addr) ==
  [p EXCEPT !.frame[p.draw].format = frame.format, !.frame[p.draw].addr = addr,
            !.frame[p.draw].width = frame.width]

CurrentDisplay(p) == p.frame[p.display].addr
CurrentDraw(p)    == p.frame[p.draw].addr

PixelDataSize(format) == IF format = "8888" THEN 4 ELSE 2

\* pb_get_color_converter and pb_get_color_blender.
Formats == {"8888", "4444", "5551", "5650"}
Converter(format) == IF format \in Formats THEN <<"as it is", format>> ELSE Null
Blender(format)   == IF format \in Formats THEN <<"blend", format>> ELSE Null

\* pb_set_framebuf_conf.
FramebufConf(f, opt) ==
  [f EXCEPT !.pixelSize = PixelDataSize(f.format),
            !.lineSize  = f.width * PixelDataSize(f.format),
            !.cached    = "NO_CACHE" \notin opt,
            !.colorConv = IF "BLEND" \in opt THEN Blender(f.format) ELSE Converter(f.format)]

\* pbApply: without double buffering what is drawn into is what is shown.
\* Variant: the frame that is drawn into is left as it is.
ApplyToDisplay(p) ==
  IF CurrentDisplay(p) = Null THEN p
  ELSE [p EXCEPT !.frame[p.display] = FramebufConf(@, p.options)]
Apply(p) ==
  IF CurrentDisplay(p) = Null THEN p
  ELSE LET shown == FramebufConf(p.frame[p.display], p.options)
       IN  [p EXCEPT !.frame[p.display] = shown,
                     !.frame[p.draw] =
                       IF IsEnabled(p, "DOUBLE_BUFFER") THEN FramebufConf(@, p.options) ELSE shown]

Swapped(p) ==
  IF CurrentDraw(p) = CurrentDisplay(p) THEN p
  ELSE [p EXCEPT !.display = p.draw, !.draw = p.display]

\* pbReturnDisplay: the frame of the game is shown again.
Returned(p, shown) == IF IsEnabled(p, "STEAL_DISPLAY") THEN Null ELSE shown

\* A drawing by the functions of the library, unless they are told not to.
Drawing(p) ==
  IF IsEnabled(p, "NO_DRAW") THEN put
  ELSE [frame |-> p.frame[p.draw], by |-> user, asked |-> seen, shown |-> panel,
        two |-> fb.draw # Null]

-----------------------------------------------------------------------------
(* Who uses it. *)

Init ==
  /\ pb = PbInit /\ panel = Null /\ user = "none" /\ put = Null
  /\ game \in GameFrames /\ seen = game
  /\ fb = [draw |-> Null, clear |-> Null]

\* The game shows another frame: not in the menu, where its threads are suspended.
GameShows ==
  /\ user # "menu"
  /\ game' \in GameFrames
  /\ UNCHANGED <<pb, panel, seen, user, put, fb>>

\* The notifier asks for the game's frame and sets up the library for it. It does not while
\* the menu is open: it is suspended then (Ovmsg).
MessageBegin ==
  /\ user = "none"
  /\ user' = "message" /\ seen' = game
  /\ pb' = Apply(SetDisplayBuffer(Enable(PbInit, {"NO_CACHE", "BLEND"}), game, game.addr))
  /\ UNCHANGED <<panel, game, put, fb>>

\* The box and the text of the message.
MessageDraw ==
  /\ user = "message"
  /\ put' = Drawing(pb)
  /\ user' = "none"
  /\ UNCHANGED <<pb, panel, game, seen, fb>>

\* The menu's frames: a second one and a third one (Screen), by addresses other than the game's.
MenuFrames == {[draw |-> d, clear |-> c] : d \in {"behind", Null}, c \in {"third", Null}}

\* mfmenu_alloc_buffers draws the frame's border into the third frame, if there is one.
WithClear(p, frames) ==
  IF frames.clear = Null THEN p ELSE Apply(SetDisplayBuffer(p, MenuScreen, frames.clear))

\* mfmenu_init_graphics up to pbApply.
InitGraphics(frames) ==
  LET begun == WithClear(Enable(PbInit, {"NO_CACHE", "BLEND", "STEAL_DISPLAY"}), frames)
      two   == IF frames.draw = Null THEN begun
               ELSE Enable(SetDrawBuffer(begun, MenuScreen, frames.draw), {"DOUBLE_BUFFER"})
  IN  Apply(SetDisplayBuffer(two, MenuScreen, game.addr))

\* The menu is opened: there is no third frame without a second one.
MenuBegin ==
  /\ user = "none"
  /\ \E frames \in MenuFrames :
       /\ frames.draw = Null => frames.clear = Null
       /\ fb' = frames /\ pb' = InitGraphics(frames)
  /\ panel' = CurrentDisplay(pb')
  /\ user' = "menu"
  /\ UNCHANGED <<game, seen, put>>

\* The menu does not come to its frames: there is no pool for it, the game shows none, or
\* pbSyncDisplay fails. What has been set up is left, and the display returned.
MenuFails ==
  /\ user = "none"
  /\ \/ pb' = pb
     \/ pb' = Enable(PbInit, {"NO_CACHE", "BLEND", "STEAL_DISPLAY"})
     \/ \E frames \in MenuFrames : pb' = InitGraphics(frames)
  /\ panel' = Returned(pb', panel)
  /\ UNCHANGED <<game, seen, user, put, fb>>

\* A frame of the menu's loop: with a single frame it is drawn only when a button is pressed
\* or something has changed. Then pbSwapBuffers, with pbSyncDisplay.
MenuFrame(update) ==
  /\ user = "menu"
  /\ LET single == fb.draw = Null
         p == IF ~single THEN pb
              ELSE IF update THEN Disable(pb, {"NO_DRAW"}) ELSE Enable(pb, {"NO_DRAW"})
     IN  /\ put' = Drawing(p)
         /\ pb' = Swapped(p)
  /\ panel' = CurrentDisplay(pb')
  /\ UNCHANGED <<game, seen, user, fb>>

\* mfmenu_free_buffers.
MenuEnd ==
  /\ user = "menu"
  /\ panel' = Returned(pb, panel)
  /\ user' = "none" /\ fb' = [draw |-> Null, clear |-> Null]
  /\ UNCHANGED <<pb, game, seen, put>>

Next ==
  \/ GameShows \/ MessageBegin \/ MessageDraw
  \/ MenuBegin \/ MenuFails \/ (\E update \in BOOLEAN : MenuFrame(update)) \/ MenuEnd

Spec == Init /\ [][Next]_vars

-----------------------------------------------------------------------------
\* What is drawn is drawn as pixels of the frame it goes to, past the cache and blended,
\* whoever has used the library before: a message into the frame that was asked for, in the
\* game's format, and the menu into its own frames, in its format.
DrawnInFormat ==
  put # Null =>
    LET f     == put.frame
        meant == IF put.by = "menu" THEN MenuScreen ELSE put.asked
    IN  /\ f.colorConv = <<"blend", meant.format>> /\ ~f.cached
        /\ f.lineSize = meant.width * PixelDataSize(meant.format)
        /\ put.by = "message" => f.addr = put.asked.addr /\ put.shown = Null

\* With two frames the menu draws into the one that is not shown, and the two are shown in turn;
\* with one it draws into what is shown. The game's frame is shown again when it is closed.
DrawnUnseen ==
  /\ put # Null /\ put.by = "menu" => put.two = (put.frame.addr # put.shown)
  /\ panel = IF user = "menu" THEN CurrentDisplay(pb) ELSE Null
=============================================================================
