------------------------------ MODULE Rapidfire ------------------------------
(***************************************************************************)
(* The rapid fire engine (src/mfrapidfire) as the rapid fire function      *)
(* (src/functions/rapidfire.c) uses it: its menu sets the modes, the       *)
(* controller's packets run it in an interrupt, and a game that reads the  *)
(* remote control's keys runs it as well, on buttons it took before.       *)
(***************************************************************************)
EXTENDS Integers, FiniteSets

CONSTANTS
  Buttons,
  Delays,    \* pairs of a press delay and a release delay, in ms
  Frames,    \* ms from one packet to the next
  MaxSince   \* bound on the time since lastTick, longer than any delay

VARIABLES
  pref,      \* params->pref of each button; flags without their bits
  since,     \* the time since params->lastTick
  raw,       \* st_raw_pad: the buttons of the last packet
  game,      \* the game thread: "idle", or the buttons it took in mf_get_current_ctrl
  odd,       \* history: buttons pressed an odd number of times since they are to hold
  unsure,    \* history: buttons that were down when they were set, or that changed
             \* between the two halves of the game's call
  due,       \* history: for each button, when its phase should change next
  inStep     \* history: the rapid buttons were set with the same time left to wait

vars == <<pref, since, raw, game, odd, unsure, due, inStep>>

Hold  == {b \in Buttons : pref[b].mode = "hold"}
Modes == {"normal", "rapid", "autorapid", "hold", "autohold"}
Rapid == {b \in Buttons : pref[b].mode \in {"rapid", "autorapid"}}
Unset == [mode |-> "normal", press |-> 0, release |-> 0, next |-> 0,
          pressed |-> FALSE, hold |-> FALSE, real |-> FALSE]
Idle  == [taken |-> FALSE, pad |-> {}]

TypeOK ==
  /\ \A b \in Buttons : pref[b].mode \in Modes /\ pref[b].next \in 0 .. MaxSince
  /\ since \in 0 .. MaxSince /\ raw \subseteq Buttons
  /\ game.pad \subseteq Buttons /\ odd \subseteq Buttons

\* mfRapidfireBind: lastTick is 0, long ago.
Init ==
  /\ pref = [b \in Buttons |-> Unset] /\ since = MaxSince
  /\ raw = {} /\ game = Idle
  /\ odd = {} /\ unsure = {} /\ due = [b \in Buttons |-> 0] /\ inStep = TRUE

-----------------------------------------------------------------------------
(* mfRapidfireExec, of one button: its new preferences, and whether it is pressed. *)

\* A button that is held counts once: the press before toggles nothing any more.
\* Variant: it counts in every packet.
HeldEachTime(p, down) ==
  [p EXCEPT !.hold = IF down THEN ~p.hold ELSE p.hold, !.real = down]
Held(p, down) ==
  [p EXCEPT !.hold = IF down /\ ~p.real THEN ~p.hold ELSE p.hold, !.real = down]

\* The phase changes when the wait is over, and the next one is as much shorter as this
\* one was too long.
\* Variant: the next one has its whole length.
TurnedWhole(p, delay) ==
  [p EXCEPT !.pressed = ~p.pressed, !.next = IF p.pressed THEN p.release ELSE p.press]
Turned(p, delay) ==
  LET whole    == IF p.pressed THEN p.release ELSE p.press
      overtime == delay - p.next
  IN  [p EXCEPT !.pressed = ~p.pressed,
                !.next = IF whole > overtime THEN whole - overtime ELSE 0]

Executed(p, update, delay, down) ==
  CASE p.mode = "hold" -> Held(p, down)
    [] p.mode \in {"rapid", "autorapid"} /\ update /\ delay > p.next -> Turned(p, delay)
    [] OTHER -> p

PressedBy(p, down) ==
  CASE p.mode = "normal"    -> down
    [] p.mode = "autohold"  -> ~down
    [] p.mode = "hold"      -> p.hold
    [] p.mode = "autorapid" -> ~down /\ p.pressed
    [] p.mode = "rapid"     -> down /\ p.pressed

\* The whole of it. "delay" is computed once; whoever turns sets lastTick.
Exec(update, delay, pad) ==
  /\ pref' = [b \in Buttons |-> Executed(pref[b], update, delay, b \in pad)]
  /\ since' = IF update /\ \E b \in Rapid : delay > pref[b].next THEN 0 ELSE delay

\* The ideal: a phase begins when the one before was due to end, or now if it is over
\* by then.
Later(b, delay) ==
  LET left  == due[b] - (delay - since)
      whole == left + (IF pref[b].pressed THEN pref[b].release ELSE pref[b].press)
  IN  IF b \notin Rapid THEN 0 ELSE IF left >= 0 THEN left ELSE IF whole > 0 THEN whole ELSE 0

-----------------------------------------------------------------------------
\* mf_syscon_handler_recieve: a packet with the buttons of this moment.
Packet ==
  /\ \E ms \in Frames, pad \in SUBSET Buttons :
       LET delay == IF since + ms < MaxSince THEN since + ms ELSE MaxSince IN
       /\ Exec(TRUE, delay, pad)
       /\ due' = [b \in Buttons |-> Later(b, delay)]
       /\ odd' = {b \in Buttons : (b \in odd) # (pref[b].mode = "hold" /\ b \in pad \ raw)}
       /\ raw' = pad
  /\ unsure' = unsure \cup
       (IF game.taken THEN Hold \cap ((raw' \ game.pad) \cup (game.pad \ raw')) ELSE {})
  /\ UNCHANGED <<game, inStep>>

\* mfHprmPeekCurrentKey and mfHprmPeekLatch: the game takes the buttons, and runs the
\* engine on them, with MF_UPDATE or with MF_KEEP.
TakeButtons ==
  /\ ~game.taken
  /\ game' = [taken |-> TRUE, pad |-> raw]
  /\ UNCHANGED <<pref, since, raw, odd, unsure, due, inStep>>
PeekKey(update) ==
  /\ game.taken
  /\ Exec(update, since, game.pad)
  /\ due' = IF update THEN [b \in Buttons |-> Later(b, since)] ELSE due
  /\ game' = Idle
  /\ UNCHANGED <<raw, odd, unsure, inStep>>

\* rapidfire_apply, when the menu is left: modes and delays that the user chose, or that
\* a file had. The time that is left to wait stays. A button that is down is new to it.
Apply ==
  /\ \E modes \in [Buttons -> Modes], d \in Delays :
       pref' = [b \in Buttons |->
         LET timed == modes[b] \in {"rapid", "autorapid"} IN
         [Unset EXCEPT !.mode = modes[b], !.next = pref[b].next,
            !.press = IF timed THEN d[1] ELSE 0, !.release = IF timed THEN d[2] ELSE 0]]
  /\ odd' = {} /\ unsure' = Hold' \cap (raw \cup game.pad)
  /\ due' = [b \in Buttons |-> IF b \in Rapid' THEN pref'[b].next - since ELSE 0]
  /\ inStep' = \A b, c \in Rapid' : pref'[b].next = pref'[c].next
  /\ UNCHANGED <<since, raw, game>>

Next == Packet \/ TakeButtons \/ (\E update \in BOOLEAN : PeekKey(update)) \/ Apply

Spec == Init /\ [][Next]_vars

-----------------------------------------------------------------------------
\* A button that is to hold is shown as pressed after every odd press of it, however the
\* game's calls come between the packets, unless it was down when it was set, or changed
\* between the two halves of a call of the game.
HoldFollowed ==
  Packet => \A b \in Buttons \ unsure' :
    pref[b].mode = "hold" => (PressedBy(pref[b], b \in raw)' <=> b \in odd')
HoldFollowsPresses == [][HoldFollowed]_vars

\* Phases follow the ideal schedule as long as the rapid buttons were set with the same
\* time left to wait: time that a frame is too long is not lost.
KeepsTime == inStep => \A b \in Rapid : due[b] = pref[b].next - since
=============================================================================
