-------------------------------- MODULE Tape --------------------------------
(***************************************************************************)
(* Recording and running a macro, frame by frame: macro_record makes       *)
(* commands of the buttons, macro_record_stop cuts off the buttons that    *)
(* opened the menu, and macro_trace makes buttons of the commands.  Time   *)
(* is counted in frames.  The analog stick is not recorded, which is the   *)
(* default, and the game does not read the remote control's keys, which    *)
(* would run the macro a second time in a frame.                           *)
(***************************************************************************)
EXTENDS Integers, Sequences, SequencesExt, FiniteSetsExt

CONSTANTS
  HeldSets,     \* sets of buttons that the user holds down, the empty set among them
  MenuButtons,  \* mfGetMenuButtons
  Loops,        \* loopNum, 0 without end
  MaxFrames     \* bound on the frames of a recording

VARIABLES
  macro,        \* the commands, the first of them 1
  acting,       \* work.actionType
  cmd,          \* temp->cmd
  lastButtons,  \* temp->common.lastButtons
  rtc,          \* frames from temp->common.rtc to the last frame
  left,         \* frames from the last frame to temp->trace.rtc, or Unset
  rest,         \* temp->trace.loopRest
  out,          \* what the last frame of a run has added to the buttons
  seen,         \* history: the buttons of each frame that is recorded, from the first on
  twisted,      \* history: buttons changed at once while some of the menu buttons were down
  tape,         \* history: the frames that the recording should leave
  sure,         \* history: and that it can be expected to
  frame         \* history: the frame of the round, Unset if this run is not to be looked at

tapeVars == <<macro, acting, cmd, lastButtons, rtc, left, rest, out,
              seen, twisted, tape, sure, frame>>

Unset   == -1
Far     == 2 * MaxFrames + 2
Actions == {"DELAY", "PRESS", "RELEASE", "CHANGE"}
Delay(n) == [action |-> "DELAY", time |-> n, buttons |-> {}]
OfButtons(action, bs) == [action |-> action, time |-> 0, buttons |-> bs]

TapeTypeOK ==
  /\ \A i \in DOMAIN macro : macro[i].action \in Actions
  /\ acting \in {"none", "record", "trace"} /\ cmd \in 0 .. Len(macro)
  /\ acting # "none" => cmd > 0
  /\ lastButtons \in SUBSET UNION HeldSets /\ rtc \in 0 .. Far
  /\ left \in Unset .. Far /\ rest \in 0 .. Max(Loops)

\* temp is memory that nothing has been written to yet.
TapeInit ==
  /\ macro = <<>> /\ acting = "none" /\ cmd = 0 /\ lastButtons = {} /\ rtc = 0
  /\ left \in {Unset, 0, Far} /\ rest = 0 /\ out = {}
  /\ seen = <<>> /\ twisted = FALSE /\ tape = <<>> /\ sure = TRUE /\ frame = 0

-----------------------------------------------------------------------------
(* Recording. *)

\* macro_menu_record_start, and macro_menu_append_start, which begins as if nothing was down.
\* An append to a macro of which nothing is expected is left out.
RecordStart ==
  /\ acting = "none" /\ acting' = "record"
  /\ macro' = <<Delay(0)>> /\ cmd' = 1 /\ lastButtons' = {} /\ rtc' = 0
  /\ seen' = <<>> /\ twisted' = FALSE /\ tape' = <<>> /\ sure' = TRUE /\ frame' = 0 /\ out' = {}
  /\ UNCHANGED <<left, rest>>
AppendStart ==
  /\ acting = "none" /\ macro # <<>> /\ sure /\ acting' = "record"
  /\ macro' = Append(macro, Delay(0)) /\ cmd' = Len(macro') /\ lastButtons' = {} /\ rtc' = 0
  /\ seen' = tape /\ twisted' = FALSE /\ sure' = (tape # <<>> /\ Last(tape) = {})
  /\ frame' = 0 /\ out' = {}
  /\ UNCHANGED <<left, rest, tape>>

\* The command for a change of buttons.
\* Variant: buttons that are pressed as others are released are taken for a press.
ChangedToPress(from, to) ==
  IF to \ from # {} THEN OfButtons("PRESS", to \ from) ELSE OfButtons("RELEASE", from \ to)
Changed(from, to) ==
  IF to \ from # {} /\ from \ to # {} THEN OfButtons("CHANGE", to)
  ELSE IF to \ from # {} THEN OfButtons("PRESS", to \ from)
  ELSE OfButtons("RELEASE", from \ to)

\* The frames that an append begins with: it counts a pause from where the menu was.
Pause(pad) ==
  IF seen = tape /\ tape # <<>> /\ pad = {} /\ macro[cmd - 1].action = "DELAY" THEN <<{}>> ELSE <<>>

\* The menu is open: its buttons are down, or have been a frame ago.
IsOpened == \E i \in {Len(seen) - 1, Len(seen)} \cap DOMAIN seen : MenuButtons \subseteq seen[i]

\* macro_record. A delay of 0 is used for the change; the first command is no delay.
Record(pad) ==
  /\ acting = "record" /\ (Len(seen) < MaxFrames \/ (MenuButtons \subseteq pad /\ ~IsOpened))
  /\ IF pad = lastButtons
     THEN /\ macro' = IF cmd > 1 THEN [macro EXCEPT ![cmd] = Delay(rtc + 1)] ELSE macro
          /\ rtc' = IF cmd > 1 THEN rtc + 1 ELSE 0
          /\ UNCHANGED <<cmd, lastButtons>>
     ELSE /\ macro' = (IF macro[cmd] = Delay(0) THEN Front(macro)
                       ELSE [macro EXCEPT ![cmd] = Delay(rtc + 1)])
                      \o <<Changed(lastButtons, pad), Delay(0)>>
          /\ cmd' = Len(macro') /\ lastButtons' = pad /\ rtc' = 0
  /\ seen' = IF cmd = 1 /\ pad = {} THEN seen ELSE seen \o Pause(pad) \o <<pad>>
  /\ twisted' = /\ pad \cap MenuButtons # {}
                /\ \/ twisted
                   \/ /\ pad \ lastButtons # {} /\ lastButtons \ pad # {}
                      /\ lastButtons \cap MenuButtons # {}
  /\ UNCHANGED <<acting, left, rest, out, tape, sure, frame>>

\* macro_record_stop, backwards from the end: the menu buttons that a command leaves to be
\* found, all of them behind the end.
ToFind(i) ==
  FoldRight(LAMBDA c, wanted : LET bs == c.buttons \cap MenuButtons
                               IN  (wanted \ bs) \cup (bs \ wanted),
            SubSeq(macro, i, Len(macro)), MenuButtons)
\* What is before the last command that leaves none; nothing is cut if there is none.
Cut == Max({i \in DOMAIN macro : ToFind(i) = {}} \cup {0})

RecordStop ==
  /\ acting = "record" /\ IsOpened
  /\ acting' = "none" /\ cmd' = 0
  /\ macro' = IF Cut = 0 THEN macro ELSE SubSeq(macro, 1, Cut - 1)
  /\ sure' = (sure /\ ~twisted /\ MenuButtons \subseteq lastButtons)
  /\ tape' = IF ~sure' THEN <<>>
             ELSE SubSeq(seen, 1, Max({i \in DOMAIN seen : seen[i] \cap MenuButtons = {}} \cup {0}))
  /\ seen' = <<>> /\ twisted' = FALSE
  /\ UNCHANGED <<lastButtons, rtc, left, rest, out, frame>>

-----------------------------------------------------------------------------
(* Running. *)

\* macro_trace_prepare, by the menu or a hotkey.
Play ==
  /\ acting = "none" /\ macro # <<>> /\ acting' = "trace"
  /\ cmd' = 1 /\ lastButtons' = {} /\ rtc' = 0 /\ rest' \in Loops /\ out' = {}
  /\ frame' = IF sure /\ left = Unset THEN 0 ELSE Unset
  /\ UNCHANGED <<macro, left, seen, twisted, tape, sure>>

\* macro_trace_stop.
Stopped == acting' = "none" /\ cmd' = 0 /\ left' = Unset
PlayStop ==
  /\ acting = "trace" /\ Stopped /\ frame' = Unset
  /\ UNCHANGED <<macro, lastButtons, rtc, rest, out, seen, twisted, tape, sure>>

\* Commands without data are passed over.
Behind  == Len(macro) + 1
Skip(i) == Min({j \in i .. Len(macro) : macro[j].time > 0 \/ macro[j].buttons # {}} \cup {Behind})

Obeyed(c) ==
  CASE c.action = "PRESS"   -> lastButtons \cup c.buttons
    [] c.action = "RELEASE" -> (lastButtons \ c.buttons) \cup (c.buttons \ lastButtons)
    [] c.action = "CHANGE"  -> c.buttons

\* All commands are done: the next round begins with the next frame.
RoundOver(until) ==
  IF rest = 1 THEN Stopped /\ UNCHANGED <<rest, lastButtons>>
  ELSE /\ rest' = (IF rest = 0 THEN 0 ELSE rest - 1) /\ lastButtons' = {} /\ cmd' = 1
       /\ left' = until /\ UNCHANGED acting

\* macro_trace: a delay that is over is passed, up to one command or a delay that is not.
Trace ==
  LET i     == Skip(cmd)
      till  == IF left = Unset THEN macro[i].time - (rtc + 1) ELSE left - 1
      over  == i < Behind /\ macro[i].action = "DELAY" /\ till <= 0
      j     == IF over THEN Skip(i + 1) ELSE i
      until == IF over THEN Unset ELSE left
  IN
  /\ acting = "trace" /\ rtc' = 0
  /\ CASE j = Behind -> out' = {} /\ RoundOver(until)
       [] j < Behind /\ macro[j].action = "DELAY" ->
            /\ cmd' = j /\ out' = lastButtons /\ left' = IF over THEN macro[j].time ELSE till
            /\ UNCHANGED <<acting, rest, lastButtons>>
       [] OTHER ->
            /\ out' = Obeyed(macro[j])
            /\ IF j = Len(macro) THEN RoundOver(until)
               ELSE /\ cmd' = j + 1 /\ lastButtons' = out' /\ left' = until
                    /\ UNCHANGED <<acting, rest>>
  /\ frame' = IF frame = Unset THEN Unset ELSE IF cmd = 1 THEN 1 ELSE frame + 1
  /\ UNCHANGED <<macro, seen, twisted, tape, sure>>

TapeNext ==
  \/ RecordStart \/ AppendStart \/ \E pad \in HeldSets : Record(pad)
  \/ RecordStop \/ Play \/ PlayStop \/ Trace

TapeSpec == TapeInit /\ [][TapeNext]_tapeVars

\* A round of a macro adds to each frame the buttons that were down in that frame of the
\* recording, up to where the menu was opened, and no others, and ends no sooner.  Not so, and
\* left out: menu buttons that change places in one frame, which recorded changes hide from the
\* search for them; an append to a macro that ends with buttons down, whose release toggles
\* them; and the first run, which may find a time to wait for that nobody has set.
PlaysAsRecorded ==
  frame > 0 => /\ out = IF frame <= Len(tape) THEN tape[frame] ELSE {}
               /\ acting = "none" \/ cmd = 1 => frame >= Len(tape)
=============================================================================
