------------------------------- MODULE MCUnits -------------------------------
(***************************************************************************)
(* The parts that work on their own, side by side: a behaviour is one of   *)
(* them, "unit", while the others stay as they begin.                      *)
(***************************************************************************)
EXTENDS Dmem, Parts, MenuParts, Pad, Tape

CONSTANT Units   \* the parts that a run looks at

VARIABLES
  disk, fh, mark, from, got, written,
  page, cur, action, slotKind, hasMacro,
  slot, macroFile, known,
  ini, power, world, gameId, own, settings, alt, found, late, ours,
  engine, modes, delay, open, stick, lastSaved,
  figure, marked,
  string, call

filesVars   == <<disk, fh, mark, from, got, written>>
cursorVars  == <<page, cur, action, slotKind, hasMacro>>
macroVars   == <<slot, macroFile, known>>
settingsVars == <<ini, power, world, gameId, own, settings, alt, found, late, ours>>
rfFileVars == <<engine, modes, delay, open, stick, lastSaved>>
pixelsVars == <<figure, marked>>
stringVars == <<string, call>>

Files == INSTANCE Files WITH
  CacheSize <- 2, LineSize <- 3, CR <- "cr", LF <- "lf", Text <- {"x", "y"}, MaxFile <- 5
MenuCursor == INSTANCE MenuCursor WITH chosen <- slotKind, filled <- hasMacro
\* A line of an ini file.
Line(key, text) == [kind |-> "entry", key |-> key, value |-> text]
DelayMs(ms) == [action |-> "DELAY", data |-> <<ms>>, sub |-> <<>>]
Profiles == INSTANCE Profiles WITH
  Macros <- { <<DelayMs(0)>>,
              <<[action |-> "BUTTONS_CHANGE", data |-> <<1>>, sub |-> <<>>], DelayMs(20)>>,
              <<[action |-> "BUTTONS_PRESS", data |-> <<1>>, sub |-> <<>>], DelayMs(0),
                [action |-> "BUTTONS_RELEASE", data |-> <<1>>, sub |-> <<>>]>>,
              <<[action |-> "ANALOG_MOVE", data |-> <<0, 255>>, sub |-> <<>>],
                [action |-> "RAPIDFIRE_START", data |-> <<1>>, sub |-> <<30, 40>>],
                [action |-> "RAPIDFIRE_STOP", data |-> <<1>>, sub |-> <<>>]>> },
  MacroNames <- {<<>>, <<"c">>, <<" ", "c">>, <<"c", ";", "c">>}, Hotkeys <- {0, 1}, MaxSaved <- 5,
  None <- Null, Buttons <- {"a", "b"}, Used <- {"Normal", "Auto-Rapid"}, Delays <- {0, 17},
  UserLines <- { <<[kind |-> "signature", good |-> TRUE], [kind |-> "heading", name |-> <<"Mode">>],
                   Line("a", "Rapid"), Line("b", "x"), Line("a", "Auto-Hold")>> }

\* Three parts of macrofire.ini, each without or with one entry, and a part with two.
Part(name, texts) == { <<[kind |-> "heading", name |-> name]>> \o entries :
                       entries \in {<<>>} \cup {<<t>> : t \in texts} }
PartsOf(texts) == UNION {Part(name, texts) : name \in {<<"d">>, <<"GAME">>, <<"Default">>}}
Whole(first, second, third) ==
  {x \o y \o z : x \in PartsOf(first), y \in PartsOf(second), z \in PartsOf(third)}
UserFiles ==
  LET Start(t) == Line("Startup", <<t>>)
      Opens(t) == Line("MenuButtons", t)
  IN  Whole({Start("On"), Start("x")}, {Start("Off"), Start("x")}, {Start("On")})
        \cup Whole({Opens(<<"NOTE", "VolUp">>), Opens(<<>>)}, {Opens(<<"NOTE", "x">>), Opens(<<>>)},
                   {Opens(<<"VolUp">>)})
        \cup Whole({Line("AnalogStickDeadzone", <<"x">>)}, {Line("AnalogStickDeadzone", <<"7">>)}, {})
        \cup Whole({Line("Macro1", <<"a">>)}, {Line("Macro2", <<"b">>)}, {Line("Macro2", <<"c">>)})
        \cup { <<Start("On"), [kind |-> "heading", name |-> <<"Default">>], Start("On"),
               [kind |-> "other"], Start("Off")>>,
             <<[kind |-> "heading", name |-> <<"AlternativeButtons">>],
               Line("Up", <<"VolUp">>), Line("Down", <<"VolDown">>)>> }
Settings == INSTANCE Settings WITH
  None <- Null, ButtonTable <- <<"NOTE", "VolUp", "VolDown">>, AltTable <- <<"Up", "Down">>,
  Numerals <- {"7", "40", "100", "127"}, MacroKeys <- <<"Macro1", "Macro2">>,
  DiscIds <- {<<"d">>}, HashIds <- {<<"h">>}
AllButtons == <<"SELECT", "START", "UP", "RIGHT", "DOWN", "LEFT", "AUP", "ARIGHT", "ADOWN",
                "ALEFT", "L", "R", "TRIANGLE", "CIRCLE", "CROSS", "SQUARE", "HOME", "NOTE",
                "SCREEN", "VOLUP", "VOLDOWN">>
WordsArriving == {{}} \cup {(0 .. 31) \ off : off \in {{}} \cup {{i} : i \in 0 .. 31}}
StickAt(origin, dead, percent, on) ==
  [originX |-> origin, originY |-> 127, deadzone |-> dead, sensitivity |-> percent,
   movement |-> on]
Move(real, goal) == [real |-> real, remap |-> goal]
Moves == {Move({"a"}, {"b"}), Move({"b"}, {"a"}), Move({"a"}, {"AU"}), Move({"AU"}, {"a"}),
          Move({"a", "b"}, {"r"}), Move({"b"}, {"AU", "AR"}), Move({"AD"}, {"AU"}),
          Move({"r"}, {}), Move({"r"}, {"AD", "AL"})}
TriedSettings ==
  { <<StickAt(127, 40, 100, TRUE), l>> :
      l \in {<<>>} \cup {<<m>> : m \in Moves} \cup {<<m, n>> : m, n \in Moves} }
    \cup { <<StickAt(o, d, s, TRUE), <<>> >> :
            o \in {0, 100, 150, 255}, d \in {0, 40}, s \in {10, 50, 400} }
    \cup { <<StickAt(127, 40, 100, FALSE), <<>> >> }
NumberOf(most, least, by) == [max |-> most, min |-> least, width |-> by]
FrameOf(at, pixels) == [addr |-> at, format |-> pixels, width |-> 512]
UpTo(n, kinds) == UNION {[1 .. i -> kinds] : i \in 0 .. n}
Pixels == INSTANCE Pixels WITH
  Places <- {0, 1, 3, 6}, Radii <- 0 .. 8 \cup {20}, Sjis <- TRUE, PrintfSize <- 3,
  Texts <- UpTo(3, {"ascii", "kana", "wide", "newline"}), Levels <- {0, 7, 128, 254, 255},
  Rows <- [r \in 1 .. 8 \cup 16 .. 84 |-> IF r = 7 THEN 93 ELSE IF r = 84 THEN 6 ELSE 94],
  put <- marked
Strings == INSTANCE Strings WITH
  Texts <- UpTo(2, {"a", " "}), Size <- 5, Blanks <- {" "}, Sections <- UpTo(3, {"a", "b"}),
  Patterns <- {<<"a">>, <<"a", "b">>, <<"a", "*">>, <<"b", "a", "*">>},
  text <- string
Library(name, functions) == [name |-> name, functions |-> functions]
Hooked(module, library, function) == [module |-> module, library |-> library, function |-> function]

\* What the run gives to the constants of Parts that a configuration cannot spell out.
GamesFrames ==
  { f \in [at : {0, 17, 34, 51, 68, 85, 88, 94, 102, 111}, size : {17, 34}] :
      f.at + f.size <= 128 }
HeldDown == {{}, {"a"}, {"l"}, {"l", "r"}, {"a", "l"}, {"a", "l", "r"}}
PressAndRelease == {<<2, 1>>}
LoadedModules ==
  [hprm |-> <<Library("sceHprm", <<"peek", "latch">>), Library("driver", <<"own">>)>>]
SystemCalls == <<"other", "peek">>
HooksTable ==
  <<Hooked("hprm", "sceHprm", "peek"), Hooked("hprm", "sceHprm", "latch"),
    Hooked("hprm", "none", "own"), Hooked("none", "sceHprm", "latch")>>
LengthsOfNames ==
  [n \in {"", "ms0:", "d", "dd", "f", "f:", "long"} |->
     CASE n = "" -> 0 [] n = "ms0:" -> 4 [] n \in {"d", "f"} -> 1
       [] n \in {"dd", "f:"} -> 2 [] OTHER -> 5]
ListsOfButtons == {AllButtons, AllButtons \o <<"RPLAY", "RNEXT", "RPREV", "RVOLUP", "RVOLDOWN">>}
TablesOfKeys ==
  <<[count |-> 25, width |-> 13], [count |-> 25, width |-> 13], [count |-> 9, width |-> 0],
    [count |-> 31, width |-> 13], [count |-> 23, width |-> 13]>>
NumbersEdited ==
  {NumberOf(11, 0, 0), NumberOf(15, 0, 0), NumberOf(25, 0, 0), NumberOf(62, 0, 0),
   NumberOf(300, 0, 0), NumberOf(10, 2, 4)}
TwoFrames == {FrameOf("a", "8888"), FrameOf("b", "5551")}
FrameOfMenu == [format |-> "5650", width |-> 512]

\* The other units stay as they are.
Rest(u) ==
  /\ UNCHANGED unit
  /\ u # "dmem"    => UNCHANGED vars
  /\ u # "files"   => UNCHANGED filesVars
  /\ u # "remap"   => UNCHANGED remapVars
  /\ u # "dirh"    => UNCHANGED dirhVars
  /\ u # "dialogs" => UNCHANGED dialogsVars
  /\ u # "rapid"   => UNCHANGED rapidVars
  /\ u # "numedit" => UNCHANGED numeditVars
  /\ u # "menu"    => UNCHANGED menuVars
  /\ u # "editor"  => UNCHANGED editorVars
  /\ u # "cursor"  => UNCHANGED cursorVars
  /\ u # "macrofile" => UNCHANGED macroVars
  /\ u # "tape" => UNCHANGED tapeVars
  /\ u # "padctrl" => UNCHANGED padVars
  /\ u # "rapidfile" => UNCHANGED rfFileVars
  /\ u # "settings" => UNCHANGED settingsVars
  /\ u # "soskkeys" => UNCHANGED keysVars
  /\ u # "sosktext" => UNCHANGED textVars
  /\ u # "detect" => UNCHANGED detectVars
  /\ u # "getfile" => UNCHANGED getfileVars
  /\ u # "heap" => UNCHANGED heapVars
  /\ u # "takeover" => UNCHANGED takeoverVars
  /\ u # "screen" => UNCHANGED screenVars
  /\ u # "packet" => UNCHANGED packetVars
  /\ u # "stick" => UNCHANGED stickVars
  /\ u # "names" => UNCHANGED namesVars
  /\ u # "memory" => UNCHANGED memoryVars
  /\ u # "controls" => UNCHANGED controlVars
  /\ u # "frames" => UNCHANGED framesVars
  /\ u # "pixels" => UNCHANGED pixelsVars
  /\ u # "strings" => UNCHANGED stringVars
  /\ u # "hooks" => UNCHANGED hookVars

UnitsInit ==
  /\ unit \in Units
  /\ Init
  /\ (unit = "files" \/ disk = <<>>) /\ Files!Init
  /\ Remap!Init
  /\ Dirh!Init
  /\ Dialogs!Init
  /\ Rapidfire!Init
  /\ (unit = "numedit" \/ (greatest = 182 /\ numbers = <<0, 0, 0>>)) /\ Controls!NumeditInit
  /\ SoskKeys!Init
  /\ Menu!Init
  /\ Editor!Init
  /\ MenuCursor!Init
  /\ (unit = "tape" \/ left = Unset) /\ TapeInit
  /\ (unit = "settings" \/ ini = Null) /\ Settings!Init
  /\ (unit = "rapidfile" \/ stick = Null) /\ Profiles!RapidInit
  /\ (unit = "padctrl" \/ pressedNow = {}) /\ Padctrl!Init
  /\ (unit = "macrofile" \/ macroFile = <<Profiles!Signature(FALSE)>>) /\ Profiles!MacroInit
  /\ (unit = "sosktext" \/ buf = [i \in 0 .. 6 |-> "nul"]) /\ SoskText!Init
  /\ (unit = "detect" \/ (avail = AllButtons /\ given = {})) /\ Detect!Init
  /\ Getfile!Init
  /\ UserHeap!Init
  /\ Takeover!Init
  /\ (unit = "screen" \/ shown = [at |-> 0, size |-> 17]) /\ Screen!Init
  /\ (unit = "packet" \/ hooked = FALSE) /\ PacketInit
  /\ (unit = "stick" \/ (stickSet = StickAt(127, 40, 100, TRUE) /\ remaps = <<>>)) /\ StickInit
  /\ Names!Init
  /\ Memory!Init
  /\ (unit = "controls" \/ control = "file") /\ Controls!Init
  /\ (unit = "frames" \/ gameFrame = FrameOf("a", "8888")) /\ Frames!Init
  /\ Pixels!Init
  /\ Strings!Init
  /\ Hooks!Init

UnitsNext ==
  \/ unit = "dmem"    /\ Next         /\ Rest("dmem")
  \/ unit = "files"   /\ Files!Next   /\ Rest("files")
  \/ unit = "remap"   /\ Remap!Next   /\ Rest("remap")
  \/ unit = "dirh"    /\ Dirh!Next    /\ Rest("dirh")
  \/ unit = "dialogs" /\ Dialogs!Next /\ Rest("dialogs")
  \/ unit = "rapid" /\ Rapidfire!Next /\ Rest("rapid")
  \/ unit = "numedit" /\ Controls!NumeditNext /\ Rest("numedit")
  \/ unit = "menu" /\ Menu!Next /\ Rest("menu")
  \/ unit = "editor" /\ Editor!Next /\ Rest("editor")
  \/ unit = "cursor" /\ MenuCursor!Next /\ Rest("cursor")
  \/ unit = "macrofile" /\ Profiles!MacroNext /\ Rest("macrofile")
  \/ unit = "tape" /\ TapeNext /\ Rest("tape")
  \/ unit = "settings" /\ Settings!Next /\ Rest("settings")
  \/ unit = "rapidfile" /\ Profiles!RapidNext /\ Rest("rapidfile")
  \/ unit = "padctrl" /\ Padctrl!Next /\ Rest("padctrl")
  \/ unit = "soskkeys" /\ SoskKeys!Next /\ Rest("soskkeys")
  \/ unit = "sosktext" /\ SoskText!Next /\ Rest("sosktext")
  \/ unit = "detect" /\ Detect!Next /\ Rest("detect")
  \/ unit = "getfile" /\ Getfile!Next /\ Rest("getfile")
  \/ unit = "heap" /\ UserHeap!Next /\ Rest("heap")
  \/ unit = "takeover" /\ Takeover!Next /\ Rest("takeover")
  \/ unit = "screen" /\ Screen!Next /\ Rest("screen")
  \/ unit = "packet" /\ PacketNext /\ Rest("packet")
  \/ unit = "stick" /\ StickNext /\ Rest("stick")
  \/ unit = "names" /\ Names!Next /\ Rest("names")
  \/ unit = "memory" /\ Memory!Next /\ Rest("memory")
  \/ unit = "controls" /\ Controls!Next /\ Rest("controls")
  \/ unit = "frames" /\ Frames!Next /\ Rest("frames")
  \/ unit = "pixels" /\ Pixels!Next /\ Rest("pixels")
  \/ unit = "strings" /\ Strings!Next /\ Rest("strings")
  \/ unit = "hooks" /\ Hooks!Next /\ Rest("hooks")

UnitsSpec == UnitsInit /\ [][UnitsNext]_<<unit, vars, filesVars, remapVars, dirhVars,
                                          dialogsVars, rapidVars, textVars, keysVars, numeditVars,
                                          menuVars, editorVars, cursorVars, macroVars, tapeVars,
                                          settingsVars, rfFileVars, padVars, detectVars,
                                          getfileVars, heapVars, takeoverVars, screenVars,
                                          packetVars, stickVars, namesVars, memoryVars, controlVars,
                                          framesVars, pixelsVars, stringVars, hookVars>>

\* What is said of a unit is looked at in its own behaviours: it stays as it begins in others.
UnitsTypeOK ==
  /\ TypeOK
  /\ unit = "files"    => Files!TypeOK
  /\ unit = "remap"    => Remap!TypeOK
  /\ unit = "dirh"     => Dirh!TypeOK
  /\ unit = "dialogs"  => Dialogs!TypeOK
  /\ unit = "rapid"    => Rapidfire!TypeOK
  /\ unit = "numedit"  => Controls!NumeditTypeOK
  /\ unit = "soskkeys" => SoskKeys!TypeOK
  /\ unit = "sosktext" => SoskText!TypeOK
  /\ unit = "menu"     => Menu!TypeOK
  /\ unit = "editor"   => Editor!TypeOK
  /\ unit = "cursor"   => MenuCursor!TypeOK
  /\ unit = "tape"     => TapeTypeOK
  /\ unit = "settings" => Settings!TypeOK
  /\ unit = "padctrl" => Padctrl!TypeOK
  /\ unit \in {"macrofile", "rapidfile"} => Profiles!TypeOK
  /\ unit = "detect" => Detect!TypeOK
  /\ unit = "getfile" => Getfile!TypeOK
  /\ unit = "heap" => UserHeap!TypeOK /\ (~careless => UserHeap!TotalFreeSize \in Nat)
  /\ unit = "takeover" => Takeover!TypeOK
  /\ unit = "screen" => Screen!TypeOK
  /\ unit \in {"packet", "stick"} => PadTypeOK
  /\ unit = "names" => Names!TypeOK
  /\ unit = "memory" => Memory!TypeOK
  /\ unit = "controls" => Controls!TypeOK
  /\ unit = "frames" => Frames!TypeOK
  /\ unit = "pixels" => Pixels!TypeOK
  /\ unit = "strings" => Strings!TypeOK
  /\ unit = "hooks" => Hooks!TypeOK

NotFreedTwice   == unit = "dialogs" => Dialogs!NotFreedTwice
CursorsReach    == unit = "cursor" => MenuCursor!EveryItemReached
SettingsFound   == unit = "settings" => Settings!SettingsFound
HeldNotAgain    == unit = "padctrl" => Padctrl!HeldNotAgain

\* Lines are those of the file, strings are cut at the end of the buffer alone, and figures and
\* characters come out as they were asked for.
DoneAsAsked ==
  /\ unit = "files" => Files!LinesAsOnDisk /\ Files!WritesAsAsked
  /\ unit = "strings" => Strings!CutAsAsked /\ Strings!WildcardFinds
  /\ unit = "pixels" => /\ Pixels!FigureAsked /\ Pixels!CircleRound /\ Pixels!TextMeasured
                        /\ Pixels!BlendBetween /\ Pixels!GlyphInFont

\* What was saved is loaded again: the remaps, the macros and the rapid fire.
SavedIsLoaded ==
  /\ [][unit = "remap" => Remap!Restored]_remapVars
  /\ [][unit = "macrofile" => Profiles!Restored]_macroVars
  /\ [][unit = "rapidfile" => Profiles!Kept]_rfFileVars

\* A value turns as its digits, its item and the buttons that are pressed have it.
ValuesTurn ==
  /\ [][unit = "numedit" => Controls!DigitTurned]_numeditVars
  /\ [][unit = "controls" => Controls!Kept]_controlVars
  /\ [][unit = "detect" => Detect!Detected]_detectVars
=============================================================================
