------------------------------- MODULE Profiles -------------------------------
(***************************************************************************)
(* What two functions save in files of their own and load again.           *)
(*                                                                         *)
(* Macros: a slot of the macro function is saved and loaded (macro_save,   *)
(* macro_load), with its commands in a section of their own                *)
(* (macromgrSaver, macromgrLoader).                                        *)
(*                                                                         *)
(* Rapid fire (src/functions/rapidfire.c): the engine's modes are copied   *)
(* when the page is opened, changed, saved or loaded there, and given to   *)
(* the engine when it is left; a file that macrofire.ini names goes to the *)
(* engine when the program starts.                                         *)
(*                                                                         *)
(* The user may change what is saved at will between, and files may have   *)
(* been written by others.  The two share nothing: MacroSpec is about the  *)
(* first, RapidSpec about the second.                                      *)
(***************************************************************************)
EXTENDS Inimgr

CONSTANTS
  Macros,     \* the sequences of commands that the user makes
  MacroNames, \* what the user names a slot, as sequences of characters
  Hotkeys,    \* sets of buttons as numbers, 0 for none
  MaxSaved,   \* bound on the commands that are saved
  None,
  Buttons,
  Used,       \* the modes that users set
  Delays,     \* the delays that they set, 0 among them
  UserLines   \* files of the rapid fire that others wrote

VARIABLES
  slot,      \* st_params.menu.selectedData
  macroFile, \* the lines of the macro's file
  known,     \* history: the slot that macro_save last wrote to the file, or a new one
  engine,    \* for each button, the mode and the two delays of params->pref
  modes,     \* st_mode, while the page is open
  delay,     \* st_delay
  open,      \* the page is open
  stick,     \* the lines of the rapid fire's file, or None
  lastSaved  \* history: the modes and delays that were saved to it, or None

macroVars == <<slot, macroFile, known>>
rapidVars == <<engine, modes, delay, open, stick, lastSaved>>

\* Data of 64 bits is a number, or the two halves of it that are used alone.
Fresh == [action |-> "DELAY", data |-> <<0>>, sub |-> <<>>]
Keys  == [DELAY |-> "Delay", BUTTONS_PRESS |-> "ButtonsPress",
          BUTTONS_RELEASE |-> "ButtonsRelease", BUTTONS_CHANGE |-> "ButtonsChange",
          ANALOG_MOVE |-> "AnalogMove", RAPIDFIRE_START |-> "RapidfireStart",
          RAPIDFIRE_STOP |-> "RapidfireStop"]
Actions == DOMAIN Keys

\* A slot; a macro of 0 has no commands, any other at least one.
NewSlot == [macro |-> <<>>, name |-> <<>>, hotkey |-> 0, loops |-> 0]

Modes  == {"Normal", "Rapid", "Auto-Rapid", "Hold", "Auto-Hold"}
Normal == [mode |-> "Normal", press |-> 0, release |-> 0]
NoDelay == [press |-> 0, release |-> 0]

TypeOK ==
  /\ \A i \in DOMAIN slot.macro : slot.macro[i].action \in Actions
  /\ Len(slot.macro) <= MaxSaved + 1
  /\ slot.hotkey \in Hotkeys
  /\ engine \in [Buttons -> [mode : Modes, press : Delays, release : Delays]]
  /\ modes \in [Buttons -> Modes] /\ delay \in [press : Delays, release : Delays]
  /\ open \in BOOLEAN

-----------------------------------------------------------------------------
(* Values of entries. *)

\* inimgrReadEntry: a semicolon begins a comment, and blanks around the value go.
WithoutComment(text) ==
  LET at == SelectInSeq(text, LAMBDA c : c = ";")
  IN  IF at = 0 THEN text ELSE SubSeq(text, 1, at - 1)
Blank(c) == c = " "
Trimmed(text) ==
  LET first == SelectInSeq(text, LAMBDA c : ~Blank(c))
      last  == SelectLastInSeq(text, LAMBDA c : ~Blank(c))
  IN  IF first = 0 THEN <<>> ELSE SubSeq(text, first, last)
ReadText(text) == Trimmed(WithoutComment(text))

\* macromgrSaver, of one command. Delays are written with 32 bits, which MACROMGR_MAX_DELAY
\* does not need.
SavedCommand(c) == Entry(Keys[c.action], c.sub \o c.data)

\* macromgr_ini_parser, of one entry: what it does not know is left as it was made.
ParsedCommand(e) ==
  IF \A a \in Actions : Keys[a] # e.key THEN Fresh
  ELSE LET action == CHOOSE a \in Actions : Keys[a] = e.key IN
       CASE action = "RAPIDFIRE_START" ->
              [action |-> action, data |-> <<e.value[3]>>, sub |-> SubSeq(e.value, 1, 2)]
         [] action = "ANALOG_MOVE" ->
              [action |-> action, data |-> <<e.value[1] % 256, e.value[2] % 256>>, sub |-> <<>>]
         [] OTHER -> [action |-> action, data |-> e.value, sub |-> <<>>]

\* macromgrLoader: the command for the next entry is made before there is one.
\* Variant: the command that is made first is not the one that the first entry goes into,
\* and the last entry finds none.
ParsedLate(entries) ==
  <<Fresh>> \o [i \in 1 .. Len(entries) - 1 |-> ParsedCommand(entries[i])]
Parsed(entries) == [i \in DOMAIN entries |-> ParsedCommand(entries[i])] \o <<Fresh>>

-----------------------------------------------------------------------------
(* Files. *)

\* macro_save.
SaveLines(s) ==
  Save(<<[name |-> Default, entries |-> <<>>],
         [name |-> <<"Info">>, entries |->
            <<Entry("Name", s.name), Entry("Hotkey", s.hotkey), Entry("Repeat", s.loops)>>],
         [name |-> <<"Macro">>, entries |->
            [i \in DOMAIN s.macro |-> SavedCommand(s.macro[i])]]>>)

\* inimgrLoadAllSections: the callback of the commands reads on from where the file is,
\* the other sections are sought. Without memory for the names of buttons it reads nothing.
LoadSection(ls, sections, state, i, memory) ==
  LET found   == FindSection(sections, state.last, sections[i].name)
      section == sections[found]
      here    == [state EXCEPT !.last = found]
      onwards == ReadEntries(ls, state.at, section)
      sought  == ReadEntries(ls, section.start, section)
  IN  CASE section.name = <<"Macro">> /\ memory ->
             [here EXCEPT !.macro = Parsed(onwards.entries), !.at = onwards.at]
        [] section.name = <<"Macro">> /\ ~memory -> [here EXCEPT !.macro = <<Fresh>>]
        [] section.name = <<"Info">> ->
             [here EXCEPT !.info = @ \o sought.entries, !.at = sought.at]
        [] OTHER -> [here EXCEPT !.at = sought.at]
Loaded(ls, memory) ==
  LET sections == SectionsOf(ls) IN
  FoldLeft(LAMBDA state, i : LoadSection(ls, sections, state, i, memory),
           [last |-> 1, at |-> Len(ls), macro |-> <<>>, info |-> <<>>],
           [i \in DOMAIN sections |-> i])

\* What the info says of a key, the last of it counting, or else.
Entries(info, key) == SelectSeq(info, LAMBDA l : l.key = key)
Said(info, key, else) ==
  LET found == Entries(info, key) IN IF found = <<>> THEN else ELSE Last(found).value

\* macro_load of a signed file into a slot without a macro: the slots it may become. The
\* buffer of the hotkey is not set if the file has none.
Filled(s, ls, memory) ==
  LET new == Loaded(ls, memory) IN
  {[macro  |-> new.macro,
    name   |-> IF Entries(new.info, "Name") = <<>> THEN s.name
               ELSE ReadText(Said(new.info, "Name", <<>>)),
    hotkey |-> Said(new.info, "Hotkey", garbage),
    loops  |-> Said(new.info, "Repeat", s.loops)] : garbage \in Hotkeys}

\* macro_clear.
Cleared(s) == IF s.macro = <<>> THEN s ELSE NewSlot

-----------------------------------------------------------------------------
\* Files of others: without the hotkey, without commands, with keys of another version,
\* and one that is no macro.
Sign == Signature(TRUE)
Foreign ==
  { <<Sign, Heading(<<"Info">>), Entry("Name", <<"c">>), Heading(<<"Macro">>), Entry("Delay", <<1>>)>>,
    <<Sign, Heading(<<"Info">>), Entry("Hotkey", 1)>>,
    <<Sign, Heading(<<"Macro">>), Entry("Wait", <<1>>), Heading(<<"Info">>), Entry("Repeat", 1)>>,
    <<Signature(FALSE)>> }

MacroInit == slot = NewSlot /\ macroFile \in Foreign /\ known = NewSlot

\* The dialogs, the editor and recording.
ChangeMacro ==
  /\ \E m \in Macros, n \in MacroNames, h \in Hotkeys :
       slot' = [slot EXCEPT !.macro = m, !.name = n, !.hotkey = h]
  /\ UNCHANGED <<macroFile, known>>

\* The item is disabled while there is no macro.
SaveMacro ==
  /\ slot.macro # <<>> /\ Len(slot.macro) <= MaxSaved
  /\ macroFile' = SaveLines(slot) /\ known' = slot
  /\ UNCHANGED slot

\* macro_ini_handler: the slot is cleared, and once more if the load goes wrong, which is
\* also without memory for the names of the buttons at its end.
LoadMacro(memory) ==
  /\ IF Signed(macroFile) THEN slot' \in Filled(Cleared(slot), macroFile, memory)
     ELSE slot' = NewSlot
  /\ UNCHANGED <<macroFile, known>>
LoadMacroFails ==
  /\ \/ slot' = Cleared(slot)    \* no memory for the macro
     \/ slot' = NewSlot
  /\ UNCHANGED <<macroFile, known>>

\* The game is started anew: macroIniLoad adds a slot for a file of macrofire.ini, or the
\* user adds one.
RestartMacro ==
  /\ slot' \in {NewSlot} \cup (IF Signed(macroFile) THEN Filled(NewSlot, macroFile, TRUE) ELSE {})
  /\ UNCHANGED <<macroFile, known>>

MacroNext ==
  \/ ChangeMacro \/ SaveMacro \/ LoadMacroFails \/ RestartMacro
  \/ \E memory \in BOOLEAN : LoadMacro(memory)

MacroSpec == MacroInit /\ [][MacroNext]_macroVars

-----------------------------------------------------------------------------
\* What the player does with commands: a delay of 0 is none.
Played(macro) == SelectSeq(macro, LAMBDA c : c # Fresh)

\* A macro that was saved does the same when it is loaded, however often: the command that
\* each time adds is none to the player. Hotkey and loops come back, and the name unless
\* it has a semicolon or blanks around it.
Restored ==
  LoadMacro(TRUE) /\ known.macro # <<>> =>
    /\ Played(slot'.macro) = Played(known.macro)
    /\ slot'.hotkey = known.hotkey /\ slot'.loops = known.loops
    /\ ReadText(known.name) = known.name => slot'.name = known.name
MacroRestored == [][Restored]_macroVars

-----------------------------------------------------------------------------
(* The rapid fire. *)

RapidInit ==
  /\ engine = [b \in Buttons |-> Normal] /\ modes = [b \in Buttons |-> "Normal"]
  /\ delay = NoDelay /\ open = FALSE /\ stick \in UserLines \cup {None} /\ lastSaved = None

-----------------------------------------------------------------------------
\* rapidfire_apply and mfRapidfireSetMode: only the timed modes are given the delays.
Applied(ms, d) ==
  [b \in Buttons |->
    IF ms[b] \in {"Rapid", "Auto-Rapid"}
      THEN [mode |-> ms[b], press |-> d.press, release |-> d.release]
      ELSE [Normal EXCEPT !.mode = ms[b]]]

\* mfRapidfireReadEntry of every button.
EngineModes == [b \in Buttons |-> engine[b].mode]

\* mfRapidfireGetNameByMode and mfRapidfireGetModeByName: an unknown name is Normal.
ModeByName(name) == IF name \in Modes THEN name ELSE "Normal"

\* rapidfire_save, with the buttons in the order of the engine's table.
SavedLines ==
  Save(<< [name |-> Default, entries |-> <<>>],
          [name |-> <<"Mode">>, entries |->
            [i \in 1 .. Cardinality(Buttons) |->
               LET b == SetToSeq(Buttons)[i] IN Entry(b, modes[b])]],
          [name |-> <<"Delay">>, entries |->
            <<Entry("PressDelay", delay.press), Entry("ReleaseDelay", delay.release)>>] >>)

\* rapidfire_load of a signed file, all of whose sections are loaded: a button that the file
\* does not have is Normal, a delay that it does not have stays.
ValueIn(lines, name, key, else) ==
  LET es == EntriesOf(lines, name)
      i  == SelectInSeq(es, LAMBDA e : e.key = key)
  IN  IF i = 0 THEN else ELSE es[i].value
LoadedModes(lines) ==
  [b \in Buttons |-> ModeByName(ValueIn(lines, <<"Mode">>, b, "Normal"))]

\* Variant: the two delays are taken from the same entry.
LoadedDelayTwice(lines, d) ==
  LET p == ValueIn(lines, <<"Delay">>, "PressDelay", d.press)
  IN  [press |-> p, release |-> p]
LoadedDelay(lines, d) ==
  [press   |-> ValueIn(lines, <<"Delay">>, "PressDelay", d.press),
   release |-> ValueIn(lines, <<"Delay">>, "ReleaseDelay", d.release)]

-----------------------------------------------------------------------------
\* MF_MM_INIT and MF_MM_TERM of rapidfireMenu.
OpenPage ==
  /\ ~open /\ open' = TRUE /\ modes' = EngineModes
  /\ UNCHANGED <<engine, delay, stick, lastSaved>>
LeavePage ==
  /\ open /\ open' = FALSE /\ engine' = Applied(modes, delay)
  /\ UNCHANGED <<modes, delay, stick, lastSaved>>

\* The controls of the page.
SetMode ==
  /\ open /\ \E b \in Buttons, m \in Used : modes' = [modes EXCEPT ![b] = m]
  /\ UNCHANGED <<engine, delay, open, stick, lastSaved>>
SetDelay ==
  /\ open /\ \E p, r \in Delays : delay' = [press |-> p, release |-> r]
  /\ UNCHANGED <<engine, modes, open, stick, lastSaved>>

\* rapidfire_ini_handler. Without memory, or a file that is signed, nothing is changed.
SaveModes ==
  /\ open /\ stick' = SavedLines /\ lastSaved' = [modes |-> modes, delay |-> delay]
  /\ UNCHANGED <<engine, modes, delay, open>>
LoadModes ==
  /\ open /\ stick # None /\ Signed(stick)
  /\ modes' = LoadedModes(stick) /\ delay' = LoadedDelay(stick, delay)
  /\ UNCHANGED <<engine, open, stick, lastSaved>>

\* The program starts anew: mfRapidfireBind, and rapidfireIniLoad if macrofire.ini names a
\* file and there is memory for st_mode. What it loads is applied, also when the load fails:
\* the modes are the engine's then.
RestartRapid ==
  /\ open' = FALSE /\ modes' = [b \in Buttons |-> "Normal"]
  /\ \/ delay' = NoDelay /\ engine' = [b \in Buttons |-> Normal]
     \/ /\ stick # None /\ Signed(stick) /\ delay' = LoadedDelay(stick, NoDelay)
        /\ engine' = Applied(LoadedModes(stick), delay')
  /\ UNCHANGED <<stick, lastSaved>>

RapidNext == OpenPage \/ LeavePage \/ SetMode \/ SetDelay \/ SaveModes \/ LoadModes \/ RestartRapid

RapidSpec == RapidInit /\ [][RapidNext]_rapidVars

-----------------------------------------------------------------------------
\* Modes and delays that were saved are those of the page after they are loaded there, and
\* those of the engine, after the page is left or after the program starts with the file:
\* rapidfire_save, rapidfire_load and rapidfire_apply agree on names, sections and delays.
Kept ==
  /\ LoadModes /\ lastSaved # None => modes' = lastSaved.modes /\ delay' = lastSaved.delay
  /\ RestartRapid /\ lastSaved # None /\ engine' # [b \in Buttons |-> Normal] =>
       engine' = Applied(lastSaved.modes, lastSaved.delay)
RapidfireKept == [][Kept]_rapidVars
=============================================================================
