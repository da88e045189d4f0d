------------------------------- MODULE Settings -------------------------------
(***************************************************************************)
(* macrofire.ini (src/mfmain.c): which sections of it a start looks at,    *)
(* what it takes from them, and the file it writes when there is none.     *)
(* The text of an entry is a sequence of words.                            *)
(***************************************************************************)
EXTENDS Inimgr, FiniteSets

CONSTANTS
  None,
  ButtonTable,  \* padutilCreateButtonNames: the names of the buttons, in its order
  AltTable,     \* MF_MENU_ALT_BUTTONS: those the menu can have an alternative for
  Numerals,     \* the texts that strtol makes a number of
  MacroKeys,    \* "Macro1", "Macro2", ...
  DiscIds, HashIds, \* names of sections: ids of discs, ids made of an executable
  UserFiles     \* what users write

VARIABLES
  ini,       \* the lines of the file, or None
  power,     \* "off", "started" (mf_init is over), "on" (mf_ini is over)
  world,     \* st_world
  gameId,    \* st_game_id, the title of the menu: the name of a section or MF_INI_LOAD_FAILED
  own,       \* st_ini_sections[0] points to st_game_id, and is not NULL
  settings,  \* what was taken: a value for every key
  alt,       \* __mfmenu__gPref.Remap: the places of the array that are set
  found,     \* history: the lines that were read, or None
  late,      \* history: the disc's id was seen in mf_ready only
  ours       \* history: the file is the one that mf_ini_save wrote

vars == <<ini, power, world, gameId, own, settings, alt, found, late, ours>>

Worlds     == {"VSH", "POPS", "GAME"}
BoolKeys   == {"Startup", "StatusNotification", "AnalogStickMovement", "ForcedLowMemoryMode"}
ButtonKeys == {"MenuButtons", "ToggleButtons"}
IntKeys    == {"AnalogStickDeadzone", "AnalogStickSensitivity", "AnalogStickOriginX",
               "AnalogStickOriginY"}
PathKeys   == {"Remap", "Rapidfire"}
Keys       == BoolKeys \cup ButtonKeys \cup IntKeys \cup PathKeys \cup {"Macro"}

\* mfAnalogStickInit: a stick as it is.
AnalogBuiltIn ==
  [AnalogStickMovement |-> <<"On">>, AnalogStickDeadzone |-> "40",
   AnalogStickSensitivity |-> "100", AnalogStickOriginX |-> "127", AnalogStickOriginY |-> "127"]
BuiltIn == AnalogBuiltIn @@ [k \in Keys |->
  CASE k \in BoolKeys     -> <<"Off">>
    [] k = "MenuButtons"   -> {"VolUp", "VolDown"}
    [] k = "ToggleButtons" -> {}
    [] OTHER               -> <<>>]

TypeOK ==
  /\ power \in {"off", "started", "on"} /\ world \in Worlds
  /\ own \in BOOLEAN /\ late \in BOOLEAN /\ ours \in BOOLEAN
  /\ DOMAIN settings = Keys /\ Len(alt) <= 1

Init ==
  /\ ini \in UserFiles \cup {None} /\ power = "off" /\ world = "VSH" /\ gameId = None
  /\ own = FALSE /\ settings = BuiltIn /\ alt = <<>> /\ found = None /\ late = FALSE
  /\ ours = FALSE

-----------------------------------------------------------------------------
(* Button names. *)

\* padutilGetButtonCodeByNames: names that it does not know are passed over.
Code(names) == Range(names) \cap Range(ButtonTable)

\* padutilGetButtonNamesByCode.
Names(buttons) == SelectSeq(ButtonTable, LAMBDA n : n \in buttons)

-----------------------------------------------------------------------------
(* Reading. *)

\* st_ini_sections, without its NULLs.
\* Variant: the world comes before the game.
SectionsLookedWorld ==
  <<<<world>>>> \o (IF own THEN <<gameId>> ELSE <<>>) \o <<<<"Default">>>>
SectionsLooked ==
  (IF own THEN <<gameId>> ELSE <<>>) \o <<<<world>>, <<"Default">>>>

\* What inimgrGetBool is content with; mfIniGetString wants any text, mfIniGetInt anything.
IsBool(text) == text \in {<<"On">>, <<"Off">>}
Usable(key, text) == IF key \in BoolKeys THEN IsBool(text) ELSE key \in IntKeys \/ text # <<>>

\* inimgrGetInt: strtol.
Number(text) == IF text # <<>> /\ Range(text) \subseteq Numerals THEN text[1] ELSE "0"

\* mfIniGetBool, mfIniGetString, mfIniGetInt: the first section that has something.
Given(lines, sections, key) ==
  LET texts == [i \in DOMAIN sections |->
                  SelectSeq(EntriesOf(lines, sections[i]),
                            LAMBDA e : e.key = key /\ Usable(key, e.value))]
      i == SelectInSeq(texts, LAMBDA t : t # <<>>)
  IN  IF i = 0 THEN None ELSE texts[i][1].value

\* macroIniLoad: Macro1 and on, as long as there are.
MacroPaths(lines, sections) ==
  LET given == [i \in DOMAIN MacroKeys |-> Given(lines, sections, MacroKeys[i])]
      stop  == SelectInSeq(given, LAMBDA text : text = None)
  IN  IF stop = 0 THEN given ELSE SubSeq(given, 1, stop - 1)

\* The value that a text gives a key.
ValueOf(key, text) ==
  IF key \in ButtonKeys THEN Code(text)
  ELSE IF key \in IntKeys THEN Number(text)
  ELSE text

\* mf_ini_load.
Loaded(lines, sections) ==
  [k \in Keys |->
    IF k = "Macro" THEN MacroPaths(lines, sections)
    ELSE LET text == Given(lines, sections, k)
         IN  IF text = None THEN BuiltIn[k] ELSE ValueOf(k, text)]

\* mfMenuIniLoad, which writes every alternative to the first place of the array.
Alternatives(lines) ==
  LET entries == EntriesOf(lines, <<"AlternativeButtons">>)
      set     == SelectSeq(AltTable, LAMBDA b :
                   \E i \in DOMAIN entries : entries[i].key = b /\ entries[i].value # <<>>)
  IN  IF set = <<>> THEN <<>>
      ELSE LET b == Last(set)
               e == entries[SelectInSeq(entries, LAMBDA x : x.key = b)]
           IN  <<[real |-> Code(e.value), remap |-> b]>>

-----------------------------------------------------------------------------
(* Writing. *)

\* mfAnalogStickIniSave, the rest of mfMenuIniSave, and what remapIniCreate, rapidfireIniCreate
\* and macroIniCreate add.
AnalogEntries ==
  << Entry("AnalogStickMovement", <<"On">>), Entry("AnalogStickDeadzone", <<"40">>),
     Entry("AnalogStickSensitivity", <<"100">>), Entry("AnalogStickOriginX", <<"127">>),
     Entry("AnalogStickOriginY", <<"127">>) >>
MenuSection ==
  [name |-> <<"AlternativeButtons">>, entries |-> [i \in DOMAIN AltTable |-> Entry(AltTable[i], <<>>)]]
FunctionEntries == << Entry("Remap", <<>>), Entry("Rapidfire", <<>>), Entry("Macro1", <<>>) >>

\* mf_ini_save of what is set, which no start has changed then, and inimgrSave: the file has
\* no signature.
DefaultEntries ==
  << Entry("Startup", settings["Startup"]),
     Entry("MenuButtons", Names(settings["MenuButtons"])),
     Entry("ToggleButtons", Names(settings["ToggleButtons"])),
     Entry("StatusNotification", <<"Off">>) >>
    \o AnalogEntries \o <<Entry("ForcedLowMemoryMode", <<"Off">>)>> \o FunctionEntries
SavedFile ==
  SaveSections(<<>>, << [name |-> Default, entries |-> <<>>],
                        [name |-> <<"Default">>, entries |-> DefaultEntries], MenuSection >>)

-----------------------------------------------------------------------------
(* Starting. *)

\* The game's id as mf_init finds it: of a game on a disc that of the disc, which may have
\* none that can be read; of a PlayStation game that of its file, or else one made of the
\* file; of a program on the memory stick one made of it; None of the system's menu.
FirstId(w, fromDisc, disc, hash) ==
  IF w = "GAME" /\ fromDisc THEN disc
  ELSE IF w = "POPS" /\ disc # None THEN disc
  ELSE IF w = "VSH" THEN None ELSE hash

\* mf_init: without an id the world's name is the title, and no section of its own is looked at.
Start(w, fromDisc, disc, hash) ==
  LET id == FirstId(w, fromDisc, disc, hash) IN
  /\ power = "off" /\ power' = "started" /\ world' = w
  /\ own' = (id # None) /\ gameId' = (IF id = None THEN <<w>> ELSE id)
  /\ UNCHANGED <<ini, settings, alt, found, late, ours>>

\* mf_ready of a game: a disc in the drive, whatever was started, gives the id.
\* Neither it nor mf_ini sets st_ini_sections.
IdAtReady(disc) == IF world = "GAME" /\ disc # None THEN disc ELSE gameId

\* mf_ini when inimgrLoad succeeds, which takes memory and the file.
Read(disc) ==
  /\ power = "started" /\ power' = "on" /\ ini # None
  /\ UNCHANGED <<ini, world, own, ours>>
  /\ gameId' = IdAtReady(disc) /\ late' = (~own /\ gameId' # gameId)
  /\ found' = ini /\ settings' = Loaded(ini, SectionsLooked') /\ alt' = Alternatives(ini)

\* mf_ini when it does not, for want of the file or of memory: a file is written over
\* whatever there is. The title is the built-in one when it cannot be written.
Create(disc, writable) ==
  /\ power = "started" /\ power' = "on"
  /\ gameId' = (IF writable THEN IdAtReady(disc) ELSE <<"Built-in">>)
  /\ late' = (~own /\ IdAtReady(disc) # gameId)
  /\ ini' = (IF writable THEN SavedFile ELSE ini) /\ ours' = (writable \/ ours)
  /\ found' = None
  /\ UNCHANGED <<world, own, settings, alt>>

\* The machine is switched off, or goes on to another program: everything starts anew.
PowerOff ==
  /\ power = "on" /\ power' = "off" /\ world' = "VSH" /\ gameId' = None /\ own' = FALSE
  /\ settings' = BuiltIn /\ alt' = <<>> /\ found' = None /\ late' = FALSE
  /\ UNCHANGED <<ini, ours>>

Next ==
  \/ \E w \in Worlds, fromDisc \in BOOLEAN, disc \in DiscIds \cup {None},
        hash \in HashIds \cup {None} : Start(w, fromDisc, disc, hash)
  \/ \E disc \in DiscIds \cup {None} : Read(disc)
  \/ \E disc \in DiscIds \cup {None}, writable \in BOOLEAN : Create(disc, writable)
  \/ PowerOff

-----------------------------------------------------------------------------
\* The lines of the file with a key, in the first section of a name.
LinesWith(lines, name, key) ==
  {i \in DOMAIN lines :
    /\ lines[i].kind = "entry" /\ lines[i].key = key
    /\ \E h \in 1 .. i - 1 :
         /\ lines[h] = Heading(name)
         /\ \A j \in 1 .. h - 1 : lines[j] # Heading(name)
         /\ \A j \in h + 1 .. i - 1 : lines[j].kind # "heading"}

LastText(lines, name, key) == LET at == LinesWith(lines, name, key)
                              IN  lines[CHOOSE i \in at : \A j \in at : j <= i].value

\* What the manual promises of a key: the last line of it in the first section that has a
\* usable one, and the built-in value without any.
Promised(lines, order, key) ==
  LET have == {i \in DOMAIN order :
                /\ LinesWith(lines, order[i], key) # {}
                /\ Usable(key, LastText(lines, order[i], key))}
  IN  IF have = {} THEN None
      ELSE LastText(lines, order[CHOOSE i \in have : \A j \in have : i <= j], key)

\* A start takes each setting from the section of the game whose id it shows, or else from
\* that of the world, or else from Default, or else the built-in value, macros being
\* numbered without a gap; and the file that it writes itself says the same as no file
\* (mf_init, mf_ini and inimgr).  Not so for a disc that is only seen by mf_ready: its id
\* is shown, but its section is not looked at.
SettingsFound ==
  power = "on" =>
    /\ found = None => settings = BuiltIn
    /\ ours /\ found # None => settings = BuiltIn
    /\ found # None =>
         LET order == (IF gameId # <<world>> /\ ~late THEN <<gameId>> ELSE <<>>)
                        \o <<<<world>>, <<"Default">>>>
             P(key) == Promised(found, order, key)
         IN  /\ \A key \in Keys \ {"Macro"} :
                  settings[key] = IF P(key) = None THEN BuiltIn[key] ELSE ValueOf(key, P(key))
             /\ \A n \in DOMAIN MacroKeys :
                  (Len(settings["Macro"]) >= n) <=> \A m \in 1 .. n : P(MacroKeys[m]) # None
             /\ \A n \in DOMAIN settings["Macro"] : settings["Macro"][n] = P(MacroKeys[n])
=============================================================================
