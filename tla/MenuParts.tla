------------------------------ MODULE MenuParts ------------------------------
(***************************************************************************)
(* More parts that work on their own: the menu, its pages and its dialogs, *)
(* with what is said of them.  MCUnits runs them beside the others, where  *)
(* a part stays as it begins while another takes the steps, and MenuProofs *)
(* proves what is said here for any values of the constants.               *)
(***************************************************************************)
EXTENDS Integers

CONSTANTS
  NameLengths, DirNames, IllegalNames, RootPath, PathMax, EntryCounts, ListLines,  \* Getfile
  RemapButtons, MaxList, PageLines,                                                \* Remap
  ButtonLists, PressedKeys, Combinations, AcceptButton, CancelButton, ListRow,     \* Detect
  TriedButtons,
  KeyTables, KeyTypes,                                                             \* SoskKeys
  NumberPrefs, OptionCounts, ByteValues, BeyondValues, NoPref,                     \* Controls
  NumberMaxima, NumberOver

VARIABLES
  asks, dirPath, nameAt, fileName, allEntries, selectPos, area, showing, shutdown, fileResult, kind,
  confirmed, starved,
  list, selected, column, dialog, file, saved, kept,
  avail, given, buttons, detectMode, waiting, index, result, downLast, released, pressed,
  type, pos, lastPos, home,
  current, box, locked, help, show, ending, mode, target, popup, edited, cancel, failed, yes,
  badFree,
  names, ready, iniAt, user, symbols, menu, asking, tableLeft,
  control, prefs, var, editing, blocksHeld, helper, taken,
  greatest, numbers, digit,
  step, pages, tmem, next, main, sub, signal, extra, dialogType, lastType, lastResult, exit, quit,
  owner, chosen, broke, both

getfileVars == <<asks, dirPath, nameAt, fileName, allEntries, selectPos, area,
                 showing, shutdown, fileResult, kind, confirmed, starved>>
remapVars   == <<list, selected, column, dialog, file, saved, kept>>
detectVars  == <<avail, given, buttons, detectMode, waiting, index,
                 result, downLast, released, pressed>>
keysVars    == <<type, pos, lastPos, home>>
dialogsVars == <<current, box, locked, help, show, ending, mode, target, popup, edited,
                 cancel, failed, yes, badFree>>
namesVars   == <<names, ready, iniAt, user, symbols, menu, asking, tableLeft>>
controlVars == <<control, prefs, var, editing, blocksHeld, helper, taken>>
numeditVars == <<greatest, numbers, digit>>
menuVars    == <<step, pages, tmem, next, main, sub, signal, extra, dialogType, lastType,
                 lastResult, exit, quit, owner, chosen, broke, both>>

Getfile == INSTANCE Getfile WITH
  Long <- NameLengths, Dirs <- DirNames, Illegal <- IllegalNames, Root <- RootPath,
  Counts <- EntryCounts, Lines <- ListLines,
  path <- dirPath, at <- nameAt, name <- fileName, all <- allEntries, pos <- selectPos,
  result <- fileResult
Remap == INSTANCE Remap WITH Buttons <- RemapButtons
Detect == INSTANCE Detect WITH
  Lists <- ButtonLists, Keys <- PressedKeys, Accept <- AcceptButton, Cancel <- CancelButton,
  Row <- ListRow, Tried <- TriedButtons,
  mode <- detectMode, held <- downLast, seen <- pressed
SoskKeys == INSTANCE SoskKeys WITH Tables <- KeyTables, Types <- KeyTypes
Dialogs == INSTANCE Dialogs
Names == INSTANCE Names WITH ini <- iniAt, dialog <- asking, left <- tableLeft
Controls == INSTANCE Controls WITH
  Prefs <- NumberPrefs, Counts <- OptionCounts, Byte <- ByteValues, Beyond <- BeyondValues,
  Null <- NoPref, Maxima <- NumberMaxima, Over <- NumberOver,
  pref <- prefs, dialog <- editing, held <- blocksHeld, extra <- helper, unsure <- taken
Menu == INSTANCE Menu

-----------------------------------------------------------------------------
\* What is selected is there: in the list of remaps, of buttons, of files; on the keyboard it is
\* the key that was last moved to, whenever its table is shown.
SelectedInList ==
  /\ Remap!SelectedInList
  /\ Detect!IndexInList
  /\ Getfile!SelectionShown
  /\ SoskKeys!KeyComesBack

\* Nothing is left behind: by dialogs, by the tables of buttons, by the items for files.
NothingLeft ==
  /\ Dialogs!NothingLeft
  /\ Names!TablesKept
  /\ Controls!HeldWhileSet

\* Only what was accepted counts, and it is the name that was shown.
AcceptedAsAsked ==
  /\ Dialogs!AcceptedAsAsked
  /\ Getfile!NameBehindPath /\ Getfile!AcceptedAllowed

\* The menu loads and saves what was accepted, tells what waits to be told, and lets go of what
\* belongs to a page with the page.
ActsOnAccept == Menu!ActsOnAccept
MenuTold     == Menu!ExtraGoesOn /\ Menu!WithItsPage
=============================================================================
