-------------------------------- MODULE Parts --------------------------------
(***************************************************************************)
(* Parts that work on their own, with what is said of each in a behaviour  *)
(* of that part: what MacroFire takes from the game and gives back, its    *)
(* memory, drawing, directories, rapid fire and key repeat, and the two    *)
(* editors.  MCUnits runs them beside the others, and UnitProofs proves    *)
(* what is said here for any values of the constants.                      *)
(***************************************************************************)
EXTENDS Integers

CONSTANTS
  GameThreads, System, Notifier, Most,                       \* Takeover
  VramEnd, FramePages, Shows, Nowhere,                       \* Screen
  RapidButtons, Delays, Gaps, MaxSince,                      \* Rapidfire
  GameModules, Calls, HookTable,                             \* Hooks
  MaxEntries,                                                \* Dirh
  MaxLines, HalfPage, Numbers,                               \* Editor
  NormalButtons, Toggles, Repeat, StartDelay, NextDelay,     \* Padctrl
  Chars, NUL, TextMax, Width,                                \* SoskText
  MemoryUsers, PartitionEnd, Page, AskedSizes, Aligns,       \* Memory
  HeapSize, Wanted, BlockHeader, AlignSize,                  \* UserHeap
  FramesOfGame, MenuScreen                                   \* Frames

VARIABLES
  unit,   \* the part that takes the steps
  alive, halted, sysThreads, targets, menuAt, unhooked, muted, buffers, pools, stopped, early,
  poolLeft,
  shown, fb, drawn, unsaved, menuShown,
  pref, since, raw, game, odd, unsure, due, inStep,
  word, restore, patched, other, mixed,
  handle, entry, size, asker, flag, thread, stray, mishap,
  lines, numberOfCmd, line, copy, temp, tables, row, message, update, number, wanted, field, twice,
  idle, lastPad, prePressed, doRepeat, pressedNow, before, reported, steady, fresh, blank,
  buf, length, offset, cursorPos,
  block, ptr, asked, mem,
  chain, careless, spoilt,
  pb, panel, gameFrame, askedFrame, drawer, put, menuFrames

takeoverVars == <<alive, halted, sysThreads, targets, menuAt, unhooked, muted,
                  buffers, pools, stopped, early, poolLeft>>
screenVars == <<shown, fb, drawn, unsaved, menuShown>>
rapidVars  == <<pref, since, raw, game, odd, unsure, due, inStep>>
hookVars   == <<word, restore, patched, other, mixed>>
dirhVars   == <<handle, entry, size, asker, flag, thread, stray, mishap>>
editorVars == <<lines, numberOfCmd, line, copy, temp, tables, row, message, update, number,
                wanted, field, twice>>
padVars    == <<idle, lastPad, prePressed, doRepeat, pressedNow, before, reported, steady, fresh,
                blank>>
textVars   == <<buf, length, offset, cursorPos>>
memoryVars == <<block, ptr, asked, mem>>
heapVars   == <<chain, careless, spoilt>>
framesVars  == <<pb, panel, gameFrame, askedFrame, drawer, put, menuFrames>>

Takeover == INSTANCE Takeover WITH
  Game <- GameThreads, list <- targets, at <- menuAt, starved <- poolLeft
Screen == INSTANCE Screen WITH
  Frame <- FramePages, Frames <- Shows, Null <- Nowhere, open <- menuShown
Rapidfire == INSTANCE Rapidfire WITH Buttons <- RapidButtons, Frames <- Gaps
Hooks == INSTANCE Hooks WITH
  Loaded <- GameModules, Table <- HookTable, Null <- Nowhere, hooked <- patched
Dirh == INSTANCE Dirh
Editor == INSTANCE Editor WITH
  Values <- Numbers,
  count <- numberOfCmd, pos <- line, selected <- copy, main <- message, dialog <- number,
  both <- twice
Padctrl == INSTANCE Padctrl WITH
  Normal <- NormalButtons, since <- idle, held <- pressedNow
SoskText == INSTANCE SoskText
Memory == INSTANCE Memory WITH
  Users <- MemoryUsers, End <- PartitionEnd, Sizes <- AskedSizes, Null <- Nowhere
UserHeap == INSTANCE UserHeap WITH
  Size <- HeapSize, Sizes <- Wanted, Header <- BlockHeader, Unit <- AlignSize
Frames == INSTANCE Frames WITH
  GameFrames <- FramesOfGame, Null <- Nowhere,
  game <- gameFrame, seen <- askedFrame, user <- drawer, fb <- menuFrames

-----------------------------------------------------------------------------
\* What MacroFire and its menu have taken is given back: threads, sound, the screen, calls.
GivenBack ==
  /\ unit = "takeover" => Takeover!GivenBack
  /\ unit = "screen" => Screen!ScreenBack
  /\ unit = "hooks" => Hooks!CallsArrive

\* Blocks of memory have one owner, in the heap and in the partition.
BlocksApart ==
  /\ unit = "heap" => UserHeap!BlocksApart
  /\ unit = "memory" => Memory!MemoryKept

\* The file dialog shows a directory as it is, and the thread that reads it is accounted for.
DirectoryRead == unit = "dirh" => Dirh!ListWhole /\ Dirh!ThreadAccounted

\* An edit lands on the command that is under the cursor.
EditLands == unit = "editor" => Editor!EditLands

\* Drawings are in the frame and in the format that they are for, and they are not seen before
\* they are finished.
DrawnAsGiven == unit = "frames" => Frames!DrawnInFormat /\ Frames!DrawnUnseen

\* The rapid fire follows what is pressed, and keeps time.
HoldFollowsPresses ==
  /\ [](unit = "rapid" => Rapidfire!KeepsTime)
  /\ [][unit = "rapid" => Rapidfire!HoldFollowed]_rapidVars

\* A button is reported when it is pressed and then as the delays have it.
RepeatsFollow == [][unit = "padctrl" => Padctrl!Follows]_padVars

\* The text of the keyboard is the line that LineEditor tells of.
ImplementsLine ==
  /\ SoskText!Line!Init
  /\ [][unit = "sosktext" => [SoskText!Line!Next]_(SoskText!Line!vars)]_textVars
=============================================================================
