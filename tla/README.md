# MacroFire: a verification project

MacroFire is a PSP plugin that sits between the pad and a game.  It reads every
pad sample through a syscon debug handler, lets its *functions* (macro, rapid
fire, remap, analog stick) change it, and offers a menu that is drawn over the
suspended game.  This directory holds TLA+ models of it, their model-checking
runs and their machine-checked proofs.  Paths are relative to the repository.

## 1. Inventory

| component | source | state | operations and callers |
|---|---|---|---|
| engine switch and hooks | `src/mfmain.c` | `st_is_enabled`, `st_hooked`, `st_syscon_chain_handlers`, `st_raw_pad` | `mf_main` polls the pad every 50 ms, flips the engine, hooks and unhooks, sends `MF_MS_TOGGLE`, opens the menu; other plugins call `mfSysconSetDebugHandlers`; the interrupt calls `mf_syscon_handler_*` |
| API hooking | `src/include/util/hook`, `src/hooktable.h` | the words that functions are called through, and what they held | found once, written by `mfHook` and `mfUnhook`, also by other plugins |
| packets | `src/mfmain.c` | a received packet, in one of two formats | `mf_syscon_handler_recieve` takes the pad from it and puts the changed one in |
| settings | `src/mfmain.c` | what `macrofire.ini` says for the game, its world and all games | read at the start, written when there is none |
| macro function | `src/functions/macro.c` | `st_params`: slot list, what is recorded or run, hotkey arming | `macroMain` per sample, `macroMenu` items, `macroProc` messages |
| macro manager | `src/functions/macromgr.c` | a doubly linked list of commands in a pool | new, insert, remove, seek, load, save |
| macro editor | `src/functions/macroeditor.c` | cursor, a copy of the command | edits on a macromgr list |
| rapid fire | `src/mfrapidfire`, `src/functions/rapidfire.c` | per button mode and phase, a shared tick | exec per sample, set by its page, loaded, saved |
| remap | `src/functions/remap.c` | list of pairs | apply per sample, edit, load, save |
| analog stick | `src/mfanalogstick` | origin, dead zone, sensitivity | adjust per sample |
| menu | `src/mfmenu` | stack of pages, cursor, extra procedure, what it took from the game | message loop in the MacroFire thread |
| menu controls | `src/mfctrl` | the variable behind an item | messages of the menu |
| dialogs | `src/mfdialog`, `src/include/cdialog` | one current dialog, its parameters and result | opened by menus, run by the menu loop |
| on-screen messages | `src/include/ovmsg` | event flags, message buffer, a printing thread | print, suspend, shut down, from any thread |
| memory | `src/include/memory` | a pool's heaps, the blocks of a heap, blocks of a partition | `dmem*` on a pool of each user's own, over `heap*`, over `memory*` |
| files | `src/include/file` | a file's buffer; sections and callbacks; a directory and its thread | `fiomgr*` under `inimgr*`; `dirh*` under the file dialog |
| pad | `src/include/pad` | repeat state, tables of names and symbols | read, convert, adjust, remap |
| graphics | `src/include/graphic/pb` | the frames, and the parameters in effect | the menu and the notifier draw |
| strings | `src/include/util/strutil` | none | copied, cut and compared by all |

Interaction: the interrupt (and a game thread inside the hooked `sceHprm` calls)
runs `mf_call_functions`, hence every function's main procedure, on the state
that the MacroFire thread changes from the menu.  The menu suspends the other
threads and unhooks the API first; messages such as `MF_MS_TOGGLE` do not.

What is hard to test here:

* steps of the MacroFire thread, other plugins and the interrupt in an order
  nobody tried: the handler chain (`mfmain.c:805-870`), the toggle message
  against a running macro (`mfmain.c:684`), a game thread suspended inside
  `macroMain`;
* long sequences of legal menu operations: adding, removing, selecting, loading
  and clearing slots while one is recorded or run;
* the two event flags between the notifier and those who print, who may be
  interrupts (which cannot wait) or threads that the menu suspends meanwhile;
* what must happen eventually: a held toggle combination flips the engine, a
  macro that is repeated ends.

* what takes several frames of the menu: a dialog opened in one, ended in
  another, told of in a third, while pages, extra procedures and memory come and
  go;
* what is saved and loaded again by parsers that share their tables of names;
* what the menu takes from the game on one path and must give back on all;
* ends of buffers, numbers, lists, tables, figures and fonts.

What makes each component correct is the property named for it in section 3.

## 2. Modules

Modules with a specification of their own and a run of their own:

| module | what it is |
|---|---|
| `Syscon` | engine switch, hooks and debug-handler chain of `mfmain.c`, with the part of `mfMenuMain.c` that touches them |
| `DebugHandlers` | abstract: what another plugin expects of `sceSysconSetDebugHandlers` |
| `SysconProofs` | theorems about `Syscon`, with the refinement of `DebugHandlers` |
| `Macro` | the macro function |
| `MacroProofs` | theorems about `Macro`, with the refinement of `SlotList` |
| `SlotList` | abstract: the slots as the menu's user knows them, a sequence with a selection |
| `Ovmsg` | on-screen messages: the notifier and those who use it |
| `OvmsgProofs` | theorems about `Ovmsg` |

Parts that work on their own, composed by `MCUnits` (below):

| module | what it is | what is said of it |
|---|---|---|
| `Dmem`, `Allocator` | a pool of memory; abstract: blocks with one user at a time | `NoHeapLost`, `HeldInMemory`, `ImplementsAllocator` |
| `UserHeap` | `heap`: the blocks inside a heap | `BlocksApart` |
| `Memory` | `memory`: blocks of a partition, aligned and resized | `MemoryKept` (in `BlocksApart`) |
| `Files` | `fiomgr`: a file through a buffer | `LinesAsOnDisk`, `WritesAsAsked` (in `DoneAsAsked`) |
| `Strings` | `strutil` | `CutAsAsked`, `WildcardFinds` (in `DoneAsAsked`) |
| `Inimgr` | `inimgr` as operators on lines, used by the next three | through them |
| `Settings` | `macrofire.ini` | `SettingsFound` |
| `Profiles` | what the user saves: the files of macros, the page and the files of the rapid fire | `Restored`, `Kept` (in `SavedIsLoaded`) |
| `Remap` | the remap function's list, menu and files | `SelectedInList`, `Restored` (in `SavedIsLoaded`) |
| `Dirh` | a directory read by a thread, for the file dialog | `ListWhole`, `ThreadAccounted` (`DirectoryRead`) |
| `Dialogs` | the life of the dialogs, with those on top of them | `NothingLeft`, `AcceptedAsAsked`, `NotFreedTwice` |
| `Getfile` | the file dialog's path, name and list | `NameBehindPath`, `AcceptedAllowed` (in `AcceptedAsAsked`), `SelectionShown` (in `SelectedInList`) |
| `Detect` | the dialog that waits for buttons | `Detected` (in `ValuesTurn`), `IndexInList` (in `SelectedInList`) |
| `SoskText`, `LineEditor` | the text of the on-screen keyboard; abstract: a line with a cursor | `ImplementsLine` |
| `SoskKeys` | its tables of keys | `KeyComesBack` (in `SelectedInList`) |
| `Menu` | the menu loop: pages, messages, extra procedures, dialogs | `ActsOnAccept`; `ExtraGoesOn`, `WithItsPage` (`MenuTold`) |
| `MenuCursor` | the cursor among items that come and go | `EveryItemReached` (`CursorsReach`) |
| `Controls` | what items do with their variable, and, as the unit `numedit`, the digits of the number dialog | `Kept`, `DigitTurned` (in `ValuesTurn`), `HeldWhileSet` (in `NothingLeft`) |
| `Names` | the shared tables of names and symbols | `TablesKept` (in `NothingLeft`) |
| `Takeover` | threads, sound, hooks and memory taken from the game | `GivenBack` |
| `Screen` | the frames the menu places in the screen memory | `ScreenBack` (in `GivenBack`) |
| `Frames` | who draws where, in which format | `DrawnInFormat`, `DrawnUnseen` (`DrawnAsGiven`) |
| `Pixels` | what figures, texts and colours put | `FigureAsked`, `CircleRound`, `TextMeasured`, `BlendBetween`, `GlyphInFont` (in `DoneAsAsked`) |
| `Editor` | the macro editor and the list it edits | `EditLands` |
| `Tape` | recording and running commands, frame by frame | `PlaysAsRecorded` |
| `Rapidfire` | the rapid fire engine under packets and calls | `HoldFollowed`, `KeepsTime` (`HoldFollowsPresses`) |
| `Padctrl` | key repeat | `Follows` (`RepeatsFollow`), `HeldNotAgain` |
| `Pad` | two units, `packet` and `stick`: the packet in its two formats, the stick's adjustment, and remapping | `PacketTold`, `PushedFurther`, `LastHasItsWay`, `OrderIsFree` (`PadAsDecided`) |
| `Hooks` | the patched words, beside another plugin | `CallsArrive` (in `GivenBack`) |
| `Parts` | eleven of these for any constants, with what is said of them: `Takeover`, `Screen`, `Rapidfire`, `Hooks`, `Dirh`, `Editor`, `Padctrl`, `SoskText`, `Memory`, `UserHeap`, `Frames` | |
| `MenuParts` | eight more: `Getfile`, `Remap`, `Detect`, `SoskKeys`, `Dialogs`, `Names`, `Controls`, `Menu` | |
| `UnitProofs` | theorems about `Dmem` and the parts in `Parts` | |
| `MenuProofs` | theorems about those in `MenuParts` | |
| `PadProofs` | theorems about `Pad` | |
| `TapeProofs` | theorems about `Tape` | |

`MCUnits` puts these side by side, with values for the constants of `Parts`,
`MenuParts`, `Pad` and `Tape` from its configurations.  They share no variable: a behaviour picks
one of them, `unit`, which takes its own steps while the others stay as they
begin, so that the states are the sum of theirs and not the product, and one run
says of each all that is to be said of it.  A property of a unit is looked at in
its own behaviours (`unit = "files" => ...`).  Those of `MenuParts` need no such
condition: a part that rests is as it was at the start, where they hold.  Where one unit uses what another
one promises (the file dialog shows what `Dirh` lists, the remaps are loaded by
`Inimgr`, the menu's dialogs end as in `Dialogs`), the using module has the
promise as a choice among the possible answers.  `Inimgr` is the exception: its
operators are extended, and its reading and writing are done in full.

A definition that is preceded by "Variant" is a likely mistake in the one that
follows it; it is in no specification.  `PROJECT.json` lists which property of
which run tells the two apart.

### Syscon

`pc` is the control point of the MacroFire thread; a label is the point before
an access to shared state, so that any other process may run in between.
`hookTest`, `hookSet`, `hookDone` are mfHook's test of the chain (after it has
patched the table), its registration and its assignment to `st_hooked`;
`unhookTest`, `unhookClear`, `unhookDone` the same for mfUnhook.  `plugin[p]` is
the control point of another plugin inside `mfSysconSetDebugHandlers`.  Each
call of a handler in the interrupt is one action, since nothing can interrupt
it.  `Transmit` is the call before a packet is sent, and stands for `handler1`
and `handler4` too, which also do nothing but call the chained handler.
`Receive(answer)` is the call with the answer: of a packet that reads the pad
(`"pad"`), which is stored in `st_raw_pad` and passed on, or of another one, or
one that was answered by another command (`"other"`), for which
`mf_syscon_handler_recieve` returns at `mfmain.c:286` before it comes to the
chained handler (320).  `lastCalled` says whose handler was called last, and
when.  `DebugHandlers` promises the owner its handler at the moments in `Sure`
and leaves it open at the others: `TransparentChain` has `Sure` without
`"other"`, `ChainCalled` with it, which is what the comment at
`mfmain.c:1139-1141` says and what the run `packets` shows not to be so.  The
menu is reduced to what it does to the engine: it suspends, unhooks, may flip
the engine and reconfigure the buttons, rehooks by `mfIsEnabled()`, resumes;
giving up for want of memory or of a thread list is modelled too.  A plugin's
handlers are represented by the plugin's name.

`armed` is a history variable for `FlipNeedsRelease`: it becomes true when the
toggle combination was released (or when the poll read a raw pad that nobody
was writing, see below).

### Macro

`slot` is the memory of the slots, `live` the allocated ones, and the list is
what one gets by following `next` from `rootData`.  A macro is its number of
commands (`len`) and `temp->cmd` a position in it: the properties concern which
slot and command are used when, not what the commands do to the pad.  `game` is
the branch of `macroMain`'s switch that a game thread has entered: the switch
reads `actionType` once and the branch uses `st_params` later, so an interrupt,
the menu or the toggle message may come in between.  `message` is the delivery
of `MF_MS_TOGGLE`: `stopping` is the middle of `macro_trace_stop`, where the
rapid fire has been destroyed and its handle not yet cleared.  A menu item is
one action, since the game is suspended and the API unhooked while the menu is
open; which items are active is `Selecting`, `Idle` and `Acting`, as
`macro_menu_update` sets it.  Loading a file may fail at each of its steps
(`LoadFailed`), memory may be short (`AddSlot`, `MaxManagers`).

`fault` is a history variable: the invalid pointer or command that a step
followed.  After it anything could happen, so the model stops there.

### Dmem

One pool, as each has one user who calls it from one thread at a time.
`heapList` is the list from `root->heapList` on, a sequence; `count`, `lastUse`
and `parent` (the pointer in front of each block) are the code's.  The kernel's
side is `created` and `inUse`; whether a heap has room for a request is open
(sizes are left out), but a heap made for a request has.  `held` is a history
variable: what the user holds, whatever the pool believes.

### Ovmsg

`notifier` is the control point of `ovmsg_main`, `printer[t]` that of thread `t`
inside `mfNotificationPrintf`, `menu` that of the MacroFire thread in
`mfMenuMain` and `ovmsgShutdown`.  `workEv` and `ctrlEv` are the two event
flags; a thread that waits is served when the bits are set, which is why what
the notifier does next (`Obey`) is decided there.  The kernel is modelled as
documented for its calls: a flag created with attribute 0 admits one waiting
thread, and nothing can wait in an interrupt.  The notifier's priority is above
the MacroFire thread's (`Runs`).  `written`, `intruded` and `fault` are history
variables.

### Units

What a step is and what is left to choice, where it is not a call of the code:

* `Menu`, `Dialogs`, `Editor`, `Getfile`, `Detect`, `SoskText`, `SoskKeys`,
  the number dialog of `Controls`: a frame of the menu loop; in `Menu` a frame is four steps, as the
  loop has them: the dialog's result, the page, the change of page, the dialog.
  The buttons are chosen freely, several at once where the code looks at
  several.  Memory may be short wherever the code asks for it.
* `Dirh`: the reading thread has a higher priority than its asker and runs until
  it waits for the card; the timeout of the wait, and calls that fail, may
  happen wherever the code allows for them.
* `Rapidfire`, `Tape`, `Padctrl`: time is counted in frames; `Rapidfire` has
  packets and the two halves of a game's call as actions of their own.
* `Takeover`: the game's threads start, end, suspend and resume each other
  between the steps of the menu until they are suspended; thread ids are used
  again.
* `Hooks`: another plugin hooks any word at any time.
* `Pad`: in packets words of 32 bits are sets of positions; data are bytes with their
  sum as the checksum.
* `Pixels`: one drawing at a time; arithmetic as in the code, with C's division.
* `Settings`, `Profiles`, `Remap`: a file is a sequence of
  lines of a kind (signature, heading, entry, other); users write files of their
  own, without the signature, with parts missing, doubled or in another order.
* `Frames`: the notifier and the menu use one set of parameters in turn.  While
  the menu is open the notifier draws nothing (`Ovmsg`), which is why they do not
  interleave inside a frame.

## 3. Runs

| run | specification | shows |
|---|---|---|
| `serial` | `FairSerialSpec`, two plugins, two calls | types; menu and main loop keep hooks, table and suspension together (`MenuKeepsHooks`); the registered handlers match engine and chain between calls (`HandlersMatch`); one press flips the engine once (`FlipNeedsRelease`); for packets that read the pad, and before any is sent, the chain implements `DebugHandlers` (`TransparentChain`); held toggle buttons flip the engine (`ToggleAnswered`) |
| `packets` | `SerialSpec`, one plugin | **violated**: the answers to other packets reach no chained handler (`ChainCalled`) |
| `race` | `Spec`, one plugin | **violated**: chained handlers may be registered nowhere |
| `three` | `CarefulSpec`, three slots, so that one in the middle is removed; up to two commands, one counted round | types; what is recorded or run exists and has a current command (`ActionPrepared`); no invalid pointer is followed (`NoFault`); the slot list stays linked in both directions (`WellLinked`); the slots implement `SlotList` |
| `finishes` | `CarefulFairSpec`, one slot | a macro with a number of rounds ends |
| `clear` | `Spec`, two slots | **violated**: Clear unlinks the slots behind the cleared one |
| `interrupt` | `FairSpec`, the MacroFire thread and the interrupt print | types, with `selfThreadId` right; handshake and shutdown keep the two threads apart until an interrupt prints (`Handshake`); the MacroFire thread never waits for good (`MainGoesOn`); messages are shown (`WrittenIsShown`) |
| `gameprint` | `FairSpec`, the MacroFire thread and a game thread print | **violated**: the notification is switched off while a game thread is suspended in a print, and the menu hangs |
| `oneframe` | `Spec`, two slots | **violated**: a macro over within its first frame is left running with no command |
| `units` | `UnitsSpec`, all thirty-one parts, one in each behaviour | types, and all that section 2 names for the parts |
| `sosk` | `UnitsSpec`, the dialogs | **violated**: the help of the keyboard is freed again when a later message on top of it ends (`NotFreedTwice`) |
| `padhold` | `UnitsSpec`, key repeat | **violated**: a button without repeat is reported again while it is held (`HeldNotAgain`) |

`SerialSpec` is `Spec` restricted to calls that do not overlap (`OneCallAtATime`):
`race` shows what overlapping calls do, `serial` that nothing else goes wrong.

`CarefulSpec` restricts `Spec` by three conditions.  Without each of them the
program misbehaves:

* `Undisturbed`: an interrupt inside a game thread's `macroMain`, the menu
  opened while a game thread is suspended there, or an interrupt during
  `macro_trace_stop` makes `macro_trace` and `macro_record` run with nothing
  prepared, or with a destroyed rapid fire.
* `ClearsNoNeighbour`: `macro_clear` zeroes `next` and `prev` of a slot that
  stays on the list (run `clear`).
* `HotkeysRepeat`: a hotkey starts a slot without a macro (`macro.c:225`), and a
  macro that ends in its first frame stays the running one (run `oneframe`).

Not among them is what `macroMain` does when it waits for the release of the hotkey
of `actionData`, whose slot the menu may have removed (`macro.c:231`): it reads memory
that is no slot any more, and what it reads is any value (`HotkeyReleased`).

What the properties of `units` leave out, for in those cases the program does
not keep them; most have a history variable that says that the case has come:

* `Menu`: `broke`, a file dialog that broke off, whose error message is then
  taken for it; `both`, accept and cancel pressed in one frame.  `Editor`:
  `both`, another button in the frame that opens a dialog, which leaves the
  number in the other item or nowhere.
* `Dialogs`: `failed`, memory or the card failed, which leaves help texts
  behind (also `getfilename.c`'s own).  `Getfile`: `starved`, no memory for the
  question about overwriting.
* `Controls`: `unsure`, a helper's value that is taken for an error.
* `Names`: `left`, the parser that ran out of memory keeps the table of names.
* `Takeover`: `starved`, the pool that is lost when `dmemAlloc` fails
  (`mfMenuMain.c:62`); and threads that the game itself had suspended are
  resumed with the others (`mfMenuMain.c:525`).
* `Screen`: `unsaved`, the start of the screen memory after the menu was drawn over
  a frame of four bytes a pixel that ends with it, with backups for less than two
  frames: the second frame is then there (`mfMenuMain.c:569`), and has none.
* `Settings`: `late`, a disc that is only seen in `mf_ready`: its id is shown
  but its section was not looked at (`mfmain.c:516`).
* `Dirh`: what a thread does after a timeout (`timeout` in `mishap`: it writes
  to a handle that is no more) and when none could be made.
* `Tape`: `twisted` and `sure`: menu buttons that change places in one frame; an
  append to a macro that ends with buttons down (`macro.c:867`); the first run,
  whose time to wait nobody has set.
* `Rapidfire`: `unsure`, buttons that were down when they were set or change
  within a call of the game.  `Padctrl`: `blank`, a frame with nothing on at all.
* `Pad`: nothing left of the way by the sensitivity (the origin is reported,
  the dead zone reports the centre).  With remaps that start from the stick, or two
  that push it to opposite sides, their order matters: the last has its way
  (`LastHasItsWay`).
* `Hooks`: `mixed`, another plugin hooked a word after MacroFire had looked at
  it: `mfUnhook` takes its hook out, too.
* `UserHeap`: `spoilt`, a block was put where there is no room: `heapAlloc` takes
  the unsigned difference of two addresses for the room between them, and it
  wraps.  `BlocksApart` says that this needs a caller that is `careless`: one
  that has asked for a size that is no multiple of 8, or for all up to the last 8
  bytes.  From then on until the heap is empty nothing is asked of it, for it
  would never be full.
* `Pixels`: lines up in one direction and down in the other, which `pbLine`
  draws between the other two corners (none is drawn); the eighth row of the
  font, counted as if the seventh were full.
* `Strings`: `strutilRTrim` of a string whose only other character is its first
  (the value `5  ` of an entry) or of blanks alone, `strutilLTrim`'s number then.

Further deviations met while modelling, for which there is no run.  In the macro
function: removing the only slot destroys the pool but not the slot's macro
(`macro.c:721`), whose memory is lost although `manual_macro.txt:13` says it is
removed too; taking the hotkey away from a slot that has just been started or
stopped by it leaves `hotkeyAccept` false for good, because
`mfIsPressed( buttons, 0 )` is true (`macro.c:231`); `inimgrNew`'s error code is
taken for a handle (`macro.c:769`).  In the menu: its engine control sends no
`MF_MS_TOGGLE` (`mfMenuMain.c:747`), so that a running macro goes on in the
middle, against `changes.txt:585-588`; menu buttons of 0 are always pressed
(`mfmain.c:762`); the failure of the root page's INIT is ignored
(`mfMenuMain.c:98`), and so is that of growing the stack; its background is
copied as if the game's frame were as wide as its own (`mfMenuMain.c:611`).  In
the settings: loading a broken file overwrites it (`mfmain.c:570`), and
`mfMenuIniLoad.c:12` never advances its second index.  With the remote control:
`mfHprmPeekCurrentKey` runs the functions once more in a frame (`mfmain.c:832`).
Packets: digital ones cannot carry the stick that a macro moves, and all unknown
bits are set on the way back.  Hooking: a library that is not there stands for
the last one of its module (`hookFindExportAddr.c:16`).  Dialogs: the list of
files compares unsigned numbers (`getfilename.c:457`).  Graphics: the glyph of a
narrow letter is found without its height (`pbPrint.c:71`), a circle goes up one
step early, blended pixels have no alpha, `pbSaveContext` saves nothing.
Strings: a pattern without a star finds longer names, too; `strutilCountChar`,
`NCat`, `NInsert` and `Insert` do not do what they are named for, and have no
caller.

For `Ovmsg` likewise: once an interrupt has printed, its answer is left in
`ctrlEv`, and the next printer and even `ovmsgShutdown` take it for theirs, so
that a message may be written while it is shown, be lost, or the notifier's
memory be freed under it; a game thread may find `st_ovmsg` gone between its
test and its call (`fault`).  `Handshake` and `WrittenIsShown` therefore speak
of the time before an interrupt prints, `MainGoesOn` of all of it.  Not in the
model: `mfNotificationStart` keeps an error code in `st_ovmsg`, which is then
used as a pointer (`mfmain.c:965`); the event flags are never deleted.

Bounds.  `Ovmsg` is finite as it is.  `Syscon`: two plugins are needed for one
to replace the other's handlers; two calls in all let a plugin register and unregister, or two
register, at every point of the MacroFire thread's loop, which starts over as
often as it likes; the toggle unset or set.  In `serial` it is one button, and no buttons
are set for the menu, so that it opens in any poll (`mfIsPressed` of 0,
`mfmain.c:762`); in `race` and `packets` there is one plugin, and a button of its own
for the menu.
`Macro`: three slots (interchangeable, hence the symmetry of `three`) have a
first, a middle, a last and an only one; what is done with a slot and its macro
needs no more than two, one in use and another; two commands have a first
and a last one; `loopNum` 0 (forever), 1 and 2 (something to count down); one
hotkey, so that two slots can have the same; `MaxManagers` is reached by
replacing macros that are not freed.  `finishes` needs no second slot.

`units`: `Dmem` has three heaps, so that one is at the front, in the middle and
at the end of the list, and three blocks.  `UserHeap` has room for several
blocks of five sizes, 0, odd and even ones and one that takes all, so that gaps are too small, just
large enough, larger and less than nothing.
`Memory` has two users and six pages.  `Files` has a buffer of two, lines of three and files of up to five
bytes: line ends fall on, before and behind the end of the buffer.  `Settings`
has three sections in each order and number with one entry, and one with two;
`Remap` lists of two, `Profiles` every kind of command, up to
five commands saved; `Dirh` two entries.  `SoskText` has six characters in a
window of five, so that it scrolls; `SoskKeys` the real tables, the number dialog the
greatest numbers of the callers, `Detect` the real lists with and without the
remote control.  `Getfile` has directories that are empty, shorter and longer
than the window.  `Menu` has the pages of one function,
at three levels, `Editor` has three lines with half pages of one.  `Tape` records
up to four frames of two menu buttons and another one.  `Rapidfire` has
a delay of two units pressed and one released, with frames of two, so that one
runs over; `Padctrl` delays of three and two frames.
`Takeover` has two threads of the game, since one may suspend the other.
`Screen` has the real sizes in units of 16 KB, with frames at the ends, apart
and overlapping.  `Pad` has words with every single bit off and all on, origins
at the ends and on both sides of the centre, and every pair of eight remaps.
`Controls` has numbers of one and two bytes (bytes of 16 values).  `Frames` has
two frames of the game in two formats; `Pixels` lines with ends among four
coordinates, circles of radius up to 8, and 20, texts of up to three characters,
levels at and beside the ends, the real numbers of glyphs.  `Strings` has texts
that are copied and appended until the buffer is full and beyond.  `Hooks` has
two libraries, a function that is a system call, one that is not, and a module
that is not there.

Fairness.  `serial`: the MacroFire thread and the plugins are scheduled
(`WF` on their steps), and the kernel reads the pad at every vblank (`WF` on
`Receive("pad")`); nothing is assumed of the user, hence the release of the buttons
is one of the ways `ToggleAnswered` allows.  `finishes`: the game keeps reading
the pad, and a delay, being compared with the clock, runs out: a step that moves
the macro on is taken if it stays possible; the MacroFire thread returns from
`macro_trace_stop`.  `interrupt`, `gameprint`: the kernel runs a thread that can
run, and the vertical blank comes; nobody has to print or to leave the menu, and
a thread that the menu has suspended does not run.

Every property of a passing run has a mutant in `PROJECT.json`: a *variant* of
one definition, kept beside it in the module and marked so, under which the run
reports the property violated.

## 4. Proofs

`SysconProofs` proves, for any set of plugins, buttons and button masks and any
number of calls (assumptions: the names `none` and `macrofire` are no plugins,
masks are sets of buttons, `MaxCalls` is a number):

* `TypeCorrect`: `Spec => []TypeOK`.
* `MenuKeepsHooksCorrect`: `Spec => []MenuKeepsHooks`, under every interleaving.
  `MenuKeepsHooks` speaks of a few control points only; the inductive
  `EngineInv` says for every control point what `st_hooked`, the table and the
  suspension are there, and in particular that inside mfUnhook `hooked` still
  holds.  Only the MacroFire thread writes these variables, which is why no
  restriction on the plugins is needed.
* `HandlersMatchCorrect`: `SerialSpec => []HandlersMatch`.  Between calls the
  handlers match; the inductive `HandlersInv` adds what is true in the middle of
  each call (for instance: at `unhookClear` the chain was empty and still is,
  because no plugin is in a call).
* `ChainRefines`: `SerialSpec => TransparentChain`, the refinement of
  `DebugHandlers`.  The MacroFire thread's steps are stutters, because it changes
  the registered handlers only when no plugin's are chained; a plugin's call
  takes effect at its store or at its registration.  A call of a handler is one of
  the owner's, but for the answer to a packet that does not read the pad, of which
  `DebugHandlers` leaves open whether the owner sees it.

`UnitProofs` proves of `Dmem`, for any finite sets of heaps and blocks (assumption: `Null`
is no heap), hence for pools of any size:

* `TypeCorrect`, `NoHeapLostCorrect`, `HeldInMemoryCorrect`: the invariants of
  the run `units` about pools.  Together they are almost inductive; `Placed` adds that a block
  is in no heap but the one its stored pointer names (so that giving it back
  empties that heap and no other) and that a pool that is not there has no list.
  What the list operations do is stated in `WithoutSet` and `AppendSet`: the set
  of heaps, and that none is there twice.  `LastUseBeside` is the delicate case:
  the four places in which the freed heap can stand, each leaving `lastUse` at a
  heap that is still there.
* `PoolIsAllocator`: `Spec => ImplementsAllocator`.  As what is in memory is what
  users hold, a step changes it as it changes `held`.

`MacroProofs` proves of `CarefulSpec`, for any finite set of slots, any hotkeys
and any bounds on commands, rounds and macros (assumptions: `Null` is no slot,
`NoKey` no key, the bounds are numbers, the slots are finite in number):

* `TypeCorrect`, `ListIsWellLinked`, `WorkIsPrepared`, `NoInvalidPointer`: the
  invariants of the run `three`.  The inductive `IInv` has two halves.
  `ListInv` says that there is a sequence of slots that the pointers spell out
  in both directions, that these are the slots in memory, and which of them the
  menu shows (`WellLinked` alone says where pointers lead from a slot on the list,
  not that the walk ends).  `WorkInv` says what the game, the interrupt, the menu
  and the toggle message know of each other: while the menu is open no hotkey is
  awaited, a game thread in `macroMain` works for the action that is current,
  the rapid fire is destroyed only in the middle of `macro_trace_stop`.  An
  operation on the list disturbs the first half only, and one on the pad the
  second.
* `ListRefines`: `CarefulSpec => ImplementsList`: adding, removing and selecting
  slots does to the list as it is walked what `SlotList` says of a sequence with
  a selection; everything else is a stutter.
* While a hotkey's release is awaited, the slot that it belongs to may be gone:
  nothing else is read of it (`macro.c:231`), and what is read may be anything.
* The list is found by walking, `Nth`, a recursive function.  That it finds the
  slots of the sequence is proved once (`Walk`), from the least place at which
  it could go astray: the library's induction theorems take an operator, but
  that a set of numbers has a least one (`Least`, from `WFMin`) does not.

`CarefulSpec` is what section 3 says of it: without its conditions the program
breaks these invariants, so there is nothing to prove of `Spec` but a run's
violation.

`OvmsgProofs`:

* `TypeCorrect`: `Spec => []TypeOK`, whoever prints.
* `HandshakeKept`: `Spec => []Handshake` for `Printers \subseteq {"interrupt"}`,
  under every interleaving of the notifier, the MacroFire thread and the
  interrupt.  The inductive `Inv` goes by turns: of each request that the
  MacroFire thread waits for there are three stages (to be read, being answered,
  answered and to be read), and the two event flags and the control points
  belong to one of them.  With `"game"` among the printers the game's thread
  waits for the same answer, and `gameprint` shows what comes of that; the
  hypothesis is that of the run `interrupt`.

`SysconProofs` also has `FlipNeedsReleaseCorrect`, the action property of the
run `serial`, but of `Spec`: one press flips the engine once.  Its invariant says that as long
as the release was not seen the buttons are held, the main loop waits for their
release, and a raw pad of this round has them.

`UnitProofs` and `MenuProofs` are also about nineteen more of the parts, those in
`Parts` and in `MenuParts`, each by itself, as a behaviour of `MCUnits` is one of
them: it has the part's `Init` and `Next`, so that it is a behaviour of the part's
`Spec`.  The properties are those of the run `units`, which are defined in `Parts`
and `MenuParts`.  A name in them that covers several parts has a theorem from the
specifications of all of them, side by side.  Each theorem names its
hypothesis on the constants, which the configuration's values meet:

| theorems | hypothesis and why the code has it | inductive invariant |
|---|---|---|
| `TakeoverGivenBackCorrect`, `TakeoverTypeCorrect` | `Owners`: a thread is of the game, of the system or the notifier | what is suspended is a target or was suspended by the game; from `take` on what was listed is suspended, by the menu alone; the rest is taken after that |
| `ScreenBackCorrect` | `InVram`: a frame of the game has two or four bytes a pixel, is in the screen memory, which has room for four of two bytes | what the menu has drawn outside of the game's frame is in a frame that has a backup, with memory for 0, 1, 2 or 3 frames, or at the start of the memory and in `unsaved` |
| `HoldFollowsPressesCorrect` (from `RapidHoldFollows` and `RapidKeepsTimeCorrect`), `RapidTypeCorrect` | `Timed`: delays and frames are numbers, up to the bound | a button to hold is known as the last packet had it, and the game's thread took it so; rapid buttons that are in step have the same time left |
| `HooksCallsArriveCorrect` | `Nowhere` is no word | a word holds the function, MacroFire's hook or the other's; what each has kept of it is the function, or a hook of the other that has kept the function, and never one that comes back |
| `HooksTypeCorrect` | `Exporting`: a module exports some library | `TypeOK` is inductive; what is looked for is found in the table or not at all |
| `DirectoryReadCorrect` (from `DirhListWholeCorrect` and `DirhThreadAccountedCorrect`), `DirhTypeCorrect` | `MaxEntries` is a number | the thread's stage, the event flag, the asker's stage and how much of the list is filled go together; a thread that runs unawaited writes to an old handle, and had timed out |
| `EditLandsCorrect`, `EditorTypeCorrect` | `EditorSized`: there is room for a line, half a page is a number, numbers can be 0 or the stick's centre | commands have addresses of their own (a new one finds one by counting); while a dialog or table is open the copy is of the command at the cursor, and what the user has made of it is in the copy but for the number still in `temp` |
| `RepeatsFollowCorrect`, `PadTypeCorrect` | `Repeating`: no button is of both kinds, delays are above 0 | after a reset the buttons down then are those not reported; from the first change on, the time since the last report goes with the time since the change, up to the second repetition |
| `ImplementsLineCorrect` (from `TextLineRefines`), `TextTypeCorrect` | `TextSized`: the buffer has a size, the window a width, `NUL` is no character | the buffer's text ends where its length says, and the cursor is in the window and not beyond the text; each key has in the code a case at the end of the text and one before it, which come to one step of `LineEditor` |
| `MemoryKeptCorrect`, `MemoryTypeCorrect` | `Partition`: addresses and sizes are numbers, pages are not empty, `Nowhere` is neither an address nor a block; alignments are those that `memoryExalloc` accepts, 0 or a power of two, in the model up to 16 | the block of each user is in the partition, apart from the others', and holds the header and the contents within it |
| `HeapApartCorrect`, `HeapTypeCorrect` | `HeapSized`: the header is a number of units, sizes are numbers | blocks are in the order of their addresses, and as long as room is found none reaches past the next one, or the heap's end, by more than the unit that is added for the alignment; and by nothing while nobody was careless, so that the unsigned difference of two addresses never is one below 0 |
| `DrawnAsGivenCorrect`, `FramesTypeCorrect` | `Framed`: frames have one of pb's formats, a width, and an address of their own | whoever draws has set up the frame that it draws into: a message the frame that it has asked for, in the game's format; the menu both of its frames, in its own, the one that is shown and another one if there is another one |
| `SelectedInListCorrect` (of `Remap`, `Detect`, `Getfile` and `SoskKeys`) | `Paged`, `Listed`, `Placed` and `KeysLaid`, below | the next four rows |
| its part about `Remap` | `Paged`: a page has a number of lines | the dialogs for buttons are open only while there is an entry to write to; what a file is loaded into is a list with an entry selected, after each line of any file |
| `DetectTypeCorrect`, `DetectedCorrect` (the part of `ValuesTurn`) | `Listed`: a list has buttons, among them those that the dialog knows, and does not end one short of a row, for `cdialogDetectbuttonsUpdate` would go beyond it (neither of the two lists does: 21 and 26 buttons in rows of six) | while buttons are detected, those shown are those pressed since all were released, and those down are among them |
| `GetfileTypeCorrect`; `NameBehindPathCorrect` and `AcceptedAllowedCorrect` for `AcceptedAsAskedCorrect` | `Placed`: names have lengths, the empty one 0, the path has room for the root with its slash and the end, directories have a greatest number of entries | the name stands right behind the path in the buffer, where the next directory or name is tried for room; what is confirmed is a file that is there, of an allowed name |
| `KeysTypeCorrect` | `KeysLaid`: tables have a number of keys and of rows | the key that is remembered, or else the one in focus, is the one that was last moved to |
| `DialogsTypeCorrect`; with `Getfile`, `AcceptedAsAskedCorrect`; with the next two, `NothingLeftCorrect` | none | what is on top of a dialog is there only while that dialog is current and visible (`DialogsWhole`, until memory or the card fails); that one dialog at a time is current, even then (`DialogsLife`) |
| `NamesTypeCorrect` | none | as many tables of symbols as there are of menu and dialog; one table of names exactly while somebody converts, or the parser has left it |
| `ControlsTypeCorrect`, `VariableKeptCorrect` (the part of `ValuesTurn`) | `Allowed`: a number has at most the bytes that it is read in (four), an option has a value | the variable is a value of its item; the low bytes of a number are written without the high ones (`WrittenBack`) |
| `MenuInvariant`, `MenuTypeCorrect`, `ActsOnAcceptCorrect`, `MenuToldCorrect` | none | `MenuInv`, in seven parts, tells for each of the four steps of a frame which pages, messages, dialogs and extra procedures go together; the delicate ones are `AcceptInv` (who waits for a file has one, has been refused one, or will be told) and `WaitsInv` (for every extra procedure that waits a dialog is open, or its end is seen, or a message under way) |

`PadProofs` proves of both halves of `Pad`, for any words that arrive, any settings of
the stick and any lists of remaps of any length:

* `PadAsDecidedCorrect`: `PacketSpec /\ StickSpec => []PadAsDecided`, and
  `PadsTypeCorrect` the same of `PadTypeOK`.  Two hypotheses, which the
  configuration's values meet.  `WordsArrive`: what arrives are words of 32 bits and
  bytes, and `NoPad` is no pad.  `Settable`: the greatest coordinate is twice the
  centre and one more, as 255 is of 127, and the centre is at least 3; buttons are
  no directions; what is set is an origin within the coordinates, a dead zone, a
  sensitivity, and remaps of buttons and directions.
* Packets (`PacketInvariant`): a byte is the sum of its bits (`ByteBits`,
  `PokedByte`), so that a word that is poked is the one that is peeked (`PeekPoked`);
  no two buttons have one place in a pad's word (`MovedApart`), and what is told to
  Syscon is read back the same (`ToldBack`); the checksum completes what is before it
  (`Completed`), which is what it was of, as the places that it adds up are not
  those written after it (`TotalUpTo`).
* The stick (`FurtherPushed`): from the dead zone to cutting and snapping each step
  keeps the order of coordinates, but where the way ends at the origin
  (`WayGrows`, `ScaledGrows`, `SnappedGrows`).  What is in the dead zone lies between
  what is not.
* Remaps: the loop of `padutilRemap` leaves each coordinate where the last remap pushed
  it that pushes it at all, and adds to what is held whatever the order
  (`LastPusher`, `RemappedIs`), which is `LastPushed`, for any list.  If none starts
  from the stick and no two push it to opposite sides, the last is as good as the
  first (`FreeAfter`, `SameReversed`), and the directions of what comes out are those
  that were pushed (`EndsSeen`), which is `OrderFree`.

`TapeProofs` proves of `Tape`, for any sets of buttons and recordings of any length:

* `PlaysAsRecordedCorrect`: `TapeSpec => []PlaysAsRecorded`, if there are menu
  buttons.  The inductive invariant (`TapeInvariant`) has for each recording a function
  `t`, the frame in which each of its commands can be obeyed at the earliest.
  `Timed` says how it goes with the frames: a change is at its frame, a delay is as long as
  nothing changes, and a delay after another one is a frame longer than it says, for
  `macro_trace` sets its time in the frame in which the first one is over.  While recording, what is not yet a command
  is the delay at the end (`Waiting`); while playing, the command and the time that is left fit the
  frame (`Playing`).
* What `macro_record_stop` cuts off it finds by going back, turning the menu buttons over
  with each command until none is left to be found: the command with which they went down
  after the last frame without any.  A command that lets go of one of them and presses another at
  once could hide it (`twisted`); `Untwisted` says of every other one that it does not.

`GivenBackCorrect` (of the first, the second and the fourth row) and
`BlocksApartCorrect` (of `Memory` and `UserHeap`) put together what the run `units` says of
several parts under one name, as `SelectedInListCorrect`, `NothingLeftCorrect` and
`AcceptedAsAskedCorrect` do.  `Menu`, `Dialogs` and `Names` have no constants, so
that the run goes through all there is of them; their proofs say why it is so.

`Getfile` measures a path, and `Remap` loads a file, by folding a sequence, which
the library defines by recursion on sets.  `MenuProofs` proves once, from `Least` as
in `MacroProofs`, that such a function is there (`FoldExists`) and that a
fold has what its steps give it (`FoldAgrees`); the rest are invariants of
the steps (`StepsExist`, `LoadedInto`).

Only model-checked, and why:

* Liveness (`serial`'s `ToggleAnswered`, `finishes`, `interrupt`'s `MainGoesOn` and `WrittenIsShown`) and
  ENABLED, which are out of the prover's reach.
* `Files`, `Strings` and `Pixels` (`DoneAsAsked`) and `Settings` (`SettingsFound`):
  what they do is what a recursive definition makes of whole texts, files or figures.  `Strings` and `Files` use recursive
  operators, which the prover cannot be given.
* `SavedIsLoaded`: `Remap!Restored` and `Profiles` compare what was saved with what the
  parser makes of it, line by line.
* `CursorsReach` and the number dialog's part of `ValuesTurn`: `MenuCursor` has no
  constants, and of the dialog it is the greatest numbers of its callers, for which
  alone the property holds.  The run goes through all there is of both.
* `UnitsTypeOK` as a whole, as it names all the parts.  Its conjuncts about the parts in
  `Parts` and `MenuParts`, but for `Remap`'s, `Screen`'s and the number of free bytes that
  `heapTotalFreeSize` tells, and those about `Dmem` and `Pad` are theorems of their own.

## 5. Not modelled

* The data of the font (`graphic/pb/fonts`), 7,600 of the 26,500 lines.
* `sysclib`: a vendored sort and formatter, and character classes; `makepath`:
  joining names, for one caller.  They have no state.
* What is drawn of menus and dialogs (their layout), wording, and the wait
  screen.
* The exception screen and debug output, which are compiled for debugging only.
* Functions without callers: `fiomgrRead`, `fiomgrTruncate`, `pbSaveContext` and
  `pbRestoreContext`, `ovmsgSetColor`, `ovmsgSetPosition`, `hookFindImportAddr`,
  `strutilInsert` and its kin, an array of remaps made by `padutil`.
* Memory that runs out while a command of a macro is made (`macro.c:960`): the
  code writes to the command that it did not get.
* Of the macro editor's tables, those that work as the one of the coordinates
  does; more in `PROJECT.json`, "components".

## 6. Plan

The model of the code is as complete as is planned.  What is left is a proof of
`Settings`, by the lemmas about folds that `MenuProofs` and `PadProofs`
have.  A part that gets a theorem of a property moves from `MCUnits` into a module
that both the runs and the proofs extend, as `Parts`, `MenuParts`, `Pad` and `Tape` are.  Each
part in scope makes every other proof slower, which is why there are several.
