------------------------------- MODULE Macro -------------------------------
(***************************************************************************)
(* The macro function (src/functions/macro.c): the list of macro slots,    *)
(* the slot being recorded or run, and the hotkeys.                        *)
(*                                                                         *)
(* Everything hangs on st_params, which is shared by                       *)
(*   - the syscon interrupt, which calls macroMain while the API is hooked *)
(*     and runs to its end;                                                *)
(*   - a game thread inside the hooked sceHprmPeekCurrentKey, which calls  *)
(*     macroMain too and can be interrupted, or suspended by the menu;     *)
(*   - the MacroFire thread: the menu (which suspends the game and unhooks *)
(*     the API) and the MF_MS_TOGGLE message (which does not).             *)
(*                                                                         *)
(* A macro is represented by its number of commands and temp->cmd by a     *)
(* position in it.                                                         *)
(***************************************************************************)
EXTENDS Naturals, FiniteSets

CONSTANTS
  Slots,        \* memory for slots (struct macro_data)
  Null,         \* the null pointer
  Keys,         \* button combinations that serve as hotkeys
  NoKey,        \* no hotkey; nothing pressed
  MaxCommands,  \* bound: length of a macro
  MaxLoops,     \* bound: loopNum
  MaxManagers   \* bound: macromgr instances that fit in memory

ASSUME NullAssumption == Null \notin Slots /\ NoKey \notin Keys
ASSUME BoundsAssumption ==
  IsFiniteSet(Slots) /\ MaxCommands \in Nat \ {0} /\ MaxLoops \in Nat /\ MaxManagers \in Nat

Pointers == Slots \cup {Null}

\* struct macro_data: mgr is "macro # 0", len the number of commands of that macro.
Slot == [mgr : BOOLEAN, len : 0 .. MaxCommands, hotkey : Keys \cup {NoKey},
         loopNum : 0 .. MaxLoops, next : Pointers, prev : Pointers]
EmptySlot == [mgr |-> FALSE, len |-> 0, hotkey |-> NoKey, loopNum |-> 0,
              next |-> Null, prev |-> Null]

VARIABLES
  slot,          \* contents of the slots' memory
  live,          \* slots that are allocated in the pool
  pool,          \* work.memoryUid # 0
  rootData, selectedData, selectedIndex,
  managers,      \* macromgr instances in memory
  actionType, actionData,
  cmd,           \* temp->cmd, as a position in actionData's macro; 0 is NULL
  loopRest,      \* temp->trace.loopRest
  rfUid,         \* temp->trace.rfUid: "none", "live" or "freed"
  hotkeyAccept,
  enabled,       \* the engine switch
  mode,          \* what the MacroFire thread is about
  message,       \* its position in the delivery of MF_MS_TOGGLE
  game,          \* the branch of macroMain a game thread has entered
  pressed,       \* hotkey combination held by the user
  fault          \* history: the invalid pointer that has been followed, if any

listVars  == <<slot, live, pool, rootData, managers>>
menuVars  == <<selectedData, selectedIndex>>
workVars  == <<actionType, actionData, cmd, loopRest, rfUid>>
vars == <<listVars, menuVars, workVars, hotkeyAccept, enabled, mode, message, game,
          pressed, fault>>

Actions  == {"none", "trace", "record"}
Modes    == {"boot", "load", "failed", "game", "menu"}
Faults   == {"none", "noSlot", "noMacro", "noCommand", "freedSlot", "stale", "freedRapidfire"}

TypeOK ==
  /\ slot \in [Slots -> Slot] /\ live \subseteq Slots /\ pool \in BOOLEAN
  /\ rootData \in Pointers /\ selectedData \in Pointers
  /\ selectedIndex \in 0 .. Cardinality(Slots)
  /\ managers \in 0 .. MaxManagers
  /\ actionType \in Actions /\ actionData \in Pointers
  /\ cmd \in 0 .. MaxCommands /\ loopRest \in 0 .. MaxLoops
  /\ rfUid \in {"none", "live", "freed"}
  /\ hotkeyAccept \in BOOLEAN /\ enabled \in BOOLEAN
  /\ mode \in Modes /\ message \in {"none", "send", "stopping"}
  /\ game \in Actions \cup {"idle"}
  /\ pressed \in Keys \cup {NoKey}
  /\ fault \in Faults

Init ==
  /\ slot = [s \in Slots |-> EmptySlot] /\ live = {} /\ pool = FALSE
  /\ rootData = Null /\ selectedData = Null /\ selectedIndex = 0
  /\ managers = 0
  /\ actionType = "none" /\ actionData = Null /\ cmd = 0 /\ loopRest = 0
  /\ rfUid = "none"
  /\ hotkeyAccept = TRUE /\ enabled = FALSE
  /\ mode = "boot" /\ message = "none" /\ game = "idle"
  /\ pressed = NoKey /\ fault = "none"

-----------------------------------------------------------------------------
(* The list of slots. *)

\* The n-th slot from rootData on, 1 being the first.
Nth[n \in 1 .. Cardinality(Slots)] ==
  IF n = 1 THEN rootData
  ELSE IF Nth[n - 1] = Null THEN Null ELSE slot[Nth[n - 1]].next

Listed      == {Nth[n] : n \in 1 .. Cardinality(Slots)} \ {Null}
Place(s)    == CHOOSE n \in 1 .. Cardinality(Slots) : Nth[n] = s
LastListed  == CHOOSE s \in Listed : slot[s].next = Null
One(b)      == IF b THEN 1 ELSE 0

\* macro_clear: nothing without a macro, else the whole slot becomes zero bytes.
Cleared(r) == IF r.mgr THEN EmptySlot ELSE r

\* What macro_load makes of a slot that has no macro, when it succeeds and when not.
Loaded(r) ==
  {[r EXCEPT !.mgr = n > 0, !.len = n, !.hotkey = k, !.loopNum = l] :
     n \in 0 .. MaxCommands, k \in Keys \cup {NoKey}, l \in 0 .. MaxLoops}
LoadFailed(r) ==
  {r, [r EXCEPT !.mgr = TRUE]} \cup
  {[r EXCEPT !.mgr = n > 0, !.len = n, !.loopNum = l] :
     n \in 0 .. MaxCommands, l \in 0 .. MaxLoops}

\* The macromgr instances after s becomes r; a new one has to fit.
UpdateSlot(s, r) ==
  /\ slot' = [slot EXCEPT ![s] = r]
  /\ managers' = managers + One(r.mgr) - One(slot[s].mgr)
  /\ managers' <= MaxManagers

\* macro_add: a new slot at the end of the list, which becomes the selected one.
AddSlot ==
  \/ \E s \in Slots \ live :
       LET last == IF rootData = Null THEN Null ELSE LastListed
           new  == [EmptySlot EXCEPT !.prev = last]
       IN
       /\ slot' = [t \in Slots |-> IF t = s THEN new
                                   ELSE IF t = last THEN [slot[t] EXCEPT !.next = s]
                                   ELSE slot[t]]
       /\ live' = live \cup {s}
       /\ pool' = TRUE
       /\ rootData' = IF rootData = Null THEN s ELSE rootData
       /\ selectedData' = s
       /\ selectedIndex' = Cardinality(Listed)
       /\ UNCHANGED managers
  \/ /\ pool' \in {pool, TRUE}      \* no memory for the slot, or none for the pool
     /\ UNCHANGED <<slot, live, rootData, managers, menuVars>>

\* The slots after s, between p and n, is taken out.
\* Variant: the slot behind it keeps its prev.
UnlinkedForward(s, p, n) ==
  [t \in Slots |-> IF t = s THEN EmptySlot
                   ELSE IF t = p THEN [slot[t] EXCEPT !.next = n]
                   ELSE slot[t]]

Unlinked(s, p, n) ==
  [t \in Slots |-> IF t = s THEN EmptySlot
                   ELSE IF t = n THEN [slot[t] EXCEPT !.prev = p]
                   ELSE IF t = p THEN [slot[t] EXCEPT !.next = n]
                   ELSE slot[t]]

\* The slot behind the removed one is selected, or the last one.
\* Variants: the number always goes down; the slot before it is selected.
SelectBesideCountsDown(p, n) ==
  /\ selectedData' = IF n # Null THEN n ELSE p
  /\ selectedIndex' = selectedIndex - 1
SelectBesideBackward(p, n) ==
  IF p # Null THEN selectedData' = p /\ selectedIndex' = selectedIndex - 1
  ELSE selectedData' = n /\ UNCHANGED selectedIndex

SelectBeside(p, n) ==
  IF n # Null THEN selectedData' = n /\ UNCHANGED selectedIndex
  ELSE IF p # Null THEN selectedData' = p /\ selectedIndex' = selectedIndex - 1
  ELSE UNCHANGED menuVars

\* macro_remove: take the selected slot off the list and free it; with the only slot
\* of the list the whole pool goes.
RemoveSelected ==
  LET s == selectedData
      n == slot[s].next
      p == slot[s].prev
  IN
  \/ /\ s = rootData /\ n = Null
     /\ slot' = [t \in Slots |-> EmptySlot]
     /\ live' = {} /\ pool' = FALSE
     /\ rootData' = Null /\ selectedData' = Null /\ selectedIndex' = 0
     /\ UNCHANGED managers
  \/ /\ s # rootData \/ n # Null
     /\ slot' = Unlinked(s, p, n)
     /\ live' = live \ {s}
     /\ rootData' = IF s = rootData THEN n ELSE rootData
     /\ SelectBeside(p, n)
     /\ managers' = managers - One(slot[s].mgr)
     /\ UNCHANGED pool

-----------------------------------------------------------------------------
(* Recording and running. *)

\* macro_trace_prepare; mfRapidfireNew may find no memory.
TracePrepare(s) ==
  /\ actionData' = s /\ actionType' = "trace"
  /\ rfUid' \in {"live", "none"}

\* macro_trace from command c with rest rounds to go: it leaves a command to run, goes
\* back to the first for another round, or is done.
\* Variant: the rounds are not counted.
TraceAgainUncounted(s, c, rest) ==
  \/ cmd' \in c .. slot[s].len /\ loopRest' = rest
  \/ rest # 1 /\ cmd' = 1 /\ loopRest' = rest

TraceAgain(s, c, rest) ==
  \/ cmd' \in c .. slot[s].len /\ loopRest' = rest
  \/ rest # 1 /\ cmd' = 1 /\ loopRest' = (IF rest = 0 THEN 0 ELSE rest - 1)
TraceDone(rest) == rest = 1

\* macro_trace_stop, which does nothing unless a macro is running.
TraceEnd ==
  /\ actionType' = "none" /\ cmd' = 0 /\ rfUid' = "none"
  /\ UNCHANGED <<actionData, loopRest>>
TraceStop ==
  IF actionType = "trace" THEN TraceEnd ELSE UNCHANGED workVars

\* macro_record_prepare.
RecordPrepare(s, c) ==
  /\ actionData' = s /\ actionType' = "record" /\ cmd' = c
  /\ UNCHANGED <<loopRest, rfUid>>

\* macro_record_stop: the presses of the menu buttons are cut off the end.  Where they
\* begin depends on the data; a macro of nothing else is cleared.
RecordStop ==
  LET s == actionData IN
  /\ \E n \in 0 .. slot[s].len :
       UpdateSlot(s, IF n = 0 THEN Cleared(slot[s]) ELSE [slot[s] EXCEPT !.len = n])
  /\ actionType' = "none" /\ cmd' = 0
  /\ UNCHANGED <<actionData, loopRest, rfUid, live, pool, rootData>>

-----------------------------------------------------------------------------
(* macroMain with MF_UPDATE, by the branch its switch has taken. *)

Fault(kind) ==
  /\ fault' = kind
  /\ UNCHANGED <<listVars, menuVars, workVars, hotkeyAccept>>

NotPrepared(branch) == IF actionType # branch THEN "stale" ELSE "noCommand"

\* macro_record: up to three commands are added behind the current one.
MainRecord ==
  IF cmd = 0 \/ actionData \notin live THEN Fault(NotPrepared("record"))
  ELSE
    /\ \E n \in slot[actionData].len .. slot[actionData].len + 3 :
         /\ n <= MaxCommands
         /\ slot' = [slot EXCEPT ![actionData].len = n]
         /\ cmd' = n
    /\ UNCHANGED <<live, pool, rootData, managers, menuVars, actionType, actionData,
                   loopRest, rfUid, hotkeyAccept, fault>>

\* The hotkey of a running macro stops it, once it has been released.
MainTrace ==
  IF actionData \notin live THEN Fault("freedSlot")
  ELSE IF rfUid = "freed" THEN Fault("freedRapidfire")
  ELSE
    LET hotkey  == slot[actionData].hotkey
        trigger == hotkey # NoKey /\ pressed = hotkey
    IN
    IF trigger /\ hotkeyAccept THEN
      /\ hotkeyAccept' = FALSE
      /\ TraceStop
      /\ UNCHANGED <<listVars, menuVars, fault>>
    ELSE IF cmd = 0 THEN Fault(NotPrepared("trace"))
    ELSE
      /\ hotkeyAccept' = (hotkeyAccept \/ (hotkey # NoKey /\ ~trigger))
      /\ \/ /\ TraceAgain(actionData, cmd, loopRest)
            /\ UNCHANGED <<actionType, actionData, rfUid>>
         \/ TraceDone(loopRest) /\ TraceStop
      /\ UNCHANGED <<listVars, menuVars, fault>>

\* A hotkey starts the first macro on the list that has it, and runs it up to its
\* first delay; that macro_trace may be done by then is not looked at.
HotkeyStart(s) ==
  IF ~slot[s].mgr THEN Fault("noMacro")
  ELSE IF slot[s].len = 0 THEN Fault("noCommand")
  ELSE
    /\ selectedData' = s
    /\ selectedIndex' = Place(s) - 1
    /\ hotkeyAccept' = FALSE
    /\ TracePrepare(s)
    /\ \/ TraceAgain(s, 1, slot[s].loopNum)
       \/ TraceDone(slot[s].loopNum) /\ cmd' = 0 /\ loopRest' = slot[s].loopNum
    /\ UNCHANGED <<listVars, fault>>

\* The search for a slot with the pressed hotkey runs off the end of the list.
\* Variant: it begins with hotkeyAccept = false.
SearchFailsDisarmed ==
  /\ actionData' = Null
  /\ selectedIndex' = Cardinality(Listed)
  /\ hotkeyAccept' = FALSE
  /\ UNCHANGED <<listVars, selectedData, actionType, cmd, loopRest, rfUid, fault>>

SearchFails ==
  /\ actionData' = Null
  /\ selectedIndex' = Cardinality(Listed)
  /\ UNCHANGED <<listVars, selectedData, actionType, cmd, loopRest, rfUid, hotkeyAccept,
                 fault>>

\* The release of the last hotkey is waited for, with no hotkey in vain, as "all its
\* buttons are pressed" is true.  If the slot has been removed in the menu meanwhile, what
\* is left of it in memory, which may be anything, is compared with the pressed buttons.
HotkeyReleased(s) ==
  IF s \in live THEN {slot[s].hotkey \notin {NoKey, pressed}} ELSE BOOLEAN

MainWait ==
  IF hotkeyAccept THEN
    LET having == {s \in Listed : slot[s].hotkey = pressed} IN
    \/ /\ pressed = NoKey
       /\ UNCHANGED <<listVars, menuVars, workVars, hotkeyAccept, fault>>
    \/ pressed # NoKey /\ having = {} /\ SearchFails
    \/ /\ pressed # NoKey
       /\ \E s \in having : (\A t \in having : Place(s) <= Place(t)) /\ HotkeyStart(s)
  ELSE IF actionData = Null THEN Fault("noSlot")
  ELSE
    /\ hotkeyAccept' \in HotkeyReleased(actionData)
    /\ UNCHANGED <<listVars, menuVars, workVars, fault>>

MacroMain(branch) ==
  \/ branch = "record" /\ MainRecord
  \/ branch = "trace" /\ MainTrace
  \/ branch = "none" /\ MainWait

MainReturns == rootData = Null \/ ~enabled

\* The API is hooked outside the menu while the engine is on.
Interrupt ==
  /\ mode = "game" /\ ~MainReturns
  /\ MacroMain(actionType)
  /\ UNCHANGED <<enabled, mode, message, game, pressed>>

GameEnter ==
  /\ mode = "game" /\ game = "idle" /\ ~MainReturns
  /\ game' = actionType
  /\ UNCHANGED <<listVars, menuVars, workVars, hotkeyAccept, enabled, mode, message,
                 pressed, fault>>

GameRun ==
  /\ mode = "game" /\ game # "idle"
  /\ MacroMain(game)
  /\ game' = "idle"
  /\ UNCHANGED <<enabled, mode, message, pressed>>

Press(k) ==
  /\ k # pressed
  /\ pressed' = k
  /\ UNCHANGED <<listVars, menuVars, workVars, hotkeyAccept, enabled, mode, message,
                 game, fault>>

-----------------------------------------------------------------------------
(* The MacroFire thread: start-up, the toggle message, the menu. *)

Boots(from, to) ==
  /\ mode = from /\ mode' = to
  /\ UNCHANGED <<workVars, hotkeyAccept, game, pressed, fault>>

\* macroIniLoad: a slot for each file named in the ini file; if it cannot be loaded
\* the slot is removed again.
BootAdd ==
  /\ AddSlot
  /\ Boots("boot", IF live' # live THEN "load" ELSE "boot")
  /\ UNCHANGED <<enabled, message>>

BootLoad ==
  /\ \/ Boots("load", "boot") /\ \E r \in Loaded(slot[selectedData]) : UpdateSlot(selectedData, r)
     \/ Boots("load", "failed") /\ \E r \in LoadFailed(slot[selectedData]) : UpdateSlot(selectedData, r)
  /\ UNCHANGED <<live, pool, rootData, menuVars, enabled, message>>

BootRemove ==
  /\ Boots("failed", "boot")
  /\ RemoveSelected
  /\ UNCHANGED <<enabled, message>>

\* The main loop hooks the API of an engine that starts enabled, and says so.
BootDone ==
  /\ Boots("boot", "game")
  /\ enabled' \in BOOLEAN
  /\ message' = IF enabled' THEN "send" ELSE "none"
  /\ UNCHANGED <<listVars, menuVars>>

\* The toggle buttons flip the engine, and every function is sent MF_MS_TOGGLE.
Toggle ==
  /\ mode = "game" /\ message = "none"
  /\ enabled' = ~enabled
  /\ message' = "send"
  /\ UNCHANGED <<listVars, menuVars, workVars, hotkeyAccept, mode, game, pressed, fault>>

\* A running macro is stopped, its rapid fire first.
ToggleMessage ==
  /\ mode = "game" /\ message = "send"
  /\ IF actionType = "trace"
     THEN message' = "stopping" /\ rfUid' = IF rfUid = "live" THEN "freed" ELSE rfUid
     ELSE message' = "none" /\ UNCHANGED rfUid
  /\ UNCHANGED <<listVars, menuVars, actionType, actionData, cmd, loopRest,
                 hotkeyAccept, enabled, mode, game, pressed, fault>>

ToggleStop ==
  /\ message = "stopping"
  /\ message' = "none"
  /\ TraceEnd
  /\ UNCHANGED <<listVars, menuVars, hotkeyAccept, enabled, mode, game, pressed, fault>>

MenuOpen ==
  /\ mode = "game" /\ message = "none"
  /\ mode' = "menu"
  /\ selectedIndex' = IF selectedData \in Listed THEN Place(selectedData) - 1 ELSE 0
  /\ UNCHANGED <<listVars, selectedData, workVars, hotkeyAccept, enabled, message, game,
                 pressed, fault>>

MenuClose ==
  /\ mode = "menu"
  /\ mode' = "game"
  /\ UNCHANGED <<listVars, menuVars, workVars, hotkeyAccept, enabled, message, game,
                 pressed, fault>>

\* mfmenu_control_engine: no message is sent.
MenuEngine ==
  /\ mode = "menu"
  /\ enabled' = ~enabled
  /\ UNCHANGED <<listVars, menuVars, workVars, hotkeyAccept, mode, message, game,
                 pressed, fault>>

\* Which entries macro_menu_update leaves active.
Selecting == mode = "menu" /\ selectedData \in live
Idle      == actionType = "none"
\* Variant: only a slot that is run is protected.
ActingTrace == actionType = "trace" /\ selectedData = actionData
Acting    == ~Idle /\ selectedData = actionData

Stays == UNCHANGED <<hotkeyAccept, enabled, mode, message, game, pressed, fault>>
Quits ==
  /\ mode' = "game"
  /\ UNCHANGED <<hotkeyAccept, enabled, message, game, pressed, fault>>

MenuAdd ==
  /\ mode = "menu"
  /\ AddSlot
  /\ UNCHANGED workVars /\ Stays

MenuRemove ==
  /\ Selecting /\ ~Acting
  /\ RemoveSelected
  /\ UNCHANGED workVars /\ Stays

MenuSlot ==
  /\ Selecting
  /\ \/ /\ slot[selectedData].prev # Null
        /\ selectedData' = slot[selectedData].prev /\ selectedIndex' = selectedIndex - 1
     \/ /\ slot[selectedData].next # Null
        /\ selectedData' = slot[selectedData].next /\ selectedIndex' = selectedIndex + 1
  /\ UNCHANGED <<listVars, workVars>> /\ Stays

Edits(r) ==
  /\ UpdateSlot(selectedData, r)
  /\ UNCHANGED <<live, pool, rootData, menuVars>> /\ Stays

MenuHotkey ==
  /\ Selecting
  /\ \E k \in Keys \cup {NoKey} : Edits([slot[selectedData] EXCEPT !.hotkey = k])
  /\ UNCHANGED workVars

MenuLoop ==
  /\ Selecting /\ ~(actionType = "trace" /\ Acting)
  /\ \E l \in 0 .. MaxLoops : Edits([slot[selectedData] EXCEPT !.loopNum = l])
  /\ UNCHANGED workVars

MenuLoad ==
  /\ Selecting /\ ~Acting
  /\ LET old == Cleared(slot[selectedData]) IN
     \/ \E r \in Loaded(old) : Edits(r)
     \/ \E r \in LoadFailed(old) : Edits(Cleared(r))
  /\ UNCHANGED workVars

\* The editor inserts and removes commands; it begins with one and leaves at least one.
MenuEdit ==
  /\ Selecting /\ ~Acting
  /\ \E n \in 1 .. MaxCommands : Edits([slot[selectedData] EXCEPT !.mgr = TRUE, !.len = n])
  /\ UNCHANGED workVars

MenuClear ==
  /\ Selecting /\ ~Acting /\ slot[selectedData].mgr
  /\ Edits(Cleared(slot[selectedData]))
  /\ UNCHANGED workVars

MenuRecord ==
  /\ Selecting /\ Idle /\ enabled
  /\ UpdateSlot(selectedData, [slot[selectedData] EXCEPT !.mgr = TRUE, !.len = 1])
  /\ RecordPrepare(selectedData, 1)
  /\ UNCHANGED <<live, pool, rootData, menuVars>> /\ Quits

MenuAppend ==
  /\ Selecting /\ Idle /\ enabled
  /\ slot[selectedData].mgr /\ slot[selectedData].len \in 1 .. MaxCommands - 1
  /\ UpdateSlot(selectedData, [slot[selectedData] EXCEPT !.len = @ + 1])
  /\ RecordPrepare(selectedData, slot[selectedData].len + 1)
  /\ UNCHANGED <<live, pool, rootData, menuVars>> /\ Quits

MenuRecordStop ==
  /\ Selecting /\ Acting /\ actionType = "record"
  /\ RecordStop
  /\ UNCHANGED menuVars /\ Stays

MenuRun ==
  /\ Selecting /\ Idle /\ enabled /\ slot[selectedData].mgr
  /\ TracePrepare(selectedData)
  /\ cmd' = IF slot[selectedData].len = 0 THEN 0 ELSE 1
  /\ loopRest' = slot[selectedData].loopNum
  /\ UNCHANGED <<listVars, menuVars>> /\ Quits

MenuStop ==
  /\ Selecting /\ Acting /\ actionType = "trace"
  /\ TraceStop
  /\ UNCHANGED <<listVars, menuVars>> /\ Stays

Boot == BootAdd \/ BootLoad \/ BootRemove \/ BootDone
Menu ==
  \/ MenuOpen \/ MenuClose \/ MenuEngine
  \/ MenuAdd \/ MenuRemove \/ MenuSlot \/ MenuHotkey \/ MenuLoop
  \/ MenuLoad \/ MenuEdit \/ MenuClear
  \/ MenuRecord \/ MenuAppend \/ MenuRecordStop \/ MenuRun \/ MenuStop

Next ==
  /\ fault = "none"
  /\ \/ Boot \/ Toggle \/ ToggleMessage \/ ToggleStop \/ Menu
     \/ Interrupt \/ GameEnter \/ GameRun
     \/ \E k \in Keys \cup {NoKey} : Press(k)

Spec == Init /\ [][Next]_vars

-----------------------------------------------------------------------------
(* The program used with care.  Without one of these restrictions it goes wrong, as *)
(* the README lists.                                                                *)

\* Neither macroMain in a game thread nor macro_trace_stop in the MacroFire thread is
\* interrupted or suspended.
Undisturbed ==
  /\ game # "idle" => game' = "idle"
  /\ message = "stopping" => message' = "none"

\* Nothing that runs macro_clear on a slot in use is done to one that has neighbours.
ClearsNoNeighbour ==
  live' = live => \A s \in live : slot'[s].next = slot[s].next /\ slot'[s].prev = slot[s].prev

\* Only slots with a macro, and one that is repeated, have a hotkey.
HotkeysRepeat ==
  \A s \in live' : slot'[s].hotkey # NoKey => slot'[s].mgr /\ slot'[s].loopNum # 1

CarefulNext == Next /\ Undisturbed /\ ClearsNoNeighbour /\ HotkeysRepeat
CarefulSpec == Init /\ [][CarefulNext]_vars

\* The pad is read again and again, and a delay runs out; the MacroFire thread comes back
\* from macro_trace_stop.
Advances == (Interrupt \/ GameRun) /\ (cmd' # cmd \/ loopRest' # loopRest \/ actionType' # actionType)
CarefulFairSpec ==
  CarefulSpec /\ WF_vars(CarefulNext /\ Advances) /\ WF_vars(CarefulNext /\ ToggleStop)

-----------------------------------------------------------------------------
\* The slots in memory are exactly those on the list, which can be walked in both
\* directions, and the menu shows the selected one with its number.
WellLinked ==
  /\ Listed = live
  /\ (live = {}) = (rootData = Null) /\ (live # {} => pool)
  /\ rootData # Null => slot[rootData].prev = Null
  /\ \A s \in live : slot[s].next # Null => slot[slot[s].next].prev = s
  /\ IF live = {} THEN selectedData = Null ELSE selectedData \in live
  /\ mode = "menu" /\ live # {} => selectedIndex = Place(selectedData) - 1

\* What is being recorded or run is a slot on the list that has a macro, and temp->cmd
\* is a command of that macro (the last one in a recording).  No menu operation takes
\* the slot or the macro away, and no rapid fire outlives the run it was made for.
ActionPrepared ==
  /\ actionType # "none" => /\ actionData \in live /\ slot[actionData].mgr
                            /\ cmd \in 1 .. slot[actionData].len
  /\ actionType = "record" => cmd = slot[actionData].len
  /\ actionType # "trace" => rfUid = "none"

\* macroMain uses no slot, macro, command or rapid fire that is not there; what it reads
\* of a removed slot at macro.c:231 is anything, and does no more harm than that.
NoFault == fault = "none"

\* A macro that is to be repeated a number of times ends, as long as it is left alone.
TraceFinishes ==
  (actionType = "trace" /\ loopRest # 0 /\ mode = "game" /\ enabled)
    ~> (actionType # "trace" \/ mode # "game" \/ ~enabled)

\* The slots as the user knows them: a sequence, of which one is selected.
SlotSequence == [n \in 1 .. Cardinality(Listed) |-> Nth[n]]
ListView == INSTANCE SlotList WITH list <- SlotSequence, selected <- selectedData
ImplementsList == ListView!Spec

-----------------------------------------------------------------------------
(* What the documents say and the program does not do. *)

\* manual_macro.txt: "Clear" clears the recorded macro, "Load" loads one; slots are
\* added and removed by "Add macro" and "Remove macro" only.
OnlyRemoveUnlists == [][live' = live => Listed' = Listed]_vars

\* The comment in macro_trace: it is called with the trace prepared, so that there is a
\* command to run.
TraceHasCommand == fault # "noCommand"

-----------------------------------------------------------------------------
\* Slots are interchangeable: memory may be handed out in any order.
SlotSymmetry ==
  {[s \in Slots |-> f[s]] : f \in {g \in [Slots -> Slots] : {g[s] : s \in Slots} = Slots}}
=============================================================================
