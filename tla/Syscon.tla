------------------------------- MODULE Syscon -------------------------------
(***************************************************************************)
(* The engine switch and the syscon debug-handler chain (src/mfmain.c).    *)
(*                                                                         *)
(* The kernel keeps one set of syscon debug handlers.  MacroFire installs  *)
(* its own with mfHook and removes it with mfUnhook, and it has replaced   *)
(* the exported sceSysconSetDebugHandlers by mfSysconSetDebugHandlers, so  *)
(* that the handlers another plugin asks for are remembered                *)
(* (st_syscon_chain_handlers) and called from MacroFire's own.             *)
(*                                                                         *)
(* Processes: the MacroFire thread (mf_main, mfMenuMain), the threads of   *)
(* the other plugins, and the syscon interrupt.  A thread may be preempted *)
(* between any two accesses to shared state; an interrupt runs to its end. *)
(***************************************************************************)
EXTENDS Naturals

CONSTANTS
  Plugins,      \* the other plugins; a plugin's handlers are named after it
  Buttons,      \* physical buttons
  MenuMasks,    \* button sets the user may configure for the menu
  ToggleMasks,  \* button sets the user may configure for the engine toggle
  MaxCalls      \* bound: calls of sceSysconSetDebugHandlers by the plugins

None == "none"          \* a NULL handler
MF   == "macrofire"     \* &st_syscon_handlers

ASSUME PluginsAssumption ==
  /\ None \notin Plugins
  /\ MF \notin Plugins
ASSUME MasksAssumption ==
  /\ MenuMasks \subseteq SUBSET Buttons
  /\ ToggleMasks \subseteq SUBSET Buttons
ASSUME MaxCallsAssumption == MaxCalls \in Nat

Handlers == Plugins \cup {None}     \* what a plugin can pass or own

\* When handlers are called for a packet: before it is sent, and when the answer has come, be
\* it the one to a reading of the pad or another.  As before_tx, so handler1 and handler4.
Answers == {"pad", "other"}
Moments == {"before"} \cup Answers

VARIABLES
  enabled,        \* st_is_enabled
  hooked,         \* st_hooked
  patched,        \* hooktable[] entries point at MacroFire's functions
  chain,          \* st_syscon_chain_handlers
  registered,     \* the kernel's debug handlers
  toggleButtons,  \* st_toggle_buttons
  menuButtons,    \* st_menu_buttons
  waitRelease,    \* wait_toggle_buttons_release
  running,        \* gRunning
  pressed,        \* the local "buttons" of mf_main
  pc,             \* control point of the MacroFire thread
  ret,            \* where mfHook or mfUnhook returns to
  suspended,      \* the menu has suspended the other threads
  plugin,         \* control point of each plugin inside the hooked API
  arg,            \* the handlers each plugin passed
  calls,          \* calls made so far, all plugins together
  held,           \* buttons the user holds
  rawPad,         \* st_raw_pad
  sampled,        \* did the kernel read the pad since the last poll, and where to
  lastCalled,     \* the latest moment of a packet, and whose handler was called
  armed           \* history: since the last flip the toggle combination was seen
                  \* released, or the poll read a raw pad nobody was writing

mainVars   == <<enabled, hooked, patched, toggleButtons, menuButtons,
                waitRelease, pressed, pc, ret, suspended>>
pluginVars == <<plugin, arg, calls>>
inputVars  == <<held, rawPad, sampled, lastCalled>>
vars == <<mainVars, chain, registered, running, pluginVars, inputVars, armed>>

HookPCs   == {"hookTest", "hookSet", "hookDone"}
UnhookPCs == {"unhookTest", "unhookClear", "unhookDone"}
MainPCs   == {"ready", "top", "sleep", "sync", "menuTest", "menu", "menuLeave",
              "resume", "shutdown", "restoreTest", "restore", "done"}
             \cup HookPCs \cup UnhookPCs
NoReturn  == "none"     \* outside mfHook and mfUnhook
Returns   == {"menuTest", "menu", "resume", "restoreTest"}
PluginPCs == {"idle", "store", "register", "test", "clear"}

TypeOK ==
  /\ enabled \in BOOLEAN /\ hooked \in BOOLEAN /\ patched \in BOOLEAN
  /\ chain \in Handlers
  /\ registered \in Handlers \cup {MF}
  /\ toggleButtons \in SUBSET Buttons /\ menuButtons \in SUBSET Buttons
  /\ waitRelease \in BOOLEAN /\ running \in BOOLEAN
  /\ pressed \in SUBSET Buttons
  /\ pc \in MainPCs /\ suspended \in BOOLEAN
  /\ ret \in IF pc \in HookPCs \cup UnhookPCs THEN Returns ELSE {NoReturn}
  /\ plugin \in [Plugins -> PluginPCs]
  /\ arg \in [Plugins -> Handlers]
  /\ calls \in 0 .. MaxCalls
  /\ held \in SUBSET Buttons /\ rawPad \in SUBSET Buttons
  /\ sampled \in {"no", "kernel", "raw"} /\ armed \in BOOLEAN
  /\ lastCalled \in [at : Moments, handlers : Handlers]

-----------------------------------------------------------------------------
(* The MacroFire thread. *)

\* module_start has cleared the handlers of earlier plugins and hooked the API;
\* gRunning is already FALSE when mfMenuInit failed.
Init ==
  /\ enabled = FALSE /\ hooked = FALSE /\ patched = FALSE
  /\ chain = None /\ registered = None
  /\ toggleButtons = {} /\ menuButtons \in MenuMasks
  /\ waitRelease = FALSE /\ running \in BOOLEAN
  /\ pressed = {} /\ pc = "ready" /\ ret = NoReturn /\ suspended = FALSE
  /\ plugin = [p \in Plugins |-> "idle"]
  /\ arg = [p \in Plugins |-> None]
  /\ calls = 0
  /\ held = {} /\ rawPad = {} /\ sampled = "no"
  /\ lastCalled = [at |-> "before", handlers |-> None] /\ armed = TRUE

IsHeld(mask, buttons) == mask \subseteq buttons

\* mf_ready: the ini file decides the initial state of the engine and the buttons.
Ready ==
  /\ pc = "ready"
  /\ enabled' \in BOOLEAN
  /\ toggleButtons' \in ToggleMasks
  /\ menuButtons' \in MenuMasks
  /\ pc' = "top"
  /\ UNCHANGED <<hooked, patched, waitRelease, pressed, ret, suspended, chain,
                 registered, running, pluginVars, inputVars, armed>>

LoopTop ==
  /\ pc = "top"
  /\ pc' = IF running THEN "sleep" ELSE "shutdown"
  /\ sampled' = "no" /\ pressed' = {}
  /\ UNCHANGED <<enabled, hooked, patched, toggleButtons, menuButtons, waitRelease, ret,
                 suspended, chain, registered, running, pluginVars, held, rawPad, lastCalled,
                 armed>>

\* mf_get_current_ctrl: the raw pad stored by the interrupt, or the kernel's buffer.
\* Variant for the mutation runs: the raw pad even when nobody writes it.
CurrentCtrlAlwaysRaw == rawPad

UsesRawPad  == chain # None \/ hooked
CurrentCtrl == IF UsesRawPad THEN rawPad ELSE held

\* Variant: every poll that finds the toggle buttons held flips the engine.
PollWithoutRelease ==
  /\ pc = "sleep"
  /\ sampled # "no"
  /\ pressed' = CurrentCtrl
  /\ LET toggling == toggleButtons # {} /\ IsHeld(toggleButtons, pressed')
     IN /\ enabled' = (IF toggling THEN ~enabled ELSE enabled)
        /\ waitRelease' = (IF toggleButtons = {} THEN waitRelease ELSE toggling)
        /\ armed' = (IF toggling THEN ~IsHeld(toggleButtons, held)
                     ELSE armed \/ (UsesRawPad /\ sampled # "raw"))
  /\ pc' = "sync"
  /\ UNCHANGED <<hooked, patched, toggleButtons, menuButtons, ret, suspended,
                 chain, registered, running, pluginVars, inputVars>>

\* The 50 ms delay is longer than a vblank, at which the kernel reads the pad.
Poll ==
  /\ pc = "sleep"
  /\ sampled # "no"
  /\ pressed' = CurrentCtrl
  /\ LET toggling == toggleButtons # {} /\ IsHeld(toggleButtons, pressed')
         flip     == toggling /\ ~waitRelease
     IN /\ enabled' = (IF flip THEN ~enabled ELSE enabled)
        /\ waitRelease' = (IF toggleButtons = {} THEN waitRelease ELSE toggling)
        /\ armed' = (IF flip THEN ~IsHeld(toggleButtons, held)
                     ELSE armed \/ (UsesRawPad /\ sampled # "raw"))
  /\ pc' = "sync"
  /\ UNCHANGED <<hooked, patched, toggleButtons, menuButtons, ret, suspended,
                 chain, registered, running, pluginVars, inputVars>>

Goto(l) ==
  /\ pc' = l
  /\ UNCHANGED <<enabled, hooked, patched, toggleButtons, menuButtons, waitRelease,
                 pressed, suspended>>

EnterHook(return) ==
  IF hooked THEN Goto(return) /\ UNCHANGED ret ELSE Goto("hookTest") /\ ret' = return
EnterUnhook(return) ==
  IF hooked THEN Goto("unhookTest") /\ ret' = return ELSE Goto(return) /\ UNCHANGED ret

\* Variant: a disabled engine stays hooked.
SyncHooksOnly ==
  /\ pc = "sync"
  /\ \/ ~hooked /\ enabled /\ EnterHook("menuTest")
     \/ (hooked \/ ~enabled) /\ Goto("menuTest") /\ UNCHANGED ret
  /\ UNCHANGED <<chain, registered, running, pluginVars, inputVars, armed>>

Sync ==
  /\ pc = "sync"
  /\ \/ ~hooked /\ enabled /\ EnterHook("menuTest")
     \/ hooked /\ ~enabled /\ EnterUnhook("menuTest")
     \/ hooked = enabled /\ Goto("menuTest") /\ UNCHANGED ret
  /\ UNCHANGED <<chain, registered, running, pluginVars, inputVars, armed>>

\* mfHook: patch the API table, take the handlers unless they are chained already.
HookTest ==
  /\ pc = "hookTest"
  /\ patched' = TRUE
  /\ pc' = IF chain = None THEN "hookSet" ELSE "hookDone"
  /\ UNCHANGED <<enabled, hooked, toggleButtons, menuButtons, waitRelease, pressed,
                 ret, suspended, chain, registered, running, pluginVars, inputVars,
                 armed>>

HookSet ==
  /\ pc = "hookSet"
  /\ registered' = MF
  /\ Goto("hookDone")
  /\ UNCHANGED <<ret, chain, running, pluginVars, inputVars, armed>>

HookDone ==
  /\ pc = "hookDone"
  /\ hooked' = TRUE
  /\ pc' = ret /\ ret' = NoReturn
  /\ UNCHANGED <<enabled, patched, toggleButtons, menuButtons, waitRelease, pressed,
                 suspended, chain, registered, running, pluginVars, inputVars,
                 armed>>

\* Variant: mfUnhook drops the handlers even if another plugin's are chained.
UnhookTestAlwaysClears ==
  /\ pc = "unhookTest"
  /\ Goto("unhookClear")
  /\ UNCHANGED <<ret, chain, registered, running, pluginVars, inputVars, armed>>

\* mfUnhook: drop the handlers unless another plugin's are chained, restore the API.
UnhookTest ==
  /\ pc = "unhookTest"
  /\ Goto(IF chain = None THEN "unhookClear" ELSE "unhookDone")
  /\ UNCHANGED <<ret, chain, registered, running, pluginVars, inputVars, armed>>

UnhookClear ==
  /\ pc = "unhookClear"
  /\ registered' = None
  /\ Goto("unhookDone")
  /\ UNCHANGED <<ret, chain, running, pluginVars, inputVars, armed>>

UnhookDone ==
  /\ pc = "unhookDone"
  /\ patched' = FALSE
  /\ hooked' = FALSE
  /\ pc' = ret /\ ret' = NoReturn
  /\ UNCHANGED <<enabled, toggleButtons, menuButtons, waitRelease, pressed,
                 suspended, chain, registered, running, pluginVars, inputVars, armed>>

-----------------------------------------------------------------------------
(* The menu, as far as it touches the engine. *)

\* The menu does not open, or gives up for want of memory.
MenuSkip ==
  /\ pc = "menuTest"
  /\ Goto("top")
  /\ UNCHANGED <<ret, chain, registered, running, pluginVars, inputVars, armed>>

\* The thread list cannot be had: straight to DESTROY, with nothing unhooked.
MenuAbort ==
  /\ pc = "menuTest"
  /\ IsHeld(menuButtons, pressed)
  /\ Goto("menuLeave")
  /\ UNCHANGED <<ret, chain, registered, running, pluginVars, inputVars, armed>>

MenuOpen ==
  /\ pc = "menuTest"
  /\ IsHeld(menuButtons, pressed)
  /\ suspended' = TRUE
  /\ IF enabled /\ hooked THEN pc' = "unhookTest" /\ ret' = "menu"
     ELSE pc' = "menu" /\ UNCHANGED ret
  /\ UNCHANGED <<enabled, hooked, patched, toggleButtons, menuButtons, waitRelease,
                 pressed, chain, registered, running, pluginVars, inputVars, armed>>

\* mfmenu_control_engine: mfEnable or mfDisable, with no hooking and no message.
MenuToggleEngine ==
  /\ pc = "menu"
  /\ enabled' = ~enabled
  /\ UNCHANGED <<hooked, patched, toggleButtons, menuButtons, waitRelease, pressed,
                 pc, ret, suspended, chain, registered, running, pluginVars,
                 inputVars, armed>>

\* mfmenu_root_menu, MF_MM_TERM: the configured buttons take effect.
MenuExit ==
  /\ pc = "menu"
  /\ menuButtons' \in MenuMasks
  /\ toggleButtons' \in ToggleMasks
  /\ armed' = (armed \/ ~IsHeld(toggleButtons', held))
  /\ pc' = "menuLeave"
  /\ UNCHANGED <<enabled, hooked, patched, waitRelease, pressed, ret, suspended,
                 chain, registered, running, pluginVars, inputVars>>

MenuLeave ==
  /\ pc = "menuLeave"
  /\ IF enabled THEN EnterHook("resume") ELSE Goto("resume") /\ UNCHANGED ret
  /\ UNCHANGED <<chain, registered, running, pluginVars, inputVars, armed>>

MenuResume ==
  /\ pc = "resume"
  /\ suspended' = FALSE
  /\ pc' = "top"
  /\ UNCHANGED <<enabled, hooked, patched, toggleButtons, menuButtons, waitRelease,
                 pressed, ret, chain, registered, running, pluginVars, inputVars,
                 armed>>

-----------------------------------------------------------------------------
(* Shutdown: mf_shutdown unhooks and gives the handlers back to the plugin. *)

Shutdown ==
  /\ pc = "shutdown"
  /\ EnterUnhook("restoreTest")
  /\ UNCHANGED <<chain, registered, running, pluginVars, inputVars, armed>>

RestoreTest ==
  /\ pc = "restoreTest"
  /\ Goto(IF chain # None THEN "restore" ELSE "done")
  /\ UNCHANGED <<ret, chain, registered, running, pluginVars, inputVars, armed>>

Restore ==
  /\ pc = "restore"
  /\ registered' = chain
  /\ Goto("done")
  /\ UNCHANGED <<ret, chain, running, pluginVars, inputVars, armed>>

ModuleStop ==
  /\ running
  /\ running' = FALSE
  /\ UNCHANGED <<mainVars, chain, registered, pluginVars, inputVars, armed>>

-----------------------------------------------------------------------------
(* Another plugin inside mfSysconSetDebugHandlers. *)

CallSet(p, h) ==
  /\ plugin[p] = "idle"
  /\ ~suspended
  /\ calls < MaxCalls
  /\ calls' = calls + 1
  /\ plugin' = [plugin EXCEPT ![p] = "store"]
  /\ arg' = [arg EXCEPT ![p] = h]
  /\ UNCHANGED <<mainVars, chain, registered, running, inputVars, armed>>

PluginGoto(p, from, to) ==
  /\ plugin[p] = from
  /\ ~suspended
  /\ plugin' = [plugin EXCEPT ![p] = to]
  /\ UNCHANGED <<mainVars, arg, calls, running, inputVars, armed>>

\* Variant: the chain records MacroFire's own handlers.
StoreChainOwnHandlers(p) ==
  /\ PluginGoto(p, "store", IF arg[p] # None THEN "register" ELSE "test")
  /\ chain' = IF arg[p] # None THEN MF ELSE None
  /\ UNCHANGED registered

StoreChain(p) ==
  /\ PluginGoto(p, "store", IF arg[p] # None THEN "register" ELSE "test")
  /\ chain' = arg[p]
  /\ UNCHANGED registered

RegisterOwn(p) ==
  /\ PluginGoto(p, "register", "idle")
  /\ registered' = MF
  /\ UNCHANGED chain

TestHooked(p) ==
  /\ PluginGoto(p, "test", IF hooked THEN "idle" ELSE "clear")
  /\ UNCHANGED <<chain, registered>>

ClearHandlers(p) ==
  /\ PluginGoto(p, "clear", "idle")
  /\ registered' = None
  /\ UNCHANGED chain

-----------------------------------------------------------------------------
(* The interrupt and the user. *)

\* mf_syscon_handler_transmit, which passes every packet on.  Handlers that the kernel holds
\* itself are called by it.
Passed == IF registered = MF THEN chain ELSE registered
Transmit ==
  /\ lastCalled' = [at |-> "before", handlers |-> Passed]
  /\ UNCHANGED <<mainVars, chain, registered, running, pluginVars, held, rawPad, sampled, armed>>

\* Variant: MacroFire's handler passes packets on only while it is hooked.
ReceivedIfHooked(answer) ==
  IF registered # MF THEN registered ELSE IF hooked /\ answer = "pad" THEN chain ELSE None
\* mf_syscon_handler_recieve returns early if the packet is not one that reads the pad, or was
\* answered by another command: the chained handlers are not called then.
Received(answer) ==
  IF registered = MF /\ answer = "other" THEN None ELSE Passed

\* The answer to a packet.  That of the pad is kept in st_raw_pad; the kernel has its own.
Receive(answer) ==
  /\ lastCalled' = [at |-> answer, handlers |-> Received(answer)]
  /\ IF answer = "pad"
     THEN /\ sampled' = IF registered = MF THEN "raw" ELSE "kernel"
          /\ rawPad' = IF registered = MF THEN held ELSE rawPad
     ELSE UNCHANGED <<sampled, rawPad>>
  /\ UNCHANGED <<mainVars, chain, registered, running, pluginVars, held, armed>>

\* The user presses or releases one button.
MoveButton(b) ==
  /\ held' = (IF b \in held THEN held \ {b} ELSE held \cup {b})
  /\ armed' = (armed \/ ~IsHeld(toggleButtons, held'))
  /\ UNCHANGED <<mainVars, chain, registered, running, pluginVars, rawPad, sampled,
                 lastCalled>>

MainStep ==
  \/ Ready \/ LoopTop \/ Poll \/ Sync
  \/ HookTest \/ HookSet \/ HookDone
  \/ UnhookTest \/ UnhookClear \/ UnhookDone
  \/ MenuSkip \/ MenuAbort \/ MenuOpen \/ MenuLeave \/ MenuResume
  \/ Shutdown \/ RestoreTest \/ Restore

PluginStep(p) ==
  \/ StoreChain(p) \/ RegisterOwn(p) \/ TestHooked(p) \/ ClearHandlers(p)

Next ==
  \/ MainStep
  \/ MenuToggleEngine \/ MenuExit
  \/ ModuleStop
  \/ \E p \in Plugins : PluginStep(p) \/ \E h \in {p, None} : CallSet(p, h)
  \/ Transmit \/ \E answer \in Answers : Receive(answer)
  \/ \E b \in Buttons : MoveButton(b)

Spec == Init /\ [][Next]_vars

-----------------------------------------------------------------------------
(* The same system when no two calls that (un)register handlers overlap. *)

MainCalling == pc \in HookPCs \cup UnhookPCs \cup {"restoreTest", "restore"}
Calling(p)  == plugin[p] # "idle"

OneCallAtATime ==
  /\ \A p, q \in Plugins : Calling(p) /\ Calling(q) => p = q
  /\ MainCalling => \A p \in Plugins : ~Calling(p)

SerialNext == Next /\ OneCallAtATime'
SerialSpec == Init /\ [][SerialNext]_vars

\* The threads run on and the kernel keeps reading the pad; the user owes nothing.
SerialFairness ==
  /\ WF_vars(MainStep /\ OneCallAtATime')
  /\ WF_vars(Receive("pad") /\ OneCallAtATime')
  /\ \A p \in Plugins : WF_vars(PluginStep(p) /\ OneCallAtATime')

FairSerialSpec == SerialSpec /\ SerialFairness

-----------------------------------------------------------------------------
AtRest == ~MainCalling /\ \A p \in Plugins : ~Calling(p)

\* Between calls the kernel holds MacroFire's handlers exactly when the engine is
\* hooked or another plugin's handlers are chained; after shutdown the plugin's own
\* may be there.  mfHook, mfUnhook and mfSysconSetDebugHandlers each maintain one
\* side of this, from tests of the variable the other side writes.
HandlersMatch ==
  AtRest =>
    IF chain = None THEN registered = (IF hooked THEN MF ELSE None)
    ELSE registered = MF \/ (pc = "done" /\ registered = chain)

\* The comment in module_start: handlers another plugin registers are recorded, and
\* MacroFire's, which call them, are registered.  So between calls they are reachable.
ChainedHandlersReachable ==
  AtRest /\ chain # None => registered \in {MF, chain}

\* The menu is drawn with the API restored and every other thread suspended, and the
\* main loop goes on with the hooks as the engine switch says, although the menu
\* unhooks and rehooks by mfIsEnabled (which it may change) and not by st_hooked.
MenuKeepsHooks ==
  /\ pc = "menu" => ~hooked /\ ~patched /\ suspended
  /\ pc \in {"menuTest", "resume"} => hooked = enabled /\ patched = enabled
  /\ pc \in {"sync", "shutdown"} => patched = hooked

\* One press of the toggle buttons flips the engine once: between two flips by the
\* main loop the combination was released, whichever of the two pads was read.  The
\* one exception is a poll between a plugin's store of st_syscon_chain_handlers and
\* the first interrupt after its registration, which reads a raw pad of the past.
FlipNeedsRelease ==
  [][pc = "sleep" /\ enabled' # enabled => armed]_vars

ToggleHeld ==
  toggleButtons # {} /\ IsHeld(toggleButtons, held) /\ ~waitRelease /\ running

\* Toggle buttons that are held long enough flip the engine, hooked or not: the
\* pad the main loop reads is never one that the interrupt has stopped writing.
ToggleAnswered ==
  \A e \in BOOLEAN :
    (ToggleHeld /\ enabled = e /\ pc \in {"top", "sleep"})
      ~> (enabled # e \/ ~ToggleHeld \/ pc = "menu")

\* The owner of the debug handlers, as the other plugins know it.
Owner == IF registered = MF THEN chain ELSE registered
Calls == [p \in Plugins |-> Calling(p)]

\* For the packets that read the pad, and before any packet is sent, the other plugins see what
\* they would see if MacroFire were not there.
ChainView == INSTANCE DebugHandlers WITH
  owner <- Owner, call <- Calls, request <- arg, Sure <- {"before", "pad"}
TransparentChain == ChainView!Spec

\* The comment in module_start: MacroFire's debug handlers call those that it has recorded.  So
\* the other plugins are called for the answer to every packet.
WholeView == INSTANCE DebugHandlers WITH
  owner <- Owner, call <- Calls, request <- arg, Sure <- Moments
ChainCalled == WholeView!Spec
=============================================================================
