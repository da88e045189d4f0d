---------------------------- MODULE SysconProofs ----------------------------
(***************************************************************************)
(* Proofs about Syscon for any plugins, buttons and number of calls.       *)
(*                                                                         *)
(* TypeCorrect and MenuKeepsHooksCorrect hold whatever the interleaving;   *)
(* HandlersMatchCorrect and ChainRefines need the calls that register      *)
(* handlers not to overlap (SerialSpec): the run "race" shows why.         *)
(***************************************************************************)
EXTENDS Syscon, TLAPS

USE DEF None, MF, Handlers, NoReturn

ReturnOK == ret \in IF pc \in HookPCs \cup UnhookPCs THEN Returns ELSE {NoReturn}
LastOK   == lastCalled \in [at : Moments, handlers : Handlers]

\* module_start leaves every variable with a value of its type.
LEMMA InitTypeOK == Init => TypeOK
<1> SUFFICES ASSUME Init PROVE TypeOK
  OBVIOUS
<1> USE DEF Init
<1>1. /\ enabled \in BOOLEAN /\ hooked \in BOOLEAN /\ patched \in BOOLEAN
      /\ waitRelease \in BOOLEAN /\ running \in BOOLEAN
      /\ suspended \in BOOLEAN /\ armed \in BOOLEAN
  OBVIOUS
<1>2. chain \in Handlers /\ registered \in Handlers \cup {MF} /\ LastOK
  BY DEF LastOK, Moments
<1>3. /\ toggleButtons \in SUBSET Buttons /\ menuButtons \in SUBSET Buttons
      /\ pressed \in SUBSET Buttons /\ held \in SUBSET Buttons /\ rawPad \in SUBSET Buttons
  BY MasksAssumption
<1>4. pc \in MainPCs /\ ReturnOK
  BY DEF MainPCs, HookPCs, UnhookPCs, ReturnOK
<1>5. plugin \in [Plugins -> PluginPCs] /\ arg \in [Plugins -> Handlers]
  BY DEF PluginPCs
<1>6. calls \in 0 .. MaxCalls
  BY MaxCallsAssumption
<1>7. sampled \in {"no", "kernel", "raw"}
  OBVIOUS
<1> QED
  BY <1>1, <1>2, <1>3, <1>4, <1>5, <1>6, <1>7 DEF TypeOK, ReturnOK, LastOK

\* Every step, of whichever thread, keeps the types.
LEMMA NextTypeOK == TypeOK /\ [Next]_vars => TypeOK'
<1> SUFFICES ASSUME TypeOK, [Next]_vars PROVE TypeOK'
  OBVIOUS
<1> USE MasksAssumption, MaxCallsAssumption
    DEF TypeOK, MainPCs, HookPCs, UnhookPCs, Returns, PluginPCs,
        mainVars, pluginVars, inputVars, ReturnOK, LastOK
<1>1. CASE MainStep
  <2>1. CASE Ready BY <2>1 DEF Ready
  <2>2. CASE LoopTop BY <2>2 DEF LoopTop
  <2>3. CASE Poll
    <3>1. pressed' \in SUBSET Buttons
      BY <2>3 DEF Poll, CurrentCtrl
    <3>2. (enabled \in BOOLEAN /\ waitRelease \in BOOLEAN)'
      <4>1. enabled' \in {enabled, ~enabled}
        BY <2>3 DEF Poll
      <4>2. waitRelease' \in BOOLEAN
        BY <2>3 DEF Poll, IsHeld
      <4> QED BY <4>1, <4>2
    <3>3. armed' \in BOOLEAN
      BY <2>3 DEF Poll, IsHeld, UsesRawPad
    <3>4. (pc \in MainPCs /\ ReturnOK)'
      BY <2>3 DEF Poll
    <3>5. UNCHANGED <<hooked, patched, toggleButtons, menuButtons, suspended,
                      chain, registered, running, plugin, arg, calls, held, rawPad,
                      sampled, lastCalled>>
      BY <2>3 DEF Poll
    <3> QED BY <3>1, <3>2, <3>3, <3>4, <3>5
  <2>4. CASE Sync
    <3>1. (pc \in MainPCs /\ ReturnOK)'
      BY <2>4 DEF Sync, EnterHook, EnterUnhook, Goto
    <3>2. UNCHANGED <<enabled, hooked, patched, toggleButtons, menuButtons, waitRelease, pressed,
                      suspended, chain, registered, running, plugin, arg, calls, held, rawPad,
                      sampled, lastCalled, armed>>
      BY <2>4 DEF Sync, EnterHook, EnterUnhook, Goto
    <3> QED BY <3>1, <3>2
  <2>5. CASE HookTest BY <2>5 DEF HookTest
  <2>6. CASE HookSet BY <2>6 DEF HookSet, Goto
  <2>7. CASE HookDone BY <2>7 DEF HookDone
  <2>8. CASE UnhookTest BY <2>8 DEF UnhookTest, Goto
  <2>9. CASE UnhookClear BY <2>9 DEF UnhookClear, Goto
  <2>10. CASE UnhookDone
    <3>1. (hooked \in BOOLEAN /\ patched \in BOOLEAN /\ suspended \in BOOLEAN /\ running \in BOOLEAN)'
      BY <2>10 DEF UnhookDone
    <3>2. (enabled \in BOOLEAN /\ waitRelease \in BOOLEAN /\ armed \in BOOLEAN)'
      BY <2>10 DEF UnhookDone
    <3>3. (/\ chain \in Handlers /\ registered \in Handlers \cup {MF}
          /\ toggleButtons \in SUBSET Buttons /\ menuButtons \in SUBSET Buttons
          /\ pressed \in SUBSET Buttons /\ pc \in MainPCs /\ ReturnOK
          /\ plugin \in [Plugins -> PluginPCs] /\ arg \in [Plugins -> Handlers]
          /\ calls \in 0 .. MaxCalls /\ held \in SUBSET Buttons /\ rawPad \in SUBSET Buttons
          /\ sampled \in {"no", "kernel", "raw"} /\ LastOK)'
      BY <2>10 DEF UnhookDone
    <3> QED BY <3>1, <3>2, <3>3
  <2>11. CASE MenuSkip BY <2>11 DEF MenuSkip, Goto
  <2>12. CASE MenuAbort BY <2>12 DEF MenuAbort, Goto
  <2>13. CASE MenuOpen BY <2>13 DEF MenuOpen
  <2>14. CASE MenuLeave BY <2>14 DEF MenuLeave, EnterHook, Goto
  <2>15. CASE MenuResume
    <3>1. (hooked \in BOOLEAN /\ patched \in BOOLEAN /\ suspended \in BOOLEAN /\ running \in BOOLEAN)'
      BY <2>15 DEF MenuResume
    <3>2. (enabled \in BOOLEAN /\ waitRelease \in BOOLEAN /\ armed \in BOOLEAN)'
      BY <2>15 DEF MenuResume
    <3>3. (/\ chain \in Handlers /\ registered \in Handlers \cup {MF}
          /\ toggleButtons \in SUBSET Buttons /\ menuButtons \in SUBSET Buttons
          /\ pressed \in SUBSET Buttons /\ pc \in MainPCs /\ ReturnOK
          /\ plugin \in [Plugins -> PluginPCs] /\ arg \in [Plugins -> Handlers]
          /\ calls \in 0 .. MaxCalls /\ held \in SUBSET Buttons /\ rawPad \in SUBSET Buttons
          /\ sampled \in {"no", "kernel", "raw"} /\ LastOK)'
      BY <2>15 DEF MenuResume
    <3> QED BY <3>1, <3>2, <3>3
  <2>16. CASE Shutdown BY <2>16 DEF Shutdown, EnterUnhook, Goto
  <2>17. CASE RestoreTest BY <2>17 DEF RestoreTest, Goto
  <2>18. CASE Restore BY <2>18 DEF Restore, Goto
  <2> QED
    BY <1>1, <2>1, <2>2, <2>3, <2>4, <2>5, <2>6, <2>7, <2>8, <2>9,
       <2>10, <2>11, <2>12, <2>13, <2>14, <2>15, <2>16, <2>17, <2>18 DEF MainStep
<1>2. CASE MenuToggleEngine \/ MenuExit \/ ModuleStop
  <2>1. CASE MenuToggleEngine BY <2>1 DEF MenuToggleEngine
  <2>2. CASE MenuExit BY <2>2 DEF MenuExit
  <2>3. CASE ModuleStop
    <3>1. (hooked \in BOOLEAN /\ patched \in BOOLEAN /\ suspended \in BOOLEAN /\ running \in BOOLEAN)'
      BY <2>3 DEF ModuleStop
    <3>2. (enabled \in BOOLEAN /\ waitRelease \in BOOLEAN /\ armed \in BOOLEAN)'
      BY <2>3 DEF ModuleStop
    <3>3. (/\ chain \in Handlers /\ registered \in Handlers \cup {MF}
          /\ toggleButtons \in SUBSET Buttons /\ menuButtons \in SUBSET Buttons
          /\ pressed \in SUBSET Buttons /\ pc \in MainPCs /\ ReturnOK
          /\ plugin \in [Plugins -> PluginPCs] /\ arg \in [Plugins -> Handlers]
          /\ calls \in 0 .. MaxCalls /\ held \in SUBSET Buttons /\ rawPad \in SUBSET Buttons
          /\ sampled \in {"no", "kernel", "raw"} /\ LastOK)'
      BY <2>3 DEF ModuleStop
    <3> QED BY <3>1, <3>2, <3>3
  <2> QED BY <1>2, <2>1, <2>2, <2>3
<1>3. ASSUME NEW p \in Plugins, PluginStep(p) PROVE TypeOK'
  BY <1>3 DEF PluginStep, StoreChain, RegisterOwn, TestHooked, ClearHandlers, PluginGoto
<1>4. ASSUME NEW p \in Plugins, NEW h \in {p, None}, CallSet(p, h) PROVE TypeOK'
  BY <1>4 DEF CallSet
<1>5. CASE Transmit
  <2>1. (lastCalled \in [at : Moments, handlers : Handlers])'
    BY <1>5 DEF Transmit, Passed, Moments
  <2> QED BY <1>5, <2>1 DEF Transmit
<1>6. ASSUME NEW b \in Buttons, MoveButton(b) PROVE TypeOK'
  BY <1>6 DEF MoveButton
<1>7. CASE UNCHANGED vars BY <1>7 DEF vars
<1>8. ASSUME NEW answer \in Answers, Receive(answer) PROVE TypeOK'
  <2>1. (lastCalled \in [at : Moments, handlers : Handlers])'
    BY <1>8 DEF Receive, Received, Passed, Moments
  <2>2. (sampled \in {"no", "kernel", "raw"} /\ rawPad \in SUBSET Buttons)'
    BY <1>8 DEF Receive
  <2> QED BY <1>8, <2>1, <2>2 DEF Receive
<1> QED BY <1>1, <1>2, <1>3, <1>4, <1>5, <1>6, <1>7, <1>8 DEF Next

\* Type correctness of the engine switch and the handler chain (src/mfmain.c),
\* under every interleaving of the threads and the interrupt.
THEOREM TypeCorrect == Spec => []TypeOK
  BY InitTypeOK, NextTypeOK, PTL DEF Spec

-----------------------------------------------------------------------------
\* The engine switch, the flag of the hooks and the API table at each control point
\* of the MacroFire thread.  MenuKeepsHooks is the part of it that speaks of the menu
\* and of the main loop; what is said of the way into and out of mfHook and mfUnhook
\* makes it inductive.
EngineInv ==
  /\ pc \in {"hookSet", "hookDone"} => ~hooked /\ patched
  /\ pc \notin {"hookSet", "hookDone"} => patched = hooked
  /\ pc = "hookTest" => ~hooked
  /\ pc \in HookPCs => enabled /\ ret \in {"menuTest", "resume"}
  /\ pc \in UnhookPCs =>
       /\ hooked
       /\ ret \in {"menuTest", "menu", "restoreTest"}
       /\ ret = "menuTest" => ~enabled
       /\ ret = "menu" => suspended
  /\ pc \in {"menuTest", "resume"} => hooked = enabled
  /\ pc = "menu" => ~hooked /\ suspended
  /\ pc = "menuLeave" => (hooked => enabled)
  /\ pc = "ready" => ~hooked

\* When module_start has made the MacroFire thread, nothing is hooked.
LEMMA EngineInvInit == Init => EngineInv
  BY DEF Init, EngineInv, HookPCs, UnhookPCs

\* Only the MacroFire thread writes st_hooked and the API table, so that its position
\* tells what they are; the plugins and the interrupt write neither (mfHook, mfUnhook).
LEMMA EngineInvStep == TypeOK /\ EngineInv /\ [Next]_vars => EngineInv'
<1> SUFFICES ASSUME TypeOK, EngineInv, [Next]_vars PROVE EngineInv'
  OBVIOUS
<1>t. /\ enabled \in BOOLEAN /\ hooked \in BOOLEAN /\ patched \in BOOLEAN
      /\ suspended \in BOOLEAN /\ pc \in MainPCs
      /\ pc \in HookPCs \cup UnhookPCs => ret \in Returns
  BY DEF TypeOK
<1>0. CASE UNCHANGED <<enabled, hooked, patched, pc, ret, suspended>>
  BY <1>0 DEF EngineInv
<1> USE <1>t DEF EngineInv, HookPCs, UnhookPCs
<1>1. CASE MainStep
  <2>1. CASE Ready BY <2>1 DEF Ready
  <2>2. CASE LoopTop BY <2>2 DEF LoopTop
  <2>3. CASE Poll BY <2>3 DEF Poll
  <2>4. CASE Sync BY <2>4 DEF Sync, EnterHook, EnterUnhook, Goto
  <2>5. CASE HookTest BY <2>5 DEF HookTest
  <2>6. CASE HookSet BY <2>6 DEF HookSet, Goto
  <2>7. CASE HookDone BY <2>7 DEF HookDone
  <2>8. CASE UnhookTest BY <2>8 DEF UnhookTest, Goto
  <2>9. CASE UnhookClear BY <2>9 DEF UnhookClear, Goto
  <2>10. CASE UnhookDone BY <2>10 DEF UnhookDone
  <2>11. CASE MenuSkip BY <2>11 DEF MenuSkip, Goto
  <2>12. CASE MenuAbort BY <2>12 DEF MenuAbort, Goto
  <2>13. CASE MenuOpen BY <2>13 DEF MenuOpen
  <2>14. CASE MenuLeave BY <2>14 DEF MenuLeave, EnterHook, Goto
  <2>15. CASE MenuResume BY <2>15 DEF MenuResume
  <2>16. CASE Shutdown BY <2>16 DEF Shutdown, EnterUnhook, Goto
  <2>17. CASE RestoreTest BY <2>17 DEF RestoreTest, Goto
  <2>18. CASE Restore BY <2>18 DEF Restore, Goto
  <2> QED
    BY <1>1, <2>1, <2>2, <2>3, <2>4, <2>5, <2>6, <2>7, <2>8, <2>9,
       <2>10, <2>11, <2>12, <2>13, <2>14, <2>15, <2>16, <2>17, <2>18 DEF MainStep
<1>2. CASE MenuToggleEngine
  BY <1>2 DEF MenuToggleEngine
<1>3. CASE MenuExit
  BY <1>3 DEF MenuExit
<1>4. CASE ModuleStop
  BY <1>4, <1>0 DEF ModuleStop, mainVars
<1>5. ASSUME NEW p \in Plugins, PluginStep(p) PROVE EngineInv'
  BY <1>5, <1>0 DEF PluginStep, StoreChain, RegisterOwn, TestHooked, ClearHandlers,
                    PluginGoto, mainVars
<1>6. ASSUME NEW p \in Plugins, NEW h \in {p, None}, CallSet(p, h) PROVE EngineInv'
  BY <1>6, <1>0 DEF CallSet, mainVars
<1>7. CASE Transmit \/ \E answer \in Answers : Receive(answer)
  BY <1>7, <1>0 DEF Transmit, Receive, mainVars
<1>8. ASSUME NEW b \in Buttons, MoveButton(b) PROVE EngineInv'
  BY <1>8, <1>0 DEF MoveButton, mainVars
<1>9. CASE UNCHANGED vars
  BY <1>9, <1>0 DEF vars, mainVars
<1> QED BY <1>1, <1>2, <1>3, <1>4, <1>5, <1>6, <1>7, <1>8, <1>9 DEF Next

\* Where the MacroFire thread is tells whether the API is hooked, what the table points
\* at and whether the threads are suspended (mf_main, mfHook, mfUnhook, mfMenuMain).
THEOREM EngineInvCorrect == Spec => []EngineInv
  BY EngineInvInit, EngineInvStep, TypeCorrect, PTL DEF Spec

\* The menu runs with every hook removed and every other thread suspended, and the
\* main loop with the hooks the engine switch asks for, under every interleaving with
\* the other plugins and the interrupt (mf_main, mfHook, mfUnhook, mfMenuMain).
THEOREM MenuKeepsHooksCorrect == Spec => []MenuKeepsHooks
<1>1. EngineInv => MenuKeepsHooks
  BY DEF EngineInv, MenuKeepsHooks
<1> QED BY <1>1, EngineInvCorrect, PTL

-----------------------------------------------------------------------------
\* The handlers of the kernel when no call is past its first access to them, and at
\* each point inside a call, provided that calls do not overlap.
Consistent == registered = (IF chain # None \/ hooked THEN MF ELSE None)
Settled    == ~MainCalling /\ \A p \in Plugins : plugin[p] \in {"idle", "store"}

MainCallInv ==
  /\ pc = "hookTest" => ~hooked /\ Consistent
  /\ pc = "hookSet" => ~hooked /\ chain = None /\ registered = None
  /\ pc = "hookDone" => ~hooked /\ registered = MF
  /\ pc = "unhookTest" => hooked /\ registered = MF
  /\ pc = "unhookClear" => hooked /\ chain = None /\ registered = MF
  /\ pc = "unhookDone" => hooked /\ registered = (IF chain = None THEN None ELSE MF)
  /\ pc = "restoreTest" => ~hooked /\ Consistent
  /\ pc = "restore" => ~hooked /\ chain # None /\ registered = MF
  /\ pc = "done" => ~hooked

PluginCallInv ==
  \A p \in Plugins :
    /\ plugin[p] \in {"register", "test", "clear"} => chain = arg[p]
    /\ plugin[p] = "register" => chain # None
    /\ plugin[p] = "test" => chain = None /\ (hooked => registered = MF)
    /\ plugin[p] = "clear" => chain = None /\ ~hooked

HandlersInv ==
  /\ OneCallAtATime
  /\ Settled => Consistent \/ (pc = "done" /\ registered = chain)
  /\ MainCallInv
  /\ PluginCallInv

\* At the start the kernel has no debug handlers and nobody is in a call.
LEMMA HandlersInvInit == Init => HandlersInv
  BY PluginsAssumption
  DEF Init, HandlersInv, OneCallAtATime, Settled, Consistent, MainCallInv,
      PluginCallInv, MainCalling, Calling, HookPCs, UnhookPCs

\* A step that leaves the handlers and the calls alone.
LEMMA HandlersInvKept ==
  ASSUME HandlersInv, UNCHANGED <<pc, hooked, chain, registered, plugin, arg>>
  PROVE  HandlersInv'
  BY DEF HandlersInv, OneCallAtATime, Settled, Consistent, MainCallInv, PluginCallInv,
         MainCalling, Calling

\* The MacroFire thread: in a call of its own no plugin is in one.
LEMMA HandlersInvMain ==
  ASSUME TypeOK, EngineInv, HandlersInv, OneCallAtATime',
         MainStep \/ MenuToggleEngine \/ MenuExit
  PROVE  HandlersInv'
<1>t. /\ hooked \in BOOLEAN /\ enabled \in BOOLEAN /\ pc \in MainPCs
      /\ pc \in HookPCs \cup UnhookPCs => ret \in Returns
      /\ chain \in Handlers /\ MF \notin Handlers
      /\ plugin \in [Plugins -> PluginPCs]
  BY PluginsAssumption DEF TypeOK
<1>u. UNCHANGED <<plugin, arg>>
  BY DEF MainStep, Ready, LoopTop, Poll, Sync, HookTest, HookSet, HookDone, UnhookTest,
         UnhookClear, UnhookDone, MenuSkip, MenuAbort, MenuOpen, MenuLeave, MenuResume,
         Shutdown, RestoreTest, Restore, MenuToggleEngine, MenuExit, EnterHook,
         EnterUnhook, Goto, pluginVars
<1>i. /\ MainCalling => \A p \in Plugins : plugin[p] = "idle"
      /\ MainCalling' => \A p \in Plugins : plugin[p] = "idle"
  BY <1>u DEF HandlersInv, OneCallAtATime, Calling
<1> USE <1>t, <1>u, <1>i
    DEF HandlersInv, EngineInv, Settled, Consistent, MainCallInv, PluginCallInv,
        MainCalling, HookPCs, UnhookPCs
<1>1. CASE Ready BY <1>1 DEF Ready
<1>2. CASE LoopTop BY <1>2 DEF LoopTop
<1>3. CASE Poll BY <1>3 DEF Poll
<1>4. CASE Sync BY <1>4 DEF Sync, EnterHook, EnterUnhook, Goto
<1>5. CASE HookTest BY <1>5 DEF HookTest
<1>6. CASE HookSet BY <1>6 DEF HookSet, Goto
<1>7. CASE HookDone BY <1>7 DEF HookDone
<1>8. CASE UnhookTest BY <1>8 DEF UnhookTest, Goto
<1>9. CASE UnhookClear BY <1>9 DEF UnhookClear, Goto
<1>10. CASE UnhookDone BY <1>10 DEF UnhookDone
<1>11. CASE MenuSkip BY <1>11 DEF MenuSkip, Goto
<1>12. CASE MenuAbort BY <1>12 DEF MenuAbort, Goto
<1>13. CASE MenuOpen BY <1>13 DEF MenuOpen
<1>14. CASE MenuLeave BY <1>14 DEF MenuLeave, EnterHook, Goto
<1>15. CASE MenuResume BY <1>15 DEF MenuResume
<1>16. CASE Shutdown BY <1>16 DEF Shutdown, EnterUnhook, Goto
<1>17. CASE RestoreTest BY <1>17 DEF RestoreTest, Goto
<1>18. CASE Restore BY <1>18 DEF Restore, Goto
<1>19. CASE MenuToggleEngine BY <1>19 DEF MenuToggleEngine
<1>20. CASE MenuExit BY <1>20 DEF MenuExit
<1> QED
  BY <1>1, <1>2, <1>3, <1>4, <1>5, <1>6, <1>7, <1>8, <1>9, <1>10, <1>11, <1>12,
     <1>13, <1>14, <1>15, <1>16, <1>17, <1>18, <1>19, <1>20 DEF MainStep

\* A plugin's call: the MacroFire thread is in none, so hooked stands still, and no
\* other plugin is in one, so chain does.
LEMMA HandlersInvPlugin ==
  ASSUME TypeOK, HandlersInv, OneCallAtATime', NEW p \in Plugins, PluginStep(p)
  PROVE  HandlersInv'
<1>t. /\ chain \in Handlers /\ MF \notin Handlers /\ hooked \in BOOLEAN
      /\ plugin \in [Plugins -> PluginPCs] /\ arg \in [Plugins -> Handlers]
  BY PluginsAssumption DEF TypeOK
<1>u. UNCHANGED <<pc, hooked, arg>>
  BY DEF PluginStep, StoreChain, RegisterOwn, TestHooked, ClearHandlers, PluginGoto, mainVars
<1>c. plugin[p] # "idle"
  BY DEF PluginStep, StoreChain, RegisterOwn, TestHooked, ClearHandlers, PluginGoto
<1>m. ~MainCalling /\ ~MainCalling'
  BY <1>c, <1>u DEF HandlersInv, OneCallAtATime, Calling, MainCalling
<1>o. \A q \in Plugins : q # p => plugin[q] = "idle"
  BY <1>c DEF HandlersInv, OneCallAtATime, Calling
<1>i. MainCallInv'
  BY <1>m, <1>u, <1>t DEF MainCalling, HookPCs, UnhookPCs, MainCallInv, HandlersInv
<1> USE <1>t, <1>u, <1>m, <1>o, <1>i
    DEF HandlersInv, Settled, Consistent, PluginCallInv, PluginGoto, PluginPCs
<1>1. CASE StoreChain(p)
  <2>1. Consistent \/ ~hooked
    BY <1>1 DEF StoreChain, MainCallInv
  <2>2. plugin' = [plugin EXCEPT ![p] = IF chain' # None THEN "register" ELSE "test"]
    BY <1>1 DEF StoreChain
  <2>3. UNCHANGED registered /\ chain' = arg[p]
    BY <1>1 DEF StoreChain
  <2>4. PluginCallInv'
    BY <2>1, <2>2, <2>3
  <2>5. ~Settled'
    BY <2>2
  <2> QED BY <2>4, <2>5
<1>2. CASE RegisterOwn(p) BY <1>2 DEF RegisterOwn
<1>3. CASE TestHooked(p) BY <1>3 DEF TestHooked
<1>4. CASE ClearHandlers(p) BY <1>4 DEF ClearHandlers
<1> QED BY <1>1, <1>2, <1>3, <1>4 DEF PluginStep

\* Without overlapping calls, every call of mfHook, mfUnhook, mf_shutdown and
\* mfSysconSetDebugHandlers leaves the handlers as it should find them.
LEMMA HandlersInvStep ==
  TypeOK /\ EngineInv /\ HandlersInv /\ [SerialNext]_vars => HandlersInv'
<1> SUFFICES ASSUME TypeOK, EngineInv, HandlersInv, [SerialNext]_vars PROVE HandlersInv'
  OBVIOUS
<1>0. CASE UNCHANGED <<pc, hooked, chain, registered, plugin, arg>>
  BY <1>0, HandlersInvKept
<1>1. CASE UNCHANGED vars
  BY <1>0, <1>1 DEF vars, mainVars, pluginVars
<1>2. ASSUME SerialNext PROVE HandlersInv'
  <2>0. OneCallAtATime'
    BY <1>2 DEF SerialNext
  <2>1. CASE MainStep \/ MenuToggleEngine \/ MenuExit
    BY <2>0, <2>1, HandlersInvMain
  <2>2. CASE ModuleStop \/ Transmit \/ \E answer \in Answers : Receive(answer)
    BY <1>0, <2>2 DEF ModuleStop, Transmit, Receive, mainVars, pluginVars
  <2>3. ASSUME NEW p \in Plugins, PluginStep(p) PROVE HandlersInv'
    BY <2>0, <2>3, HandlersInvPlugin
  <2>4. ASSUME NEW p \in Plugins, NEW h \in {p, None}, CallSet(p, h) PROVE HandlersInv'
    <3>1. UNCHANGED <<pc, hooked, chain, registered>> /\ plugin[p] = "idle"
      BY <2>4 DEF CallSet, mainVars
    <3>2. plugin' = [plugin EXCEPT ![p] = "store"] /\ plugin \in [Plugins -> PluginPCs]
      BY <2>4 DEF CallSet, TypeOK
    <3>3. MainCallInv'
      BY <3>1 DEF HandlersInv, MainCallInv, Consistent
    <3>4. PluginCallInv'
      <4>1. arg' = [arg EXCEPT ![p] = h] /\ arg \in [Plugins -> Handlers]
        BY <2>4 DEF CallSet, TypeOK
      <4> QED BY <3>1, <3>2, <4>1 DEF HandlersInv, PluginCallInv
    <3>5. Settled' => Settled
      BY <3>1, <3>2 DEF Settled, MainCalling
    <3> QED BY <2>0, <3>1, <3>3, <3>4, <3>5 DEF HandlersInv, Consistent
  <2>5. ASSUME NEW b \in Buttons, MoveButton(b) PROVE HandlersInv'
    BY <1>0, <2>5 DEF MoveButton, mainVars, pluginVars
  <2> QED BY <1>2, <2>1, <2>2, <2>3, <2>4, <2>5 DEF SerialNext, Next
<1> QED BY <1>1, <1>2

\* The serial system is one of the behaviours of the concurrent one.
LEMMA SerialInvariants == SerialSpec => []TypeOK /\ []EngineInv
<1>1. [SerialNext]_vars => [Next]_vars
  BY DEF SerialNext
<1> QED
  BY <1>1, InitTypeOK, NextTypeOK, EngineInvInit, EngineInvStep, PTL DEF SerialSpec

\* The registered handlers, the chain and the calls in progress agree at all times.
LEMMA HandlersInvCorrect == SerialSpec => []HandlersInv
  BY HandlersInvInit, HandlersInvStep, SerialInvariants, PTL DEF SerialSpec

\* When calls do not overlap, the handlers the kernel holds between calls are those
\* that the engine switch and the chained handlers ask for (mfHook, mfUnhook,
\* mf_shutdown and mfSysconSetDebugHandlers together).
THEOREM HandlersMatchCorrect == SerialSpec => []HandlersMatch
<1>1. HandlersInv => HandlersMatch
  BY DEF HandlersInv, HandlersMatch, AtRest, Settled, Consistent, MainCallInv, Calling
<1> QED BY <1>1, HandlersInvCorrect, PTL

-----------------------------------------------------------------------------
(* SerialSpec implements DebugHandlers. *)

\* At the start no plugin owns the debug handlers.
LEMMA ChainInit == Init => ChainView!Init
<1> SUFFICES ASSUME Init PROVE ChainView!Init
  OBVIOUS
<1>1. Owner = None /\ Calls = [p \in Plugins |-> FALSE] /\ arg = [p \in Plugins |-> None]
  BY DEF Init, Owner, Calls, Calling
<1>2. lastCalled \in [at : Moments, handlers : {None}]
  BY DEF Init, Moments
<1> QED BY <1>1, <1>2 DEF ChainView!Init

\* The MacroFire thread never changes whose handlers an interrupt reaches.
LEMMA ChainMain ==
  ASSUME TypeOK, HandlersInv, MainStep \/ MenuToggleEngine \/ MenuExit
  PROVE  UNCHANGED ChainView!vars
<1>1. UNCHANGED <<plugin, arg, lastCalled>>
  BY DEF MainStep, Ready, LoopTop, Poll, Sync, HookTest, HookSet, HookDone, UnhookTest,
         UnhookClear, UnhookDone, MenuSkip, MenuAbort, MenuOpen, MenuLeave, MenuResume,
         Shutdown, RestoreTest, Restore, MenuToggleEngine, MenuExit, EnterHook,
         EnterUnhook, Goto, pluginVars, inputVars
<1>2. UNCHANGED Owner
  <2>0. CASE UNCHANGED <<chain, registered>>
    BY <2>0 DEF Owner
  <2>1. CASE HookSet
    BY <2>1 DEF HookSet, HandlersInv, MainCallInv, Owner
  <2>2. CASE UnhookClear
    BY <2>2 DEF UnhookClear, HandlersInv, MainCallInv, Owner
  <2>3. CASE Restore
    BY <2>3 DEF Restore, HandlersInv, MainCallInv, Owner
  <2> QED
    BY <2>0, <2>1, <2>2, <2>3
    DEF MainStep, Ready, LoopTop, Poll, Sync, HookTest, HookDone, UnhookTest, UnhookDone,
        MenuSkip, MenuAbort, MenuOpen, MenuLeave, MenuResume, Shutdown, RestoreTest,
        MenuToggleEngine, MenuExit, EnterHook, EnterUnhook, Goto
<1> QED BY <1>1, <1>2 DEF ChainView!vars, Calls, Calling

\* A plugin's call takes effect when it stores the chain (if MacroFire's handlers are
\* registered) or when it registers or clears them, and has taken effect on return.
LEMMA ChainPlugin ==
  ASSUME TypeOK, HandlersInv, NEW p \in Plugins, PluginStep(p)
  PROVE  ChainView!TakeEffect(p) \/ ChainView!Return(p) \/ UNCHANGED ChainView!vars
<1>t. /\ MF \notin Handlers /\ chain \in Handlers /\ chain' \in Handlers
      /\ plugin \in [Plugins -> PluginPCs] /\ arg \in [Plugins -> Handlers]
  BY PluginsAssumption
  DEF TypeOK, PluginStep, StoreChain, RegisterOwn, TestHooked, ClearHandlers
<1>c. Calls[p] /\ UNCHANGED <<arg, lastCalled>>
  BY DEF PluginStep, StoreChain, RegisterOwn, TestHooked, ClearHandlers, PluginGoto,
         Calling, Calls, inputVars
<1>s. ASSUME plugin'[p] # "idle", \A q \in Plugins : q # p => plugin'[q] = plugin[q]
      PROVE  UNCHANGED Calls
  BY <1>c, <1>s DEF Calls, Calling
<1>r. ASSUME plugin'[p] = "idle", \A q \in Plugins : q # p => plugin'[q] = plugin[q]
      PROVE  Calls' = [Calls EXCEPT ![p] = FALSE]
  BY <1>r DEF Calls, Calling
<1>1. CASE StoreChain(p)
  <2>1. UNCHANGED Calls
    BY <1>1, <1>s, <1>t DEF StoreChain, PluginGoto
  <2>2. Owner' = arg[p] \/ UNCHANGED Owner
    BY <1>1 DEF StoreChain, Owner
  <2> QED BY <2>1, <2>2, <1>c DEF ChainView!TakeEffect, ChainView!vars, Calls
<1>2. CASE RegisterOwn(p)
  <2>1. Calls' = [Calls EXCEPT ![p] = FALSE]
    BY <1>2, <1>r, <1>t DEF RegisterOwn, PluginGoto
  <2>2. Owner' = arg[p]
    BY <1>2, <1>t DEF RegisterOwn, PluginGoto, Owner, HandlersInv, PluginCallInv
  <2> QED BY <2>1, <2>2, <1>c DEF ChainView!Return, Calls
<1>3. CASE TestHooked(p) /\ hooked
  <2>1. Calls' = [Calls EXCEPT ![p] = FALSE]
    BY <1>3, <1>r, <1>t DEF TestHooked, PluginGoto
  <2>2. Owner' = arg[p]
    BY <1>3, <1>t DEF TestHooked, PluginGoto, Owner, HandlersInv, PluginCallInv
  <2> QED BY <2>1, <2>2, <1>c DEF ChainView!Return, Calls
<1>4. CASE TestHooked(p) /\ ~hooked
  <2>1. UNCHANGED Calls
    BY <1>4, <1>s, <1>t DEF TestHooked, PluginGoto
  <2> QED BY <1>4, <2>1, <1>c DEF TestHooked, Owner, ChainView!vars, Calls
<1>5. CASE ClearHandlers(p)
  <2>1. Calls' = [Calls EXCEPT ![p] = FALSE]
    BY <1>5, <1>r, <1>t DEF ClearHandlers, PluginGoto
  <2>2. Owner' = arg[p]
    BY <1>5, <1>t DEF ClearHandlers, PluginGoto, Owner, HandlersInv, PluginCallInv
  <2> QED BY <2>1, <2>2, <1>c DEF ChainView!Return, Calls
<1> QED BY <1>1, <1>2, <1>3, <1>4, <1>5 DEF PluginStep

\* Whoever steps: the owner changes in a plugin's own call only; it is called before a packet is
\* sent and for an answer that is the pad's (mf_syscon_handler_transmit and _recieve).
LEMMA ChainStep ==
  TypeOK /\ HandlersInv /\ [SerialNext]_vars => [ChainView!Next]_ChainView!vars
<1> SUFFICES ASSUME TypeOK, HandlersInv, [SerialNext]_vars
             PROVE  [ChainView!Next]_ChainView!vars
  OBVIOUS
<1>0. CASE UNCHANGED <<chain, registered, plugin, arg, lastCalled>>
  BY <1>0 DEF ChainView!vars, Owner, Calls, Calling
<1>1. CASE UNCHANGED vars
  BY <1>0, <1>1 DEF vars, pluginVars, inputVars
<1>2. CASE MainStep \/ MenuToggleEngine \/ MenuExit
  BY <1>2, ChainMain
<1>3. CASE ModuleStop
  BY <1>0, <1>3 DEF ModuleStop, pluginVars, inputVars
<1>4. ASSUME NEW p \in Plugins, PluginStep(p) PROVE [ChainView!Next]_ChainView!vars
  BY <1>4, ChainPlugin DEF ChainView!Next
<1>5. ASSUME NEW p \in Plugins, NEW h \in {p, None}, CallSet(p, h)
      PROVE  [ChainView!Next]_ChainView!vars
  <2>1. plugin' = [plugin EXCEPT ![p] = "store"] /\ plugin \in [Plugins -> PluginPCs]
    BY <1>5 DEF CallSet, TypeOK
  <2>2. ~Calls[p] /\ Calls' = [Calls EXCEPT ![p] = TRUE]
    BY <1>5, <2>1 DEF CallSet, Calls, Calling
  <2>3. UNCHANGED <<Owner, lastCalled>> /\ arg' = [arg EXCEPT ![p] = h]
    BY <1>5 DEF CallSet, Owner, inputVars
  <2>4. ChainView!Begin(p, h)
    BY <2>2, <2>3 DEF ChainView!Begin, Calls
  <2> QED BY <2>4 DEF ChainView!Next
<1>6. CASE Transmit
  <2>1. lastCalled' = [at |-> "before", handlers |-> Owner] /\ UNCHANGED <<Owner, Calls, arg>>
    BY <1>6 DEF Transmit, Passed, Owner, Calls, Calling, pluginVars
  <2>2. ChainView!Deliver("before")
    BY <2>1 DEF ChainView!Deliver
  <2> QED BY <2>2 DEF ChainView!Next, Moments
<1>8. ASSUME NEW answer \in Answers, Receive(answer) PROVE [ChainView!Next]_ChainView!vars
  <2>1. lastCalled' = [at |-> answer, handlers |-> Received(answer)]
        /\ UNCHANGED <<Owner, Calls, arg>>
    BY <1>8 DEF Receive, Owner, Calls, Calling, pluginVars
  <2>2. IF answer = "pad" THEN Received(answer) = Owner ELSE Received(answer) \in {Owner, None}
    BY DEF Received, Passed, Owner
  <2>3. ChainView!Deliver(answer)
    BY <2>1, <2>2 DEF ChainView!Deliver, Answers
  <2> QED BY <2>3 DEF ChainView!Next, Moments
<1>7. ASSUME NEW b \in Buttons, MoveButton(b) PROVE [ChainView!Next]_ChainView!vars
  BY <1>0, <1>7 DEF MoveButton, pluginVars
<1> QED BY <1>1, <1>2, <1>3, <1>4, <1>5, <1>6, <1>7, <1>8 DEF SerialNext, Next

\* MacroFire is transparent to the other plugins when calls do not overlap, as long as they do
\* not count on the answers to packets that do not read the pad: every step of the chain is a step
\* of the kernel's interface as they know it, or none.
THEOREM ChainRefines == SerialSpec => TransparentChain
  BY ChainInit, ChainStep, SerialInvariants, HandlersInvCorrect, PTL
  DEF SerialSpec, TransparentChain, ChainView!Spec
-----------------------------------------------------------------------------
\* As long as the toggle buttons have not been seen released since the last flip they are held,
\* the main loop waits for their release, and a raw pad of this round has them.
ToggleInv ==
  /\ pc = "ready" => armed
  /\ ~armed => waitRelease /\ IsHeld(toggleButtons, held)
  /\ ~armed /\ pc = "sleep" /\ sampled = "raw" => IsHeld(toggleButtons, rawPad)

\* A step that leaves the switch and the pad alone and does not come to the poll.
LEMMA ToggleInvKept ==
  ASSUME ToggleInv, UNCHANGED <<toggleButtons, waitRelease, held, rawPad, sampled, armed>>,
         pc' \in {"ready", "sleep"} => pc' = pc
  PROVE  ToggleInv'
  BY DEF ToggleInv, IsHeld

\* The poll of the toggle buttons (mf_main): without a flip the release is waited for as long
\* as the pad that is read has the buttons.
LEMMA ToggleInvPoll ==
  ASSUME TypeOK, ToggleInv, Poll
  PROVE  ToggleInv'
<1> DEFINE toggling == toggleButtons # {} /\ IsHeld(toggleButtons, CurrentCtrl)
           flip     == toggling /\ ~waitRelease
<1>1. /\ pc = "sleep" /\ sampled # "no" /\ pc' = "sync"
      /\ UNCHANGED <<toggleButtons, held, rawPad, sampled>>
  BY DEF Poll, inputVars
<1>2. /\ toggleButtons = {} => waitRelease' = waitRelease
      /\ toggleButtons # {} => waitRelease' = toggling
  BY DEF Poll
<1>3. /\ flip => armed' = ~IsHeld(toggleButtons, held)
      /\ ~flip => armed' = (armed \/ (UsesRawPad /\ sampled # "raw"))
  BY DEF Poll
<1>4. ASSUME ~armed' PROVE waitRelease' /\ IsHeld(toggleButtons, held)
  <2>1. CASE flip
    BY <1>2, <1>3, <1>4, <2>1
  <2>2. CASE ~flip
    <3>1. ~armed /\ (UsesRawPad => sampled = "raw")
      BY <1>3, <1>4, <2>2
    <3>2. waitRelease /\ IsHeld(toggleButtons, held)
      BY <3>1 DEF ToggleInv
    <3>3. IsHeld(toggleButtons, CurrentCtrl)
      BY <1>1, <3>1, <3>2 DEF ToggleInv, CurrentCtrl
    <3> QED BY <1>2, <3>2, <3>3
  <2> QED BY <2>1, <2>2
<1>5. IsHeld(toggleButtons, held)' = IsHeld(toggleButtons, held)
  BY <1>1 DEF IsHeld
<1> QED BY <1>1, <1>4, <1>5 DEF ToggleInv

LEMMA ToggleInvStep == TypeOK /\ ToggleInv /\ [Next]_vars => ToggleInv'
<1> SUFFICES ASSUME TypeOK, ToggleInv, [Next]_vars PROVE ToggleInv'
  OBVIOUS
<1>1. CASE Ready
  BY <1>1 DEF Ready, ToggleInv
<1>2. CASE LoopTop
  BY <1>2 DEF LoopTop, ToggleInv, IsHeld
<1>3. CASE Poll
  BY <1>3, ToggleInvPoll
<1>4. CASE MenuExit
  <2>1. /\ armed' = (armed \/ ~IsHeld(toggleButtons', held)) /\ pc' = "menuLeave"
        /\ UNCHANGED <<waitRelease, held>>
    BY <1>4 DEF MenuExit, inputVars
  <2> QED BY <2>1 DEF ToggleInv, IsHeld
<1>5. ASSUME NEW answer \in Answers, Receive(answer) PROVE ToggleInv'
  <2>1. /\ UNCHANGED <<pc, toggleButtons, waitRelease, held, armed>>
        /\ \/ sampled' = "raw" => rawPad' = held
           \/ UNCHANGED <<sampled, rawPad>>
    BY <1>5 DEF Receive, mainVars
  <2> QED BY <2>1 DEF ToggleInv, IsHeld
<1>6. ASSUME NEW b \in Buttons, MoveButton(b) PROVE ToggleInv'
  <2>1. /\ armed' = (armed \/ ~IsHeld(toggleButtons, held'))
        /\ UNCHANGED <<pc, toggleButtons, waitRelease, rawPad, sampled>>
    BY <1>6 DEF MoveButton, mainVars
  <2> QED BY <2>1 DEF ToggleInv, IsHeld
<1>7. CASE \/ Sync \/ HookTest \/ HookSet \/ HookDone \/ UnhookTest \/ UnhookClear \/ UnhookDone
           \/ MenuSkip \/ MenuAbort \/ MenuOpen \/ MenuLeave \/ MenuResume
           \/ Shutdown \/ RestoreTest \/ Restore \/ MenuToggleEngine
  <2>1. UNCHANGED <<toggleButtons, waitRelease, held, rawPad, sampled, armed>>
    BY <1>7
    DEF Sync, HookTest, HookSet, HookDone, UnhookTest, UnhookClear, UnhookDone, MenuSkip,
        MenuAbort, MenuOpen, MenuLeave, MenuResume, Shutdown, RestoreTest, Restore,
        MenuToggleEngine, EnterHook, EnterUnhook, Goto, inputVars
  <2>2. pc \in HookPCs \cup UnhookPCs => ret \in Returns
    BY DEF TypeOK
  <2>3. pc' \notin {"ready", "sleep"}
    BY <1>7, <2>2
    DEF Sync, HookTest, HookSet, HookDone, UnhookTest, UnhookClear, UnhookDone, MenuSkip,
        MenuAbort, MenuOpen, MenuLeave, MenuResume, Shutdown, RestoreTest, Restore,
        MenuToggleEngine, EnterHook, EnterUnhook, Goto, Returns, HookPCs, UnhookPCs
  <2> QED BY <2>1, <2>3, ToggleInvKept
<1>8. CASE ModuleStop \/ Transmit
  BY <1>8, ToggleInvKept DEF ModuleStop, Transmit, mainVars, inputVars
<1>9. ASSUME NEW p \in Plugins, PluginStep(p) PROVE ToggleInv'
  BY <1>9, ToggleInvKept
  DEF PluginStep, StoreChain, RegisterOwn, TestHooked, ClearHandlers, PluginGoto, mainVars, inputVars
<1>10. ASSUME NEW p \in Plugins, NEW h \in {p, None}, CallSet(p, h) PROVE ToggleInv'
  BY <1>10, ToggleInvKept DEF CallSet, mainVars, inputVars
<1>11. CASE UNCHANGED vars
  BY <1>11, ToggleInvKept DEF vars, mainVars, inputVars
<1> QED
  BY <1>1, <1>2, <1>3, <1>4, <1>5, <1>6, <1>7, <1>8, <1>9, <1>10, <1>11 DEF Next, MainStep

\* Between two flips by the main loop the toggle buttons were seen released, whichever of the two
\* pads was read (mf_main, mf_get_current_ctrl), and however the calls of the others overlap.
THEOREM FlipNeedsReleaseCorrect == Spec => FlipNeedsRelease
<1>1. Init => ToggleInv
  BY DEF Init, ToggleInv
<1>2. ToggleInv /\ [Next]_vars => [pc = "sleep" /\ enabled' # enabled => armed]_vars
  <2> SUFFICES ASSUME ToggleInv, Next, pc = "sleep", enabled' # enabled PROVE armed
    BY DEF vars, mainVars
  <2>1. CASE Poll
    BY <2>1 DEF Poll, ToggleInv
  <2>2. CASE ~Poll
    <3>1. enabled' = enabled
      BY <2>2
      DEF Next, MainStep, Ready, LoopTop, Sync, HookTest, HookSet, HookDone, UnhookTest,
          UnhookClear, UnhookDone, MenuSkip, MenuAbort, MenuOpen, MenuLeave, MenuResume,
          Shutdown, RestoreTest, Restore, MenuToggleEngine, MenuExit, ModuleStop, PluginStep,
          StoreChain, RegisterOwn, TestHooked, ClearHandlers, PluginGoto, CallSet, Transmit,
          Receive, MoveButton, EnterHook, EnterUnhook, Goto, mainVars
    <3> QED BY <3>1
  <2> QED BY <2>1, <2>2
<1> QED BY <1>1, <1>2, ToggleInvStep, TypeCorrect, PTL DEF Spec, FlipNeedsRelease
=============================================================================
