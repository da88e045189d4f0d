---------------------------- MODULE OvmsgProofs ----------------------------
(***************************************************************************)
(* Proofs about the on-screen messages: types for whoever prints, and the  *)
(* handshake of the MacroFire thread with the notifier as long as only     *)
(* interrupts print besides it.                                            *)
(*                                                                         *)
(* The handshake is by turns.  Since one thing at a time is asked of the   *)
(* notifier and what is asked is taken back with the answer, the state of  *)
(* the two event flags follows from the control points of the two threads. *)
(***************************************************************************)
EXTENDS Ovmsg, TLAPS

Points     == {"idle", "set", "wait", "blocked", "write", "done"}
MenuPoints == {"boot", "closed", "opening", "suspended", "unhook", "frame", "open",
               "shutdown", "wait", "blocked", "destroy", "forget"}
AtWork     == {"off", "command", "idle", "grant", "accept", "unwritten", "frame", "poll", "leave"}

\* One thread at a time waits for ctrlEv.
Alone ==
  printer["game"] = "blocked" => printer["macrofire"] # "blocked" /\ menu # "blocked"
TypeInv == TypeOK /\ Alone

main == printer["macrofire"]

\* The MacroFire thread has asked for its turn to write, or for the end of the notifier.
AsksTurn == main \in {"wait", "blocked"}
AsksEnd  == menu \in {"wait", "blocked"}

\* What holds even when interrupts print.
Always ==
  /\ printer["game"] = "idle"
  /\ menu # "closed" => main = "idle"
  /\ main # "idle" => uid /\ thread
  /\ menu \in {"shutdown", "wait", "blocked", "destroy", "forget"} => uid
  /\ menu = "shutdown" => thread
  /\ menu = "boot" \/ ~uid => ~thread
  /\ menu = "boot" => ~uid
  /\ ~thread /\ menu \notin {"wait", "blocked", "destroy"} => ~written
  /\ ("SHUTDOWN" \in workEv /\ thread) \/ notifier = "leave" => menu \in {"wait", "blocked", "destroy"}
  /\ menu = "forget" => ~thread

\* What each side knows of the other when no interrupt has printed: nothing is asked that
\* nobody waits for, and what is asked is either still to be read, or being answered, or
\* answered and the answer still to be read.
OnlyAsked ==
  /\ workEv \subseteq {"SUSPEND", "PRINT", "SHUTDOWN"}
  /\ "PRINT" \in workEv => AsksTurn
  /\ "SHUTDOWN" \in workEv => AsksEnd
TurnAsked ==
  AsksTurn =>
    \/ "PRINT" \in workEv /\ notifier \in {"command", "frame", "poll"} /\ ~ctrlEv
    \/ "PRINT" \notin workEv /\ notifier = "grant" /\ ~ctrlEv
    \/ "PRINT" \notin workEv /\ main = "wait" /\ notifier \in {"accept", "unwritten"} /\ ctrlEv
EndAsked ==
  AsksEnd =>
    \/ "SHUTDOWN" \in workEv /\ notifier \in {"command", "frame", "poll"} /\ ~ctrlEv
    \/ "SHUTDOWN" \notin workEv /\ notifier = "leave" /\ ~ctrlEv
    \/ "SHUTDOWN" \notin workEv /\ menu = "wait" /\ notifier = "off" /\ ctrlEv
NothingAsked ==
  ~AsksTurn /\ ~AsksEnd =>
    /\ ~ctrlEv
    /\ main \in {"write", "done"} => notifier \in {"accept", "unwritten"}
    /\ menu \in {"destroy", "forget"} => notifier = "off"
    /\ main \in {"idle", "set"} => notifier \in {"off", "command", "idle", "frame", "poll"}
WrittenSeen == written => notifier \in {"frame", "poll"} \/ main = "done"
Turns == OnlyAsked /\ TurnAsked /\ EndAsked /\ NothingAsked /\ WrittenSeen

Inv ==
  /\ TypeInv
  /\ fault = "none" => Always
  /\ intruded \/ Turns
  /\ intruded \/ fault = "none"

-----------------------------------------------------------------------------
\* What setting bits of workEv does, by the control point the notifier is at.
LEMMA Posted ==
  ASSUME NEW n, NEW add, Post(n, add)
  PROVE  \/ n = "idle" /\ (workEv \cup add) \cap Commands # {}
            /\ notifier' = Obey(workEv \cup add) /\ workEv' = (workEv \cup add) \ Commands
         \/ n = "unwritten" /\ "OK" \in workEv \cup add
            /\ notifier' = "frame" /\ workEv' = (workEv \cup add) \ {"OK"}
         \/ ~(n = "idle" /\ (workEv \cup add) \cap Commands # {})
            /\ ~(n = "unwritten" /\ "OK" \in workEv \cup add)
            /\ notifier' = n /\ workEv' = workEv \cup add
BY DEF Post, WorkIs, Served

\* The same of an interrupt that prints.
LEMMA ServedTyped ==
  ASSUME NEW n \in AtWork \ {"off"}, NEW bits \in SUBSET (Commands \cup {"OK"})
  PROVE  /\ Served(n, bits).at \in AtWork \ {"off"}
         /\ Served(n, bits).bits \in SUBSET (Commands \cup {"OK"})
BY DEF Served, Obey, AtWork, Commands

\* TypeInv without and with who waits for ctrlEv.
Fits ==
  /\ uid \in BOOLEAN /\ thread \in BOOLEAN /\ ctrlEv \in BOOLEAN
  /\ notifier \in AtWork /\ workEv \subseteq Commands \cup {"OK"}
  /\ thread = (notifier # "off")
  /\ written \in BOOLEAN /\ intruded \in BOOLEAN
  /\ fault \in {"none", "null", "inUse"}
Placed ==
  /\ printer \in [Threads -> Points] /\ menu \in MenuPoints
  /\ waiter \in Threads \cup {"none"}
  /\ waiter = (IF printer["game"] = "blocked" THEN "game"
               ELSE IF printer["macrofire"] = "blocked" \/ menu = "blocked"
                    THEN "macrofire" ELSE "none")
  /\ Alone

LEMMA Fitting == TypeInv <=> Fits /\ Placed
BY DEF TypeInv, TypeOK, Fits, Placed, AtWork, Points, MenuPoints

\* A step that leaves alone who waits keeps who waits right.
LEMMA WaitersKept ==
  ASSUME TypeInv, Fits', UNCHANGED waiter,
         printer' \in [Threads -> Points], menu' \in MenuPoints,
         \A t \in Threads : (printer'[t] = "blocked") = (printer[t] = "blocked"),
         (menu' = "blocked") = (menu = "blocked")
  PROVE  TypeInv'
<1>1. /\ (printer'["game"] = "blocked") = (printer["game"] = "blocked")
      /\ (printer'["macrofire"] = "blocked") = (printer["macrofire"] = "blocked")
  BY DEF Threads
<1>2. Placed
  BY Fitting
<1>3. Alone' /\ waiter' \in Threads \cup {"none"}
  BY <1>1, <1>2 DEF Alone, Placed
<1>4. waiter' = (IF printer'["game"] = "blocked" THEN "game"
                 ELSE IF printer'["macrofire"] = "blocked" \/ menu' = "blocked"
                      THEN "macrofire" ELSE "none")
  BY <1>1, <1>2 DEF Placed
<1>5. Placed'
  BY <1>3, <1>4 DEF Placed
<1> QED BY <1>5, Fitting, PTL

\* Setting ctrlEv releases who waits.
LEMMA Released ==
  ASSUME TypeInv, Fits', Grant
  PROVE  TypeInv'
<1>0. Placed
  BY Fitting
<1>1. printer' \in [Threads -> Points] /\ menu' \in MenuPoints
  BY <1>0 DEF Placed, Grant, Threads, Points, MenuPoints
<1>2. printer'["game"] # "blocked" /\ printer'["macrofire"] # "blocked" /\ menu' # "blocked"
  BY <1>0 DEF Placed, Grant, Threads, Alone
<1>3. waiter' = "none"
  BY DEF Grant
<1>4. Placed'
  BY <1>1, <1>2, <1>3 DEF Placed, Alone
<1> QED BY <1>4, Fitting, PTL

\* Who waits for ctrlEv gets it, or becomes the one that waits.
LEMMA Waited ==
  ASSUME TypeInv, Fits', NEW t \in Threads, Await(t),
         \/ /\ printer[t] = "wait" /\ UNCHANGED menu
            /\ printer' = [printer EXCEPT ![t] = IF GoesOn THEN "write" ELSE "blocked"]
         \/ /\ t = "macrofire" /\ menu = "wait" /\ UNCHANGED printer
            /\ menu' = IF GoesOn THEN "destroy" ELSE "blocked"
  PROVE  TypeInv'
<1>0. Placed /\ ctrlEv \in BOOLEAN
  BY Fitting DEF Fits
<1>1. printer' \in [Threads -> Points] /\ menu' \in MenuPoints
  BY <1>0 DEF Placed, Threads, Points, MenuPoints
<1>2. CASE GoesOn
  <2>1. \A u \in Threads : (printer'[u] = "blocked") = (printer[u] = "blocked")
    BY <1>0, <1>2 DEF Placed
  <2>2. (menu' = "blocked") = (menu = "blocked") /\ waiter' = waiter
    BY <1>2 DEF Await
  <2> QED BY <1>1, <2>1, <2>2, WaitersKept
<1>3. CASE ~GoesOn
  <2>1. /\ waiter = "none" /\ waiter' = t
        /\ printer["game"] # "blocked" /\ printer["macrofire"] # "blocked" /\ menu # "blocked"
    BY <1>0, <1>3 DEF Placed, Await, GoesOn
  <2>2. Placed'
    BY <1>0, <1>1, <1>3, <2>1 DEF Placed, Alone, Threads
  <2> QED BY <2>2, Fitting, PTL
<1> QED BY <1>2, <1>3

\* Every step keeps the types, and one waiter at a time, whoever prints.
LEMMA TypeStep == TypeInv /\ [Next]_vars => TypeInv'
<1> SUFFICES ASSUME TypeInv, [Next]_vars PROVE TypeInv'
  OBVIOUS
<1>1. Fits /\ Placed
  BY Fitting
<1>2. ASSUME NEW n \in AtWork \ {"off"}, NEW add \in SUBSET (Commands \cup {"OK"}), Post(n, add)
      PROVE  notifier' \in AtWork \ {"off"} /\ workEv' \subseteq Commands \cup {"OK"}
  <2>1. workEv \cup add \in SUBSET (Commands \cup {"OK"})
    BY <1>1 DEF Fits
  <2> QED BY <1>2, <2>1, ServedTyped DEF Post, WorkIs
<1>3. ASSUME NEW add \in SUBSET (Commands \cup {"OK"}), Post(notifier, add)
      PROVE  /\ (notifier' = "off") = (notifier = "off") /\ notifier' \in AtWork
             /\ workEv' \subseteq Commands \cup {"OK"}
  <2>1. CASE notifier # "off"
    BY <1>1, <1>2, <1>3, <2>1 DEF Fits
  <2>2. CASE notifier = "off"
    BY <1>1, <1>3, <2>2 DEF Fits, Post, WorkIs, Served, AtWork
  <2> QED BY <2>1, <2>2
<1>4. CASE UNCHANGED vars
  BY <1>1, <1>4, WaitersKept DEF Fits, Placed, vars, msgVars
<1>5. CASE Notifier
  <2>1. CASE NotifierWait
    <3>1. Fits'
      BY <1>1, <1>2, <2>1 DEF NotifierWait, Fits, msgVars, AtWork, Commands
    <3> QED BY <1>1, <2>1, <3>1, WaitersKept DEF NotifierWait, Placed, msgVars
  <2>2. CASE NotifierGrant
    <3>1. Fits'
      BY <1>1, <2>2 DEF NotifierGrant, Fits, msgVars, AtWork, Grant
    <3> QED BY <2>2, <3>1, Released DEF NotifierGrant
  <2>3. CASE NotifierAccept
    <3>1. Fits'
      BY <1>1, <1>2, <2>3 DEF NotifierAccept, Fits, msgVars, AtWork, Commands
    <3> QED BY <1>1, <2>3, <3>1, WaitersKept DEF NotifierAccept, Placed, msgVars
  <2>4. CASE NotifierPoll
    <3>1. Fits'
      BY <1>1, <2>4 DEF NotifierPoll, Fits, AtWork
    <3> QED BY <1>1, <2>4, <3>1, WaitersKept DEF NotifierPoll, Placed
  <2>5. CASE NotifierLeave
    <3>1. Fits'
      BY <1>1, <2>5 DEF NotifierLeave, Fits, AtWork, Grant
    <3> QED BY <2>5, <3>1, Released DEF NotifierLeave
  <2> QED BY <1>5, <2>1, <2>2, <2>3, <2>4, <2>5 DEF Notifier
<1>6. CASE Vblank
  <2>1. Fits'
    BY <1>1, <1>6 DEF Vblank, Fits, AtWork, msgVars
  <2>2. menu' \in MenuPoints /\ (menu' = "blocked") = (menu = "blocked")
    BY <1>1, <1>6 DEF Vblank, Placed, MenuPoints
  <2> QED BY <1>1, <1>6, <2>1, <2>2, WaitersKept DEF Vblank, Placed
<1>7. CASE InterruptPrint
  <2> DEFINE e == Served(notifier, workEv \cup {"PRINT"})
  <2>1. notifier \in AtWork \ {"off"} /\ workEv \cup {"PRINT"} \in SUBSET (Commands \cup {"OK"})
    BY <1>1, <1>7 DEF InterruptPrint, Fits, Commands
  <2>2. e.at \in AtWork \ {"off"} /\ e.bits \in SUBSET (Commands \cup {"OK"})
    BY <2>1, ServedTyped
  <2>3. WorkIs(Served(e.at, e.bits \cup {"OK"}))
    BY <1>7 DEF InterruptPrint
  <2> HIDE DEF e
  <2>4. e.bits \cup {"OK"} \in SUBSET (Commands \cup {"OK"})
    BY <2>2
  <2>5. notifier' \in AtWork \ {"off"} /\ workEv' \subseteq Commands \cup {"OK"}
    BY <2>2, <2>3, <2>4, ServedTyped DEF WorkIs
  <2>6. Fits'
    BY <1>1, <1>7, <2>1, <2>5 DEF InterruptPrint, Fits
  <2> QED BY <1>1, <1>7, <2>6, WaitersKept DEF InterruptPrint, Placed
<1>8. ASSUME NEW t \in Threads, PrintStep(t) PROVE TypeInv'
  <2>1. ASSUME NEW from, NEW to \in Points \ {"blocked"}, from # "blocked", PrintGoes(t, from, to),
               UNCHANGED waiter, Fits'
        PROVE  TypeInv'
    <3>1. /\ printer' \in [Threads -> Points] /\ menu' \in MenuPoints
          /\ (menu' = "blocked") = (menu = "blocked")
          /\ \A u \in Threads : (printer'[u] = "blocked") = (printer[u] = "blocked")
      BY <1>1, <2>1 DEF Placed, PrintGoes
    <3> QED BY <2>1, <3>1, WaitersKept
  <2>2. CASE PrintTest(t)
    <3>1. Fits'
      BY <1>1, <2>2 DEF PrintTest, PrintGoes, Fits
    <3> QED BY <2>1, <2>2, <3>1 DEF PrintTest, Points
  <2>3. CASE PrintSet(t)
    <3>1. Fits'
      BY <1>1, <1>3, <2>3 DEF PrintSet, PrintGoes, Fits, Commands
    <3> QED BY <2>1, <2>3, <3>1 DEF PrintSet, Points
  <2>4. CASE PrintWait(t)
    <3>1. Fits'
      BY <1>1, <2>4 DEF PrintWait, PrintGoes, Await, Fits
    <3> QED BY <1>1, <2>4, <3>1, Waited DEF PrintWait, PrintGoes
  <2>5. CASE PrintWrite(t)
    <3>1. Fits'
      BY <1>1, <2>5 DEF PrintWrite, PrintGoes, Fits
    <3> QED BY <2>1, <2>5, <3>1 DEF PrintWrite, Points
  <2>6. CASE PrintDone(t)
    <3>1. Fits'
      BY <1>1, <1>3, <2>6 DEF PrintDone, PrintGoes, Fits, Commands
    <3> QED BY <2>1, <2>6, <3>1 DEF PrintDone, Points
  <2> QED BY <1>8, <2>2, <2>3, <2>4, <2>5, <2>6 DEF PrintStep
<1>9. CASE MacroFire
  <2>1. ASSUME NEW from, NEW to \in MenuPoints \ {"blocked"}, from # "blocked",
               menu = from, menu' = to, UNCHANGED <<printer, waiter>>, Fits'
        PROVE  TypeInv'
    BY <1>1, <2>1, WaitersKept DEF Placed
  <2>2. ASSUME NEW from, NEW to \in MenuPoints \ {"blocked"}, from # "blocked", Passes(from, to)
        PROVE  TypeInv'
    <3>1. Fits'
      BY <1>1, <2>2 DEF Passes, MenuGoes, Fits
    <3> QED BY <2>1, <2>2, <3>1 DEF Passes, MenuGoes
  <2>3. ASSUME NEW from, NEW to \in MenuPoints \ {"blocked"}, from # "blocked", Start(from, to)
        PROVE  TypeInv'
    <3>1. Fits'
      BY <1>1, <2>3 DEF Start, Fits, AtWork
    <3> QED BY <2>1, <2>3, <3>1 DEF Start
  <2>4. CASE Boot
    BY <2>2, <2>3, <2>4 DEF Boot, MenuPoints
  <2>5. CASE MenuOpen
    <3>1. Fits'
      BY <1>1, <1>3, <2>5 DEF MenuOpen, MenuGoes, Fits, Commands
    <3> QED BY <2>1, <2>5, <3>1 DEF MenuOpen, MenuGoes, MenuPoints
  <2>6. CASE MenuSuspend
    BY <2>2, <2>6 DEF MenuSuspend, MenuPoints
  <2>7. CASE MenuTerm
    BY <2>2, <2>3, <2>7 DEF MenuTerm, MenuPoints
  <2>8. CASE ShutdownSet
    <3>1. Fits'
      BY <1>1, <1>3, <2>8 DEF ShutdownSet, MenuGoes, Fits, Commands
    <3> QED BY <2>1, <2>8, <3>1 DEF ShutdownSet, MenuGoes, MenuPoints
  <2>9. CASE ShutdownWait
    <3>1. Fits'
      BY <1>1, <2>9 DEF ShutdownWait, MenuGoes, Await, Fits
    <3> QED BY <1>1, <2>9, <3>1, Waited DEF ShutdownWait, MenuGoes, Threads
  <2>10. CASE Destroy
    <3>1. Fits'
      BY <1>1, <2>10 DEF Destroy, MenuGoes, Fits
    <3> QED BY <2>1, <2>10, <3>1 DEF Destroy, MenuGoes, MenuPoints
  <2>11. CASE Forget
    <3>1. Fits'
      BY <1>1, <2>11 DEF Forget, MenuGoes, Fits
    <3> QED BY <2>1, <2>11, <3>1 DEF Forget, MenuGoes, MenuPoints
  <2>12. CASE PrintStep("macrofire")
    BY <1>8, <2>12 DEF Threads
  <2> QED BY <1>9, <2>4, <2>5, <2>6, <2>7, <2>8, <2>9, <2>10, <2>11, <2>12 DEF MacroFire
<1> QED BY <1>4, <1>5, <1>6, <1>7, <1>8, <1>9 DEF Next, Stopped, Threads

\* Every variable of the messages has its type in every run, whoever prints: selfThreadId
\* tells whether the notifier is there, and of those who wait for ctrlEvId the kernel knows
\* the one.
THEOREM TypeCorrect == Spec => []TypeOK
<1>1. Init => TypeInv
  BY DEF Init, TypeInv, TypeOK, Alone, Threads
<1>2. TypeInv => TypeOK
  BY DEF TypeInv
<1> QED BY <1>1, <1>2, TypeStep, PTL DEF Spec

\* No bits are set but those that are posted.
LEMMA NothingElsePosted ==
  ASSUME NEW n, NEW add, Post(n, add)
  PROVE  workEv' \subseteq workEv \cup add
<1>1. \/ workEv' = (workEv \cup add) \ Commands
      \/ workEv' = (workEv \cup add) \ {"OK"}
      \/ workEv' = workEv \cup add
  BY Posted
<1> QED BY <1>1

-----------------------------------------------------------------------------
(* The handshake. *)

Good == (fault = "none" => Always) /\ (intruded \/ Turns) /\ (intruded \/ fault = "none")

\* Setting ctrlEv, when no game thread prints.
LEMMA Granted ==
  ASSUME Fits, Placed, printer["game"] = "idle", Grant
  PROVE  /\ printer'["game"] = "idle"
         /\ main' = (IF main = "blocked" THEN "write" ELSE main)
         /\ menu' = (IF menu = "blocked" THEN "destroy" ELSE menu)
         /\ main = "blocked" \/ menu = "blocked" => ctrlEv' = ctrlEv
         /\ main # "blocked" /\ menu # "blocked" => ctrlEv' = TRUE
<1>1. waiter = IF main = "blocked" \/ menu = "blocked" THEN "macrofire" ELSE "none"
  BY DEF Placed, main
<1>2. printer'["game"] = "idle" /\ main' = (IF main = "blocked" THEN "write" ELSE main)
  BY <1>1 DEF Grant, main, Threads
<1>3. menu' = (IF menu = "blocked" THEN "destroy" ELSE menu)
  BY <1>1 DEF Grant
<1>4. /\ main = "blocked" \/ menu = "blocked" => ctrlEv' = ctrlEv
      /\ main # "blocked" /\ menu # "blocked" => ctrlEv' = TRUE
  <2>1. ctrlEv' = (ctrlEv \/ waiter = "none") /\ ctrlEv \in BOOLEAN
    BY DEF Grant, Fits
  <2> QED BY <1>1, <2>1
<1> QED BY <1>2, <1>3, <1>4

\* Starting the notifier anew makes everything good.
LEMMA Started ==
  ASSUME Fits, Placed, Always, fault = "none", NEW from \in {"boot", "open"},
         NEW to \in {"closed", "frame"}, Start(from, to), from = "open" => ~(uid /\ thread)
  PROVE  Good'
<1>1. /\ main = "idle" /\ main' = "idle" /\ menu' = to /\ printer'["game"] = "idle"
      /\ uid' = TRUE /\ thread' = TRUE /\ notifier' = "command" /\ ctrlEv' = FALSE /\ workEv' = {}
      /\ fault' = "none" /\ intruded' = FALSE
  BY DEF Start, Always, main
<1>2. written' = FALSE
  <2>1. ~thread /\ menu \notin {"wait", "blocked", "destroy"}
    BY DEF Start, Always
  <2>2. ~written
    BY <2>1 DEF Always
  <2> QED BY <2>2 DEF Start, Fits
<1>3. Always'
  BY <1>1 DEF Always
<1>4. Turns'
  BY <1>1, <1>2 DEF Turns, OnlyAsked, TurnAsked, EndAsked, NothingAsked, WrittenSeen, AsksTurn, AsksEnd
<1> QED BY <1>1, <1>3, <1>4 DEF Good

\* A step of the MacroFire thread in a print.
LEMMA Moved ==
  ASSUME Placed, NEW from, NEW to, PrintGoes("macrofire", from, to)
  PROVE  /\ main = from /\ main' = to /\ printer'["game"] = printer["game"]
         /\ notifier \notin {"command", "grant", "accept", "poll", "leave"}
         /\ UNCHANGED <<uid, thread, intruded, menu>>
BY DEF Placed, PrintGoes, Runs, main, Threads

LEMMA GoodStep ==
  ASSUME Printers \subseteq {"interrupt"}, Inv, fault = "none", [Next]_vars
  PROVE  Good'
<1> USE DEF Always, Turns, OnlyAsked, TurnAsked, EndAsked, NothingAsked, WrittenSeen,
            AsksTurn, AsksEnd
<1>1. /\ Fits /\ Placed /\ Always /\ (intruded \/ Turns)
      /\ main \in Points /\ printer["game"] = "idle"
  BY Fitting DEF Inv, Placed, Threads, main
<1>2. CASE UNCHANGED vars
  BY <1>1, <1>2 DEF Good, main, vars, msgVars
<1>3. CASE NotifierWait
  <2>2. (fault' = "none" => Always') /\ (intruded' \/ fault' = "none")
    BY <1>1, <1>3, Posted DEF main, NotifierWait, msgVars, Obey, Commands, Fits, Placed
  <2>3. ASSUME ~intruded' PROVE Turns'
    <3>1. Turns
      BY <1>1, <2>3, <1>3 DEF NotifierWait, msgVars
    <3>2. OnlyAsked'
      <4>1. workEv' \subseteq workEv \cup {}
        BY <1>3, NothingElsePosted DEF NotifierWait
      <4>2. "PRINT" \in workEv' => AsksTurn'
        BY <1>1, <3>1, <1>3, Posted DEF main, NotifierWait, msgVars, Obey, Commands
      <4>3. "SHUTDOWN" \in workEv' => AsksEnd'
        BY <1>1, <3>1, <1>3, Posted DEF NotifierWait, msgVars, Obey, Commands
      <4> QED BY <3>1, <4>1, <4>2, <4>3
    <3>3. TurnAsked'
      BY <1>1, <3>1, <1>3, Posted DEF main, NotifierWait, msgVars, Obey, Commands, Fits, Placed
    <3>4. EndAsked'
      BY <1>1, <3>1, <1>3, Posted DEF main, NotifierWait, msgVars, Obey, Commands, Fits, Placed
    <3>5. NothingAsked'
      BY <1>1, <3>1, <1>3, Posted DEF main, NotifierWait, msgVars, Obey, Commands, Fits, Placed
    <3>6. WrittenSeen'
      BY <1>1, <3>1, <1>3, Posted DEF main, NotifierWait, msgVars, Obey, Commands, Fits, Placed
    <3> QED BY <3>2, <3>3, <3>4, <3>5, <3>6
  <2> QED BY <2>2, <2>3 DEF Good
<1>4. CASE NotifierGrant
  <2>1. /\ printer'["game"] = "idle"
        /\ main' = (IF main = "blocked" THEN "write" ELSE main)
        /\ menu' = (IF menu = "blocked" THEN "destroy" ELSE menu)
        /\ main = "blocked" \/ menu = "blocked" => ctrlEv' = ctrlEv
        /\ main # "blocked" /\ menu # "blocked" => ctrlEv' = TRUE
    BY <1>1, <1>4, Granted DEF NotifierGrant
  <2>2. (fault' = "none" => Always') /\ (intruded' \/ fault' = "none")
    BY <1>1, <1>4, <2>1 DEF NotifierGrant, msgVars, Fits, Placed
  <2>3. ASSUME ~intruded' PROVE Turns'
    <3>1. Turns
      BY <1>1, <2>3, <1>4, <2>1 DEF NotifierGrant, msgVars
    <3>2. main \in {"wait", "blocked"} /\ ~ctrlEv
      BY <1>1, <1>4, <3>1 DEF NotifierGrant, Points
    <3>3. /\ menu' = "closed" /\ notifier' = "accept" /\ main' \in {"wait", "write"}
          /\ workEv' = workEv /\ written' = written
      BY <1>1, <1>4, <2>1, <3>2 DEF NotifierGrant, msgVars
    <3>4. (main' = "write" => ~ctrlEv') /\ (main' = "wait" => ctrlEv')
      BY <1>1, <2>1, <3>2 DEF Fits
    <3>5. OnlyAsked' /\ TurnAsked' /\ EndAsked'
      BY <1>1, <1>4, <3>1, <2>1 DEF NotifierGrant, msgVars, Fits, Placed
    <3>6. NothingAsked' /\ WrittenSeen'
      BY <1>4, <2>1, <3>1, <3>2, <3>3, <3>4 DEF NotifierGrant
    <3> QED BY <3>5, <3>6
  <2> QED BY <2>2, <2>3 DEF Good
<1>5. CASE NotifierAccept
  <2>2. (fault' = "none" => Always') /\ (intruded' \/ fault' = "none")
    BY <1>1, <1>5, Posted DEF main, NotifierAccept, msgVars, Obey, Commands, Fits, Placed
  <2>3. ASSUME ~intruded' PROVE Turns'
    <3>1. Turns
      BY <1>1, <2>3, <1>5 DEF NotifierAccept, msgVars
    <3>2. OnlyAsked'
      <4>1. workEv' \subseteq workEv \cup {}
        BY <1>5, NothingElsePosted DEF NotifierAccept
      <4>2. "PRINT" \in workEv' => AsksTurn'
        BY <1>1, <3>1, <1>5, Posted DEF main, NotifierAccept, msgVars, Obey, Commands
      <4>3. "SHUTDOWN" \in workEv' => AsksEnd'
        BY <1>1, <3>1, <1>5, Posted DEF NotifierAccept, msgVars, Obey, Commands
      <4> QED BY <3>1, <4>1, <4>2, <4>3
    <3>3. TurnAsked'
      BY <1>1, <3>1, <1>5, Posted DEF main, NotifierAccept, msgVars, Obey, Commands, Fits, Placed
    <3>4. EndAsked'
      BY <1>1, <3>1, <1>5, Posted DEF main, NotifierAccept, msgVars, Obey, Commands, Fits, Placed
    <3>5. NothingAsked'
      BY <1>1, <3>1, <1>5, Posted DEF main, NotifierAccept, msgVars, Obey, Commands, Fits, Placed
    <3>6. WrittenSeen'
      BY <1>1, <3>1, <1>5, Posted DEF main, NotifierAccept, msgVars, Obey, Commands, Fits, Placed
    <3> QED BY <3>2, <3>3, <3>4, <3>5, <3>6
  <2> QED BY <2>2, <2>3 DEF Good
<1>6. CASE NotifierPoll
  <2>2. (fault' = "none" => Always') /\ (intruded' \/ fault' = "none")
    BY <1>1, <1>6 DEF main, NotifierPoll, Commands, Fits, Placed
  <2>3. ASSUME ~intruded' PROVE Turns'
    <3>1. Turns
      BY <1>1, <2>3, <1>6 DEF NotifierPoll, Commands
    <3>2. OnlyAsked'
      BY <1>1, <3>1, <1>6 DEF main, NotifierPoll, Commands, Fits, Placed
    <3>3. TurnAsked'
      BY <1>1, <3>1, <1>6 DEF main, NotifierPoll, Commands, Fits, Placed
    <3>4. EndAsked'
      BY <1>1, <3>1, <1>6 DEF main, NotifierPoll, Commands, Fits, Placed
    <3>5. NothingAsked'
      BY <1>1, <3>1, <1>6 DEF main, NotifierPoll, Commands, Fits, Placed
    <3>6. WrittenSeen'
      BY <1>1, <3>1, <1>6 DEF main, NotifierPoll, Commands, Fits, Placed
    <3> QED BY <3>2, <3>3, <3>4, <3>5, <3>6
  <2> QED BY <2>2, <2>3 DEF Good
<1>7. CASE NotifierLeave
  <2>1. /\ printer'["game"] = "idle"
        /\ main' = (IF main = "blocked" THEN "write" ELSE main)
        /\ menu' = (IF menu = "blocked" THEN "destroy" ELSE menu)
        /\ main = "blocked" \/ menu = "blocked" => ctrlEv' = ctrlEv
        /\ main # "blocked" /\ menu # "blocked" => ctrlEv' = TRUE
    BY <1>1, <1>7, Granted DEF NotifierLeave
  <2>2. (fault' = "none" => Always') /\ (intruded' \/ fault' = "none")
    BY <1>1, <1>7, <2>1 DEF NotifierLeave, Fits, Placed
  <2>3. ASSUME ~intruded' PROVE Turns'
    <3>1. Turns
      BY <1>1, <2>3, <1>7, <2>1 DEF NotifierLeave
    <3>2. OnlyAsked'
      BY <1>1, <3>1, <1>7, <2>1 DEF NotifierLeave, Fits, Placed
    <3>3. TurnAsked'
      BY <1>1, <3>1, <1>7, <2>1 DEF NotifierLeave, Fits, Placed
    <3>4. EndAsked'
      BY <1>1, <3>1, <1>7, <2>1 DEF NotifierLeave, Fits, Placed
    <3>5. NothingAsked'
      BY <1>1, <3>1, <1>7, <2>1 DEF NotifierLeave, Fits, Placed
    <3>6. WrittenSeen'
      BY <1>1, <3>1, <1>7, <2>1 DEF NotifierLeave, Fits, Placed
    <3> QED BY <3>2, <3>3, <3>4, <3>5, <3>6
  <2> QED BY <2>2, <2>3 DEF Good
<1>8. CASE Vblank
  <2>2. (fault' = "none" => Always') /\ (intruded' \/ fault' = "none")
    BY <1>1, <1>8 DEF main, Vblank, msgVars, Fits, Placed
  <2>3. ASSUME ~intruded' PROVE Turns'
    <3>1. Turns
      BY <1>1, <2>3, <1>8 DEF Vblank, msgVars
    <3>2. OnlyAsked'
      BY <1>1, <3>1, <1>8 DEF main, Vblank, msgVars, Fits, Placed
    <3>3. TurnAsked'
      BY <1>1, <3>1, <1>8 DEF main, Vblank, msgVars, Fits, Placed
    <3>4. EndAsked'
      BY <1>1, <3>1, <1>8 DEF main, Vblank, msgVars, Fits, Placed
    <3>5. NothingAsked'
      BY <1>1, <3>1, <1>8 DEF main, Vblank, msgVars, Fits, Placed
    <3>6. WrittenSeen'
      BY <1>1, <3>1, <1>8 DEF main, Vblank, msgVars, Fits, Placed
    <3> QED BY <3>2, <3>3, <3>4, <3>5, <3>6
  <2> QED BY <2>2, <2>3 DEF Good
<1>9. CASE MenuOpen
  <2>2. (fault' = "none" => Always') /\ (intruded' \/ fault' = "none")
    BY <1>1, <1>9, Posted DEF main, MenuOpen, MenuGoes, Runs, Obey, Commands, Fits, Placed
  <2>3. ASSUME ~intruded' PROVE Turns'
    <3>1. Turns
      BY <1>1, <2>3, <1>9 DEF MenuOpen, MenuGoes, Runs
    <3>2. OnlyAsked'
      <4>1. workEv' \subseteq workEv \cup {"SUSPEND"}
        BY <1>9, NothingElsePosted DEF MenuOpen
      <4>2. "PRINT" \in workEv' => AsksTurn'
        BY <1>1, <3>1, <1>9, Posted DEF main, MenuOpen, MenuGoes, Runs, Obey, Commands
      <4>3. "SHUTDOWN" \in workEv' => AsksEnd'
        BY <1>1, <3>1, <1>9, Posted DEF MenuOpen, MenuGoes, Runs, Obey, Commands
      <4> QED BY <3>1, <4>1, <4>2, <4>3
    <3>3. TurnAsked'
      BY <1>1, <3>1, <1>9, Posted DEF main, MenuOpen, MenuGoes, Runs, Obey, Commands, Fits, Placed
    <3>4. EndAsked'
      BY <1>1, <3>1, <1>9, Posted DEF main, MenuOpen, MenuGoes, Runs, Obey, Commands, Fits, Placed
    <3>5. NothingAsked'
      BY <1>1, <3>1, <1>9, Posted DEF main, MenuOpen, MenuGoes, Runs, Obey, Commands, Fits, Placed
    <3>6. WrittenSeen'
      BY <1>1, <3>1, <1>9, Posted DEF main, MenuOpen, MenuGoes, Runs, Obey, Commands, Fits, Placed
    <3> QED BY <3>2, <3>3, <3>4, <3>5, <3>6
  <2> QED BY <2>2, <2>3 DEF Good
<1>10. CASE MenuSuspend
  <2>2. (fault' = "none" => Always') /\ (intruded' \/ fault' = "none")
    BY <1>1, <1>10 DEF main, MenuSuspend, Passes, MenuGoes, Runs, Fits, Placed
  <2>3. ASSUME ~intruded' PROVE Turns'
    <3>1. Turns
      BY <1>1, <2>3, <1>10 DEF MenuSuspend, Passes, MenuGoes, Runs
    <3>2. OnlyAsked'
      BY <1>1, <3>1, <1>10 DEF main, MenuSuspend, Passes, MenuGoes, Runs, Fits, Placed
    <3>3. TurnAsked'
      BY <1>1, <3>1, <1>10 DEF main, MenuSuspend, Passes, MenuGoes, Runs, Fits, Placed
    <3>4. EndAsked'
      BY <1>1, <3>1, <1>10 DEF main, MenuSuspend, Passes, MenuGoes, Runs, Fits, Placed
    <3>5. NothingAsked'
      BY <1>1, <3>1, <1>10 DEF main, MenuSuspend, Passes, MenuGoes, Runs, Fits, Placed
    <3>6. WrittenSeen'
      BY <1>1, <3>1, <1>10 DEF main, MenuSuspend, Passes, MenuGoes, Runs, Fits, Placed
    <3> QED BY <3>2, <3>3, <3>4, <3>5, <3>6
  <2> QED BY <2>2, <2>3 DEF Good
<1>11. CASE ShutdownSet
  <2>2. (fault' = "none" => Always') /\ (intruded' \/ fault' = "none")
    BY <1>1, <1>11, Posted DEF main, ShutdownSet, MenuGoes, Runs, Obey, Commands, Fits, Placed
  <2>3. ASSUME ~intruded' PROVE Turns'
    <3>1. Turns
      BY <1>1, <2>3, <1>11 DEF ShutdownSet, MenuGoes, Runs
    <3>2. OnlyAsked'
      <4>1. workEv' \subseteq workEv \cup {"SHUTDOWN"}
        BY <1>11, NothingElsePosted DEF ShutdownSet
      <4>2. "PRINT" \in workEv' => AsksTurn'
        BY <1>1, <3>1, <1>11, Posted DEF main, ShutdownSet, MenuGoes, Runs, Obey, Commands
      <4>3. "SHUTDOWN" \in workEv' => AsksEnd'
        BY <1>1, <3>1, <1>11, Posted DEF ShutdownSet, MenuGoes, Runs, Obey, Commands
      <4> QED BY <3>1, <4>1, <4>2, <4>3
    <3>3. TurnAsked'
      BY <1>1, <3>1, <1>11, Posted DEF main, ShutdownSet, MenuGoes, Runs, Obey, Commands, Fits, Placed
    <3>4. EndAsked'
      BY <1>1, <3>1, <1>11, Posted DEF main, ShutdownSet, MenuGoes, Runs, Obey, Commands, Fits, Placed
    <3>5. NothingAsked'
      BY <1>1, <3>1, <1>11, Posted DEF main, ShutdownSet, MenuGoes, Runs, Obey, Commands, Fits, Placed
    <3>6. WrittenSeen'
      BY <1>1, <3>1, <1>11, Posted DEF main, ShutdownSet, MenuGoes, Runs, Obey, Commands, Fits, Placed
    <3> QED BY <3>2, <3>3, <3>4, <3>5, <3>6
  <2> QED BY <2>2, <2>3 DEF Good
<1>12. CASE ShutdownWait
  <2>2. (fault' = "none" => Always') /\ (intruded' \/ fault' = "none")
    BY <1>1, <1>12 DEF main, ShutdownWait, MenuGoes, Runs, Await, GoesOn, Fits, Placed
  <2>3. ASSUME ~intruded' PROVE Turns'
    <3>1. Turns
      BY <1>1, <2>3, <1>12 DEF ShutdownWait, MenuGoes, Runs, Await, GoesOn
    <3>2. OnlyAsked'
      BY <1>1, <3>1, <1>12 DEF main, ShutdownWait, MenuGoes, Runs, Await, GoesOn, Fits, Placed
    <3>3. TurnAsked'
      BY <1>1, <3>1, <1>12 DEF main, ShutdownWait, MenuGoes, Runs, Await, GoesOn, Fits, Placed
    <3>4. EndAsked'
      BY <1>1, <3>1, <1>12 DEF main, ShutdownWait, MenuGoes, Runs, Await, GoesOn, Fits, Placed
    <3>5. NothingAsked'
      BY <1>1, <3>1, <1>12 DEF main, ShutdownWait, MenuGoes, Runs, Await, GoesOn, Fits, Placed
    <3>6. WrittenSeen'
      BY <1>1, <3>1, <1>12 DEF main, ShutdownWait, MenuGoes, Runs, Await, GoesOn, Fits, Placed
    <3> QED BY <3>2, <3>3, <3>4, <3>5, <3>6
  <2> QED BY <2>2, <2>3 DEF Good
<1>13. CASE Destroy
  <2>2. (fault' = "none" => Always') /\ (intruded' \/ fault' = "none")
    BY <1>1, <1>13 DEF main, Destroy, InUse, MenuGoes, Runs, Fits, Placed
  <2>3. ASSUME ~intruded' PROVE Turns'
    <3>1. Turns
      BY <1>1, <2>3, <1>13 DEF Destroy, InUse, MenuGoes, Runs
    <3>2. OnlyAsked'
      BY <1>1, <3>1, <1>13 DEF main, Destroy, InUse, MenuGoes, Runs, Fits, Placed
    <3>3. TurnAsked'
      BY <1>1, <3>1, <1>13 DEF main, Destroy, InUse, MenuGoes, Runs, Fits, Placed
    <3>4. EndAsked'
      BY <1>1, <3>1, <1>13 DEF main, Destroy, InUse, MenuGoes, Runs, Fits, Placed
    <3>5. NothingAsked'
      BY <1>1, <3>1, <1>13 DEF main, Destroy, InUse, MenuGoes, Runs, Fits, Placed
    <3>6. WrittenSeen'
      BY <1>1, <3>1, <1>13 DEF main, Destroy, InUse, MenuGoes, Runs, Fits, Placed
    <3> QED BY <3>2, <3>3, <3>4, <3>5, <3>6
  <2> QED BY <2>2, <2>3 DEF Good
<1>14. CASE Forget
  <2>2. (fault' = "none" => Always') /\ (intruded' \/ fault' = "none")
    BY <1>1, <1>14 DEF main, Forget, MenuGoes, Runs, Fits, Placed
  <2>3. ASSUME ~intruded' PROVE Turns'
    <3>1. Turns
      BY <1>1, <2>3, <1>14 DEF Forget, MenuGoes, Runs
    <3>2. OnlyAsked'
      BY <1>1, <3>1, <1>14 DEF main, Forget, MenuGoes, Runs, Fits, Placed
    <3>3. TurnAsked'
      BY <1>1, <3>1, <1>14 DEF main, Forget, MenuGoes, Runs, Fits, Placed
    <3>4. EndAsked'
      BY <1>1, <3>1, <1>14 DEF main, Forget, MenuGoes, Runs, Fits, Placed
    <3>5. NothingAsked'
      BY <1>1, <3>1, <1>14 DEF main, Forget, MenuGoes, Runs, Fits, Placed
    <3>6. WrittenSeen'
      BY <1>1, <3>1, <1>14 DEF main, Forget, MenuGoes, Runs, Fits, Placed
    <3> QED BY <3>2, <3>3, <3>4, <3>5, <3>6
  <2> QED BY <2>2, <2>3 DEF Good
<1>15. CASE PrintTest("macrofire")
  <2>1. /\ main = "idle" /\ main' = "set"
        /\ printer'["game"] = "idle" /\ menu = "closed"
        /\ notifier \notin {"command", "grant", "accept", "poll", "leave"}
        /\ UNCHANGED <<uid, thread, intruded, menu>>
    BY <1>1, <1>15, Moved DEF PrintTest
  <2>2. (fault' = "none" => Always') /\ (intruded' \/ fault' = "none")
    BY <1>1, <1>15, <2>1 DEF PrintTest, Fits, Placed
  <2>3. ASSUME ~intruded' PROVE Turns'
    <3>1. Turns
      BY <1>1, <2>3, <1>15, <2>1 DEF PrintTest
    <3>2. OnlyAsked'
      BY <1>1, <3>1, <1>15, <2>1 DEF PrintTest, Fits, Placed
    <3>3. TurnAsked'
      BY <1>1, <3>1, <1>15, <2>1 DEF PrintTest, Fits, Placed
    <3>4. EndAsked'
      BY <1>1, <3>1, <1>15, <2>1 DEF PrintTest, Fits, Placed
    <3>5. NothingAsked'
      BY <1>1, <3>1, <1>15, <2>1 DEF PrintTest, Fits, Placed
    <3>6. WrittenSeen'
      BY <1>1, <3>1, <1>15, <2>1 DEF PrintTest, Fits, Placed
    <3> QED BY <3>2, <3>3, <3>4, <3>5, <3>6
  <2> QED BY <2>2, <2>3 DEF Good
<1>16. CASE PrintSet("macrofire")
  <2>1. /\ main = "set" /\ main' = "wait"
        /\ printer'["game"] = "idle" /\ menu = "closed"
        /\ notifier \notin {"command", "grant", "accept", "poll", "leave"}
        /\ UNCHANGED <<uid, thread, intruded, menu>>
    BY <1>1, <1>16, Moved DEF PrintSet
  <2>2. (fault' = "none" => Always') /\ (intruded' \/ fault' = "none")
    BY <1>1, <1>16, <2>1, Posted DEF PrintSet, Obey, Commands, Fits, Placed
  <2>3. ASSUME ~intruded' PROVE Turns'
    <3>1. Turns
      BY <1>1, <2>3, <1>16, <2>1 DEF PrintSet
    <3>2. OnlyAsked'
      <4>1. workEv' \subseteq workEv \cup {"PRINT"}
        BY <1>16, NothingElsePosted DEF PrintSet
      <4>2. "PRINT" \in workEv' => AsksTurn'
        BY <1>1, <3>1, <1>16, <2>1, Posted DEF PrintSet, Obey, Commands
      <4>3. "SHUTDOWN" \in workEv' => AsksEnd'
        BY <1>1, <3>1, <1>16, <2>1, Posted DEF PrintSet, Obey, Commands
      <4> QED BY <3>1, <4>1, <4>2, <4>3
    <3>3. TurnAsked'
      BY <1>1, <3>1, <1>16, <2>1, Posted DEF PrintSet, Obey, Commands, Fits, Placed
    <3>4. EndAsked'
      BY <1>1, <3>1, <1>16, <2>1, Posted DEF PrintSet, Obey, Commands, Fits, Placed
    <3>5. NothingAsked'
      BY <1>1, <3>1, <1>16, <2>1, Posted DEF PrintSet, Obey, Commands, Fits, Placed
    <3>6. WrittenSeen'
      BY <1>1, <3>1, <1>16, <2>1, Posted DEF PrintSet, Obey, Commands, Fits, Placed
    <3> QED BY <3>2, <3>3, <3>4, <3>5, <3>6
  <2> QED BY <2>2, <2>3 DEF Good
<1>17. CASE PrintWait("macrofire")
  <2>1. /\ main = "wait" /\ main' = (IF GoesOn THEN "write" ELSE "blocked")
        /\ printer'["game"] = "idle" /\ menu = "closed"
        /\ notifier \notin {"command", "grant", "accept", "poll", "leave"}
        /\ UNCHANGED <<uid, thread, intruded, menu>>
    BY <1>1, <1>17, Moved DEF PrintWait
  <2>2. (fault' = "none" => Always') /\ (intruded' \/ fault' = "none")
    BY <1>1, <1>17, <2>1 DEF PrintWait, Await, GoesOn, Fits, Placed
  <2>3. ASSUME ~intruded' PROVE Turns'
    <3>1. Turns
      BY <1>1, <2>3, <1>17, <2>1 DEF PrintWait, Await, GoesOn
    <3>0. /\ workEv' = workEv /\ notifier' = notifier /\ ctrlEv' = FALSE
          /\ main' \in {"write", "blocked"} /\ (main' = "write" => ctrlEv)
      BY <1>1, <1>17, <2>1 DEF PrintWait, Await, GoesOn, Placed, main
    <3>2. OnlyAsked'
      BY <1>1, <3>0, <3>1, <2>1 DEF PrintWait, Await, GoesOn, Fits, Placed
    <3>3. TurnAsked'
      BY <1>1, <3>1, <1>17, <2>1 DEF PrintWait, Await, GoesOn, Fits, Placed
    <3>4. EndAsked'
      BY <1>1, <3>1, <1>17, <2>1 DEF PrintWait, Await, GoesOn, Fits, Placed
    <3>5. NothingAsked'
      BY <1>1, <3>0, <3>1, <2>1 DEF PrintWait, Await, GoesOn, Fits, Placed
    <3>6. WrittenSeen'
      BY <1>1, <3>1, <1>17, <2>1 DEF PrintWait, Await, GoesOn, Fits, Placed
    <3> QED BY <3>2, <3>3, <3>4, <3>5, <3>6
  <2> QED BY <2>2, <2>3 DEF Good
<1>18. CASE PrintWrite("macrofire")
  <2>1. /\ main = "write" /\ main' = "done"
        /\ printer'["game"] = "idle" /\ menu = "closed"
        /\ notifier \notin {"command", "grant", "accept", "poll", "leave"}
        /\ UNCHANGED <<uid, thread, intruded, menu>>
    BY <1>1, <1>18, Moved DEF PrintWrite
  <2>2. (fault' = "none" => Always') /\ (intruded' \/ fault' = "none")
    BY <1>1, <1>18, <2>1 DEF PrintWrite, Fits, Placed
  <2>3. ASSUME ~intruded' PROVE Turns'
    <3>1. Turns
      BY <1>1, <2>3, <1>18, <2>1 DEF PrintWrite
    <3>2. OnlyAsked'
      BY <1>1, <3>1, <1>18, <2>1 DEF PrintWrite, Fits, Placed
    <3>3. TurnAsked'
      BY <1>1, <3>1, <1>18, <2>1 DEF PrintWrite, Fits, Placed
    <3>4. EndAsked'
      BY <1>1, <3>1, <1>18, <2>1 DEF PrintWrite, Fits, Placed
    <3>5. NothingAsked'
      BY <1>1, <3>1, <1>18, <2>1 DEF PrintWrite, Fits, Placed
    <3>6. WrittenSeen'
      BY <1>1, <3>1, <1>18, <2>1 DEF PrintWrite, Fits, Placed
    <3> QED BY <3>2, <3>3, <3>4, <3>5, <3>6
  <2> QED BY <2>2, <2>3 DEF Good
<1>19. CASE PrintDone("macrofire")
  <2>1. /\ main = "done" /\ main' = "idle"
        /\ printer'["game"] = "idle" /\ menu = "closed"
        /\ notifier \notin {"command", "grant", "accept", "poll", "leave"}
        /\ UNCHANGED <<uid, thread, intruded, menu>>
    BY <1>1, <1>19, Moved DEF PrintDone
  <2>2. (fault' = "none" => Always') /\ (intruded' \/ fault' = "none")
    BY <1>1, <1>19, <2>1, Posted DEF PrintDone, Obey, Commands, Fits, Placed
  <2>3. ASSUME ~intruded' PROVE Turns'
    <3>1. Turns
      BY <1>1, <2>3, <1>19, <2>1 DEF PrintDone
    <3>0. /\ notifier = "unwritten" /\ notifier' = "frame" /\ ctrlEv' = ctrlEv
          /\ workEv' = workEv
      <4>1. notifier = "unwritten" /\ "OK" \notin workEv
        BY <2>1, <3>1
      <4>2. notifier' = "frame" /\ workEv' = (workEv \cup {"OK"}) \ {"OK"}
        BY <1>19, <4>1 DEF PrintDone, Post, WorkIs, Served
      <4> QED BY <1>19, <4>1, <4>2 DEF PrintDone
    <3>2. OnlyAsked' /\ TurnAsked' /\ EndAsked'
      BY <2>1, <3>0, <3>1
    <3>3. NothingAsked' /\ WrittenSeen'
      BY <2>1, <3>0, <3>1
    <3> QED BY <3>2, <3>3
  <2>4. intruded' \in BOOLEAN
    BY <1>1, <2>1 DEF Fits
  <2> HIDE DEF Always, Turns
  <2> QED BY <2>2, <2>3, <2>4 DEF Good
<1>20. ASSUME NEW from \in {"boot", "open"}, NEW to \in {"closed", "frame"},
              Start(from, to), from = "open" => ~(uid /\ thread)
       PROVE  Good'
  BY <1>1, <1>20, Started
<1>21. ASSUME NEW from \in {"boot", "open"}, NEW to \in {"closed", "shutdown"},
              Passes(from, to), to = "shutdown" => uid /\ thread
       PROVE  Good'
  <2>1. /\ main = "idle" /\ main' = "idle" /\ menu = from /\ menu' = to
        /\ printer'["game"] = "idle"
        /\ UNCHANGED <<uid, thread, written, intruded, fault, ctrlEv, workEv, notifier>>
    BY <1>1, <1>21 DEF Passes, MenuGoes, main
  <2>2. Always' /\ fault' = "none"
    BY <1>1, <1>21, <2>1
  <2>3. ASSUME ~intruded' PROVE Turns'
    BY <1>1, <2>1, <2>3
  <2> QED BY <2>2, <2>3 DEF Good
<1>22. CASE Boot
  BY <1>20, <1>21, <1>22 DEF Boot
<1>23. CASE MenuTerm
  <2>1. CASE uid /\ thread /\ Passes("open", "shutdown")
    BY <1>21, <2>1
  <2>2. CASE ~(uid /\ thread) /\ Start("open", "frame")
    BY <1>20, <2>2
  <2>3. CASE Passes("open", "closed")
    BY <1>21, <2>3
  <2> QED BY <1>23, <2>1, <2>2, <2>3 DEF MenuTerm
<1>24. CASE InterruptPrint
  <2> DEFINE e == Served(notifier, workEv \cup {"PRINT"})
             f == Served(e.at, e.bits \cup {"OK"})
  <2>1. /\ uid /\ thread /\ UNCHANGED <<uid, thread, fault, menu, printer>>
        /\ intruded' = TRUE /\ notifier' = f.at /\ workEv' = f.bits
    BY <1>24 DEF InterruptPrint, WorkIs
  <2>2. notifier' = "leave" \/ "SHUTDOWN" \in workEv'
          => notifier = "leave" \/ "SHUTDOWN" \in workEv
    BY <2>1 DEF Served, Obey, Commands
  <2>3. Always'
    BY <1>1, <2>1, <2>2 DEF main
  <2> QED BY <2>1, <2>3 DEF Good
<1>25. ~PrintStep("game")
  BY <1>1 DEF PrintStep, PrintTest, PrintSet, PrintWait, PrintWrite, PrintDone, PrintGoes
<1> QED
  BY <1>2, <1>3, <1>4, <1>5, <1>6, <1>7, <1>8, <1>9, <1>10, <1>11, <1>12, <1>13, <1>14, <1>15,
     <1>16, <1>17, <1>18, <1>19, <1>22, <1>23, <1>24, <1>25
  DEF Next, Stopped, Notifier, MacroFire, PrintStep

\* As long as only interrupts print besides the MacroFire thread, the handshake of the two
\* event flags is kept: the inductive invariant is Inv.
THEOREM Invariant ==
  ASSUME Printers \subseteq {"interrupt"}
  PROVE  Spec => []Inv
<1>1. Init => Inv
  BY DEF Init, Inv, TypeInv, TypeOK, Alone, Always, Turns, OnlyAsked, TurnAsked, EndAsked,
         NothingAsked, WrittenSeen, AsksTurn, AsksEnd, main, Threads
<1>2. Inv /\ [Next]_vars => Inv'
  <2> SUFFICES ASSUME Inv, [Next]_vars PROVE Inv'
    OBVIOUS
  <2>1. TypeInv'
    BY TypeStep DEF Inv
  <2>2. Good'
    <3>1. CASE fault = "none"
      BY <3>1, GoodStep
    <3>2. CASE fault # "none"
      <4>1. UNCHANGED vars
        BY <3>2 DEF Next, Stopped
      <4>2. Good
        BY DEF Inv, Good
      <4> QED BY <4>1, <4>2 DEF Good, Always, Turns, OnlyAsked, TurnAsked, EndAsked,
              NothingAsked, WrittenSeen, AsksTurn, AsksEnd, main, vars, msgVars
    <3> QED BY <3>1, <3>2
  <2> QED BY <2>1, <2>2 DEF Inv, Good
<1> QED BY <1>1, <1>2, PTL DEF Spec

\* As long as no interrupt has printed, the message is not written while it is on the
\* screen, and st_ovmsg is neither used after ovmsgDestroy nor destroyed while it is in use.
THEOREM HandshakeKept ==
  ASSUME Printers \subseteq {"interrupt"}
  PROVE  Spec => []Handshake
<1>1. Inv => Handshake
  <2> SUFFICES ASSUME Inv, ~intruded PROVE Handshake
    BY DEF Handshake
  <2>1. fault = "none" /\ Always /\ Turns
    BY DEF Inv
  <2> QED BY <2>1 DEF Handshake, Always, Turns, OnlyAsked, TurnAsked, EndAsked,
              NothingAsked, WrittenSeen, AsksTurn, AsksEnd, main
<1> QED BY <1>1, Invariant, PTL

=============================================================================
