------------------------------- MODULE Ovmsg -------------------------------
(***************************************************************************)
(* On-screen messages (src/include/ovmsg, mfNotification* in mfmain.c): a  *)
(* thread that shows one message at a time, the notifier, and those who    *)
(* print, suspend, start and shut it down:                                 *)
(*   - the MacroFire thread, from its main loop and from the menu;         *)
(*   - a game thread inside the hooked sceHprm functions (macroMain),      *)
(*     which the menu suspends wherever it is;                             *)
(*   - the syscon interrupt (macroMain), which runs to its end and in      *)
(*     which waiting fails.                                                *)
(*                                                                         *)
(* They meet in two event flags.  Who waits for bits has them, cleared, at *)
(* the moment they are set.  One thread at a time can wait for ctrlEv;     *)
(* for a second one waiting fails.  The notifier (priority 16) preempts    *)
(* the MacroFire thread (32); of game threads nothing is assumed.          *)
(***************************************************************************)
EXTENDS Naturals

CONSTANT Printers   \* who prints besides the MacroFire thread

ASSUME PrintersAssumption == Printers \subseteq {"game", "interrupt"}

VARIABLES
  uid,         \* st_ovmsg # 0
  thread,      \* params->selfThreadId # 0
  ctrlEv,      \* whether OVMSG_EVENT_OK is set in ctrlEvId
  waiter,      \* kernel: the thread that waits for ctrlEv
  workEv,      \* bits set in workEvId
  notifier,    \* control point of the notifier
  printer,     \* control points of the MacroFire thread and the game thread in a print
  menu,        \* control point of the MacroFire thread in the menu
  written,     \* history: a message has been written and not yet drawn
  intruded,    \* history: an interrupt has printed since the notifier was started
  fault        \* history: the invalid use of st_ovmsg, if any

msgVars == <<uid, thread, written, intruded, fault>>
vars == <<msgVars, ctrlEv, waiter, workEv, notifier, printer, menu>>

Commands == {"PRINT", "SUSPEND", "SHUTDOWN"}
Threads  == {"macrofire", "game"}

TypeOK ==
  /\ uid \in BOOLEAN /\ thread \in BOOLEAN
  /\ ctrlEv \in BOOLEAN /\ waiter \in Threads \cup {"none"}
  /\ workEv \subseteq Commands \cup {"OK"}
  /\ notifier \in {"off", "command", "idle", "grant", "accept", "unwritten",
                   "frame", "poll", "leave"}
  /\ printer \in [Threads -> {"idle", "set", "wait", "blocked", "write", "done"}]
  /\ menu \in {"boot", "closed", "opening", "suspended", "unhook", "frame", "open",
               "shutdown", "wait", "blocked", "destroy", "forget"}
  /\ written \in BOOLEAN /\ intruded \in BOOLEAN
  /\ fault \in {"none", "null", "inUse"}
  \* selfThreadId tells whether the notifier is there, and the waiter waits.
  /\ thread = (notifier # "off")
  /\ waiter = (IF printer["game"] = "blocked" THEN "game"
               ELSE IF "blocked" \in {printer["macrofire"], menu} THEN "macrofire" ELSE "none")

Init ==
  /\ uid = FALSE /\ thread = FALSE
  /\ ctrlEv = FALSE /\ waiter = "none" /\ workEv = {}
  /\ notifier = "off"
  /\ printer = [t \in Threads |-> "idle"] /\ menu = "boot"
  /\ written = FALSE /\ intruded = FALSE /\ fault = "none"

-----------------------------------------------------------------------------
(* Event flags. *)

\* What the notifier does about the commands it finds.
Obey(bits) ==
  IF "SHUTDOWN" \in bits THEN "leave" ELSE IF "PRINT" \in bits THEN "grant" ELSE "command"

\* The notifier at control point n waits for a command or for OK, and gets it from the
\* bits that are set, or goes on waiting; at other points the bits are left for later.
Served(n, bits) ==
  IF n = "idle" /\ bits \cap Commands # {}
    THEN [at |-> Obey(bits), bits |-> bits \ Commands]
  ELSE IF n = "unwritten" /\ "OK" \in bits
    THEN [at |-> "frame", bits |-> bits \ {"OK"}]
  ELSE [at |-> n, bits |-> bits]

WorkIs(e)    == notifier' = e.at /\ workEv' = e.bits
Post(n, add) == WorkIs(Served(n, workEv \cup add))

\* ctrlEv is set by the notifier: the waiting thread is released, if there is one.
Grant ==
  /\ waiter' = "none"
  /\ ctrlEv' = (ctrlEv \/ waiter = "none")
  /\ printer' = [t \in Threads |->
       IF t = waiter /\ printer[t] = "blocked" THEN "write" ELSE printer[t]]
  /\ menu' = IF waiter = "macrofire" /\ menu = "blocked" THEN "destroy" ELSE menu

\* t waits for ctrlEv, or goes on at once.
GoesOn == ctrlEv \/ waiter # "none"
Await(t) ==
  /\ ctrlEv' = FALSE
  /\ waiter' = IF GoesOn THEN waiter ELSE t
  /\ UNCHANGED <<workEv, notifier>>

-----------------------------------------------------------------------------
(* The notifier: ovmsg_main. *)

NotifierWait ==
  /\ notifier = "command" /\ Post("idle", {})
  /\ UNCHANGED <<msgVars, ctrlEv, waiter, printer, menu>>

\* Variant: the printer is told nothing before it has written.
NotifierGrantLater ==
  /\ notifier = "grant" /\ notifier' = "accept"
  /\ UNCHANGED <<msgVars, ctrlEv, waiter, workEv, printer, menu>>
NotifierGrant ==
  /\ notifier = "grant" /\ notifier' = "accept"
  /\ Grant
  /\ UNCHANGED <<msgVars, workEv>>

\* Variant: the message is not waited for.
NotifierAcceptAtOnce ==
  /\ notifier = "accept" /\ notifier' = "frame"
  /\ UNCHANGED <<msgVars, ctrlEv, waiter, workEv, printer, menu>>
NotifierAccept ==
  /\ notifier = "accept" /\ Post("unwritten", {})
  /\ UNCHANGED <<msgVars, ctrlEv, waiter, printer, menu>>

\* The message is drawn; a command, or that its time is over, ends the display.
NotifierPoll ==
  /\ notifier = "poll"
  /\ written' = FALSE
  /\ \/ notifier' = "command"
     \/ workEv \cap Commands = {} /\ notifier' = "frame"
  /\ UNCHANGED <<uid, thread, intruded, fault, ctrlEv, waiter, workEv, printer, menu>>

\* Variant: selfThreadId is left as it is.
NotifierLeaveKeepsId ==
  /\ notifier = "leave" /\ notifier' = "off"
  /\ Grant
  /\ UNCHANGED <<uid, thread, written, intruded, fault, workEv>>
NotifierLeave ==
  /\ notifier = "leave" /\ notifier' = "off"
  /\ thread' = FALSE
  /\ Grant
  /\ UNCHANGED <<uid, written, intruded, fault, workEv>>

Notifier == NotifierWait \/ NotifierGrant \/ NotifierAccept \/ NotifierPoll \/ NotifierLeave

\* The vertical blank comes whether or not somebody waits for it, and who does goes on.
Vblank ==
  /\ notifier' = IF notifier = "frame" THEN "poll" ELSE notifier
  /\ menu' = IF menu = "suspended" THEN "unhook" ELSE IF menu = "frame" THEN "open" ELSE menu
  /\ UNCHANGED <<msgVars, ctrlEv, waiter, workEv, printer>>

-----------------------------------------------------------------------------
(* mfNotificationPrintf, behind a test of mfNotificationThreadId. *)

\* The MacroFire thread runs when the notifier does not want to, a game thread until the
\* menu suspends it.
Runs(t) ==
  IF t = "macrofire" THEN notifier \notin {"command", "grant", "accept", "poll", "leave"}
  ELSE menu \in {"closed", "opening"}

PrintGoes(t, from, to) ==
  /\ Runs(t) /\ printer[t] = from
  /\ printer' = [printer EXCEPT ![t] = to]
  /\ UNCHANGED <<uid, thread, intruded, menu>>

PrintTest(t) ==
  /\ menu = "closed" /\ uid /\ thread
  /\ t = "macrofire" \/ t \in Printers
  /\ PrintGoes(t, "idle", "set")
  /\ UNCHANGED <<written, fault, ctrlEv, waiter, workEv, notifier>>

\* st_ovmsg is read again for the call.
PrintSet(t) ==
  /\ PrintGoes(t, "set", "wait")
  /\ IF uid THEN Post(notifier, {"PRINT"}) /\ UNCHANGED fault
     ELSE fault' = "null" /\ UNCHANGED <<workEv, notifier>>
  /\ UNCHANGED <<written, ctrlEv, waiter>>

PrintWait(t) ==
  /\ PrintGoes(t, "wait", IF GoesOn THEN "write" ELSE "blocked")
  /\ Await(t)
  /\ UNCHANGED <<written, fault>>

PrintWrite(t) ==
  /\ PrintGoes(t, "write", "done")
  /\ written' = TRUE
  /\ UNCHANGED <<fault, ctrlEv, waiter, workEv, notifier>>

PrintDone(t) ==
  /\ PrintGoes(t, "done", "idle")
  /\ Post(notifier, {"OK"})
  /\ UNCHANGED <<written, fault, ctrlEv, waiter>>

PrintStep(t) == PrintTest(t) \/ PrintSet(t) \/ PrintWait(t) \/ PrintWrite(t) \/ PrintDone(t)

\* In the interrupt, which comes while the API is hooked, the wait fails and the rest is
\* done at one go.
InterruptPrint ==
  /\ "interrupt" \in Printers
  /\ menu \in {"closed", "opening", "suspended", "unhook"} /\ uid /\ thread
  /\ LET e == Served(notifier, workEv \cup {"PRINT"}) IN
     WorkIs(Served(e.at, e.bits \cup {"OK"}))
  /\ written' = TRUE /\ intruded' = TRUE
  /\ UNCHANGED <<uid, thread, fault, ctrlEv, waiter, printer, menu>>

-----------------------------------------------------------------------------
(* The MacroFire thread: start-up and the menu. *)

MenuGoes(from, to) ==
  /\ Runs("macrofire") /\ printer["macrofire"] = "idle"
  /\ menu = from /\ menu' = to
  /\ UNCHANGED <<printer, intruded>>

Passes(from, to) ==
  MenuGoes(from, to) /\ UNCHANGED <<uid, thread, written, fault, ctrlEv, waiter, workEv, notifier>>

\* mfNotificationStart, with memory for what it makes.
Start(from, to) ==
  /\ Runs("macrofire") /\ menu = from /\ menu' = to
  /\ uid' = TRUE /\ thread' = TRUE /\ notifier' = "command"
  /\ ctrlEv' = FALSE /\ workEv' = {} /\ intruded' = FALSE
  /\ UNCHANGED <<written, fault, waiter, printer>>

Boot == Start("boot", "closed") \/ Passes("boot", "closed")

\* mfMenuMain suspends the display and the game; a vertical blank later it unhooks the API.
MenuOpen ==
  /\ MenuGoes("closed", "opening")
  /\ Post(notifier, IF uid /\ thread THEN {"SUSPEND"} ELSE {})
  /\ UNCHANGED <<uid, thread, written, fault, ctrlEv, waiter>>
MenuSuspend == Passes("opening", "suspended") \/ Passes("unhook", "frame")

\* mfmenu_root_menu with MF_MM_TERM: the user may have switched the notification.
MenuTerm ==
  \/ uid /\ thread /\ Passes("open", "shutdown")
  \/ ~(uid /\ thread) /\ Start("open", "frame")
  \/ Passes("open", "closed")

\* ovmsgShutdown and ovmsgDestroy.
ShutdownSet ==
  /\ MenuGoes("shutdown", "wait")
  /\ Post(notifier, {"SHUTDOWN"})
  /\ UNCHANGED <<uid, thread, written, fault, ctrlEv, waiter>>
ShutdownWait ==
  /\ MenuGoes("wait", IF GoesOn THEN "destroy" ELSE "blocked")
  /\ Await("macrofire")
  /\ UNCHANGED <<uid, thread, written, fault>>
InUse == notifier # "off" \/ printer["game"] \notin {"idle", "set"}
Destroy ==
  /\ MenuGoes("destroy", "forget")
  /\ fault' = (IF InUse THEN "inUse" ELSE fault) /\ written' = FALSE
  /\ UNCHANGED <<uid, thread, ctrlEv, waiter, workEv, notifier>>
Forget ==
  /\ MenuGoes("forget", "frame")
  /\ uid' = FALSE
  /\ UNCHANGED <<thread, written, fault, ctrlEv, waiter, workEv, notifier>>

MacroFire ==
  \/ Boot \/ MenuOpen \/ MenuSuspend \/ MenuTerm
  \/ ShutdownSet \/ ShutdownWait \/ Destroy \/ Forget
  \/ PrintStep("macrofire")

\* After a fault anything could happen; the model stops.
Stopped == fault # "none" /\ UNCHANGED vars

Next ==
  \/ Stopped
  \/ fault = "none" /\ (Notifier \/ Vblank \/ InterruptPrint \/ MacroFire \/ PrintStep("game"))

Spec == Init /\ [][Next]_vars

\* Threads that can run do, but nobody has to start printing, to open the menu or to
\* leave it; and the vertical blank comes.
FairSpec ==
  /\ Spec
  /\ WF_vars(Next /\ Notifier) /\ WF_vars(Next /\ Vblank)
  /\ WF_vars(Next /\ MacroFire /\ menu \notin {"boot", "closed", "open"})
  /\ \A t \in Threads : WF_vars(Next /\ PrintStep(t) /\ printer[t] # "idle")

-----------------------------------------------------------------------------
\* As long as no interrupt prints, the message is not written while it is on the screen,
\* and st_ovmsg is neither used after ovmsgDestroy nor destroyed while it is in use: the
\* two event flags keep the MacroFire thread and the notifier apart.
Handshake ==
  intruded \/ /\ fault = "none"
              /\ notifier \in {"frame", "poll"} => printer["macrofire"] # "write"
              /\ notifier = "off" => ~written

\* The MacroFire thread waits for the notifier for a time only, whatever interrupts print.
MainGoesOn ==
  (printer["macrofire"] = "blocked" \/ menu = "blocked")
    ~> ~(printer["macrofire"] = "blocked" \/ menu = "blocked")

\* Every message that is written gets on the screen, unless the notifier is shut down or
\* interrupts print: then OK may be spent on an earlier message.
WrittenIsShown == written ~> (~written \/ intruded)

\* The comment on ovmsgShutdown in ovmsg.h: it ends the notifier.
ShutdownEnds == menu = "wait" ~> (notifier = "off" \/ fault # "none")
=============================================================================
