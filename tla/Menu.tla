-------------------------------- MODULE Menu --------------------------------
(***************************************************************************)
(* The menu loop (mfMenuMain): a stack of pages, the page on top run once  *)
(* a frame with the messages of the dialog that is up; the items of a page *)
(* (mfMenuDrawTables, mfctrl), which open dialogs, enter pages or set an   *)
(* extra procedure to run along with the page.  A frame is four steps:     *)
(* what the dialog has done, the page's procedure, the change of the page, *)
(* and the dialog.                                                         *)
(***************************************************************************)
EXTENDS Naturals, Sequences, SequencesExt

VARIABLES
  step,       \* what the loop does next, "closed" when the menu is
  pages,      \* Stack and Proc, which is the last
  tmem,       \* Tmem: the pages that have registered memory, the last first to go
  next,       \* NextProc: the same page, "back", or the page to enter
  main,       \* Message.Main
  sub,        \* Message.Sub
  signal,     \* Message.Signal
  extra,      \* Extra.Proc
  dialogType, \* __mfdialog__gDialogType
  lastType,   \* LastDialogType
  lastResult, \* __mfdialog__gLastResult
  exit,       \* MF_MENU_EXIT
  quit,       \* MF_MENU_FORCED_QUIT
  owner,      \* history: the number of pages when the dialog was opened
  chosen,     \* history: the user has accepted a file since the extra procedure began
  broke,      \* history: the file dialog broke off since then
  both        \* history: accept and cancel were pressed in one frame

menuVars == <<pages, tmem, main, sub, signal, lastType>>
resultVars == <<lastResult, chosen, broke>>
vars == <<step, menuVars, next, extra, dialogType, exit, quit, owner, resultVars, both>>

Pages   == {"root", "page", "sub"}
DialogTypes == {"none", "message", "question", "file", "edit"}
Signals == {"accept", "finish"}                 \* MF_CTRL_DEF_INI_SIG_...
DialogMessages == {"START", "UPDATE", "FINISH"} \* MF_DM_...

TypeOK ==
  /\ step \in {"dialog", "proc", "turn", "draw", "closed"}
  /\ pages \in {<<>>, <<"root">>, <<"root", "page">>, <<"root", "page", "sub">>}
  /\ tmem \in Seq({"root", "page"})
  /\ next \in {"same", "back", "page", "sub"}
  /\ main \in {"PROC", "WAIT", "CONTINUE"} /\ sub \subseteq (DialogMessages \cup Signals)
  /\ signal \in Signals \cup {"none"}
  /\ extra \in {"none", "ini", "ask", "do"}
  /\ dialogType \in DialogTypes /\ lastType \in DialogTypes
  /\ {lastResult, exit, quit, chosen, broke, both} \subseteq BOOLEAN
  /\ owner \in 0 .. 3

\* mfmenu_init_params, and the root menu. A dialog may be left from the last time.
Opened ==
  /\ step' = "dialog" /\ pages' = <<"root">> /\ tmem' = <<"root">> /\ next' = "same"
  /\ main' = "PROC" /\ sub' = {} /\ signal' = "none" /\ extra' = "none"
  /\ lastType' = dialogType /\ exit' = TRUE /\ quit' = FALSE
Init ==
  /\ step = "closed" /\ pages = <<>> /\ tmem = <<>> /\ next = "same"
  /\ main = "PROC" /\ sub = {} /\ signal = "none" /\ extra = "none"
  /\ dialogType = "none" /\ lastType = "none" /\ lastResult = TRUE /\ exit = FALSE /\ quit = FALSE
  /\ owner = 0 /\ chosen = FALSE /\ broke = FALSE /\ both = FALSE
Open ==
  /\ step = "closed" /\ Opened
  /\ UNCHANGED <<dialogType, owner, resultVars, both>>

-----------------------------------------------------------------------------
(* Dialogs, from the outside. *)

\* mfDialogMessage and the others: refused while there is one, and memory may be short.
Shown(type) ==
  /\ dialogType = "none" /\ dialogType' = type /\ exit' = FALSE /\ owner' = Len(pages)
NotShown == UNCHANGED <<dialogType, exit, owner>>

\* mfMenuError: a message, or a line of text if there can be none.
Report == Shown("message") \/ NotShown
\* A dialog that an item asks for, or the error.
Asked(type) == Shown(type) \/ Report

-----------------------------------------------------------------------------
(* A frame begins. *)

\* START, HOME, a forced quit, or nothing to run. All pages are told, the pool goes.
Quit ==
  /\ step = "dialog" /\ (quit \/ pages = <<>> \/ exit)
  /\ step' = "closed" /\ pages' = <<>> /\ tmem' = <<>> /\ extra' = "none"
  /\ UNCHANGED <<next, main, sub, signal, lastType, dialogType, exit, quit, owner, resultVars, both>>

DialogMessage ==
  IF dialogType # "none" THEN {IF lastType # dialogType THEN "START" ELSE "UPDATE"}
  ELSE IF lastType # "none" THEN {"FINISH"} ELSE {}
Begin ==
  /\ step = "dialog" /\ ~quit /\ pages # <<>>
  /\ step' = "proc" /\ next' = "same"
  /\ sub' = sub \cup DialogMessage /\ lastType' = dialogType
  /\ UNCHANGED <<pages, tmem, main, signal, extra, dialogType, exit, quit, owner, resultVars, both>>

-----------------------------------------------------------------------------
(* The page's procedure. *)

\* The items are not asked while a dialog is up.
\* Variant: only in the first frame of it.
HeldAtStart == "START" \in sub
Held == sub \cap {"START", "UPDATE"} # {}

\* mfMenuDrawTables after the extra procedure and the item: does the user go back?
Back == next' = IF extra' = "none" /\ ~Held THEN "back" ELSE "same"
Stay == next' = "same"

\* The handler of loading and saving. Its value, that of a void function, is no error.
\* Variant: a cancelled dialog is not told from another.
ResultIgnored  == TRUE
ResultAccepted == lastResult
IniHandler ==
  IF "accept" \in sub
  THEN signal' = "finish" /\ UNCHANGED extra /\ Report
  ELSE /\ NotShown
       /\ IF "finish" \in sub THEN extra' = "none" /\ UNCHANGED signal
          ELSE /\ UNCHANGED extra
               /\ signal' = IF "FINISH" \notin sub THEN signal
                            ELSE IF ResultAccepted THEN "accept" ELSE "finish"

\* macro_menu_remove and macro_menu_clear ask first; macro_menu_add, macro_menu_stop and
\* the others do it in the first frame that is free of dialogs.
AskHandler ==
  IF "FINISH" \in sub THEN extra' = "none" /\ Report ELSE UNCHANGED extra /\ NotShown
DoHandler ==
  IF sub \cap DialogMessages = {} THEN extra' = "none" /\ Report ELSE UNCHANGED extra /\ NotShown

RunExtra ==
  /\ step = "proc" /\ Last(pages) # "sub" /\ extra # "none"
  /\ \/ extra = "ini" /\ IniHandler
     \/ extra = "ask" /\ AskHandler /\ UNCHANGED signal
     \/ extra = "do" /\ DoHandler /\ UNCHANGED signal
  /\ Stay \/ Back
  /\ step' = "turn"
  /\ UNCHANGED <<pages, tmem, main, sub, lastType, quit, resultVars, both>>

\* What an item does when accept is pressed.
EditItem == Asked("edit") /\ UNCHANGED <<signal, extra, chosen, broke>>
IniItem ==
  /\ Last(pages) = "page"
  /\ chosen' = FALSE /\ broke' = FALSE
  /\ \/ Shown("file") /\ extra' = "ini" /\ UNCHANGED signal
     \/ NotShown /\ signal' = "finish" /\ extra' \in {"ini", "none"}  \* a void function's value
     \/ Report /\ UNCHANGED <<signal, extra>>                         \* no memory for it
AskItem ==
  /\ Last(pages) = "page"
  /\ \/ Shown("question") /\ extra' = "ask"
     \/ Report /\ UNCHANGED extra
  /\ UNCHANGED <<signal, chosen, broke>>
DoItem == Last(pages) = "page" /\ extra' = "do" /\ NotShown /\ UNCHANGED <<signal, chosen, broke>>

Free == step = "proc" /\ Last(pages) # "sub" /\ extra = "none"

\* An item; cancel may be pressed in the same frame.
Press ==
  /\ Free /\ sub \cap DialogMessages = {}
  /\ EditItem \/ IniItem \/ AskItem \/ DoItem
  /\ \/ Stay /\ UNCHANGED both
     \/ Back /\ both' = TRUE
  /\ step' = "turn"
  /\ UNCHANGED <<pages, tmem, main, sub, lastType, quit, lastResult>>

\* mfCtrlDefCallback: a page of the root menu, or of the macro menu.
Enter ==
  /\ Free /\ sub \cap DialogMessages = {}
  /\ next' = IF Last(pages) = "root" THEN "page" ELSE "sub"
  /\ step' = "turn"
  /\ UNCHANGED <<menuVars, extra, dialogType, exit, quit, owner, resultVars, both>>

\* Nothing, the cursor, or cancel.
Move ==
  /\ Free /\ UNCHANGED extra /\ (Stay \/ Back)
  /\ step' = "turn"
  /\ UNCHANGED <<menuVars, dialogType, exit, quit, owner, resultVars, both>>

\* macro_menu_run and the others that leave the menu, or the engine is off; the editor,
\* which opens dialogs of its own, and goes back only when there is none.
RunSub ==
  /\ step = "proc" /\ Last(pages) = "sub"
  /\ \/ main = "PROC" /\ quit' = TRUE /\ Stay /\ NotShown
     \/ main = "PROC" /\ Report /\ next' = "back" /\ UNCHANGED quit
     \/ main # "WAIT" /\ Asked("edit") /\ Stay /\ UNCHANGED quit
     \/ main # "WAIT" /\ NotShown /\ next' = "back" /\ UNCHANGED quit
     \/ NotShown /\ Stay /\ UNCHANGED quit
  /\ step' = "turn"
  /\ UNCHANGED <<menuVars, extra, resultVars, both>>

-----------------------------------------------------------------------------
(* The messages of the next frame, and the change of the page. *)

PassedOn == IF signal = "none" THEN {} ELSE {signal}
Messages ==
  /\ main' = IF extra # "none" \/ dialogType # "none" THEN "WAIT"
             ELSE IF main = "WAIT" THEN "CONTINUE" ELSE "PROC"
  /\ sub' = PassedOn /\ signal' = "none"

\* __mfmenu_clear_temp_memory
Cleared == IF tmem # <<>> /\ Last(tmem) = Last(pages) THEN Front(tmem) ELSE tmem

TurnBack ==
  /\ step = "turn" /\ next = "back"
  /\ Messages /\ pages' = Front(pages) /\ tmem' = Cleared
  /\ step' = "draw"
  /\ UNCHANGED <<next, lastType, extra, dialogType, exit, quit, owner, resultVars, both>>
\* A page that cannot begin leaves the one before.
TurnTo ==
  /\ step = "turn" /\ next \in {"page", "sub"}
  /\ Messages
  /\ \/ /\ pages' = Append(pages, next)
        /\ tmem' = IF next = "page" THEN Append(tmem, next) ELSE tmem
        /\ NotShown
     \/ Report /\ UNCHANGED <<pages, tmem>>
  /\ step' = "draw"
  /\ UNCHANGED <<next, lastType, extra, quit, resultVars, both>>
Remain ==
  /\ step = "turn" /\ next = "same"
  /\ Messages /\ step' = "draw"
  /\ UNCHANGED <<next, pages, tmem, lastType, extra, dialogType, exit, quit, owner, resultVars, both>>

-----------------------------------------------------------------------------
(* The dialog: it goes on, it ends, or its update fails. *)

\* A message that is no question can only be accepted.
Results == IF dialogType = "message" THEN {TRUE} ELSE BOOLEAN

DrawOn ==
  /\ step = "draw" /\ step' = "dialog"
  /\ UNCHANGED <<menuVars, next, extra, dialogType, exit, quit, owner, resultVars, both>>
DrawEnd ==
  /\ step = "draw" /\ lastType # "none"
  /\ lastResult' \in Results
  /\ chosen' = (chosen \/ (dialogType = "file" /\ lastResult')) /\ UNCHANGED broke
  /\ dialogType' = "none" /\ exit' = TRUE
  /\ step' = "dialog"
  /\ UNCHANGED <<menuVars, next, extra, quit, owner, both>>
\* A directory that cannot be read.
DrawError ==
  /\ step = "draw" /\ lastType = "file"
  /\ lastResult' = FALSE /\ broke' = TRUE /\ UNCHANGED chosen
  /\ \/ dialogType' = "message" /\ exit' = FALSE /\ owner' = Len(pages)
     \/ dialogType' = "none" /\ exit' = TRUE /\ UNCHANGED owner
  /\ step' = "dialog"
  /\ UNCHANGED <<menuVars, next, extra, quit, both>>

Next ==
  \/ Open \/ Quit \/ Begin
  \/ RunExtra \/ Press \/ Enter \/ Move \/ RunSub
  \/ TurnBack \/ TurnTo \/ Remain
  \/ DrawOn \/ DrawEnd \/ DrawError

Spec == Init /\ [][Next]_vars

-----------------------------------------------------------------------------
\* A file is loaded or saved only after the user has accepted one in the dialog, for as
\* long as the dialog has not broken off: the message of the error would be taken for it.
ActsOnAccept == extra = "ini" /\ "accept" \in sub => chosen \/ broke

\* An extra procedure that waits for something is sure to be told: a dialog is up, or its
\* end is still to be noticed, or a signal is on its way.
ExtraGoesOn ==
  step = "dialog" /\ extra \in {"ini", "ask"} =>
    dialogType # "none" \/ lastType # "none" \/ sub # {}

\* What belongs to a page goes with it and not before: the memory it has registered, its
\* extra procedure, and the dialog that edits its data, unless accept and cancel have been
\* pressed in one frame, which opens the dialog and leaves its page.
WithItsPage ==
  /\ tmem = IF pages # <<>> /\ Last(pages) = "sub" THEN Front(pages) ELSE pages
  /\ extra # "none" => Last(pages) = "page"
  /\ dialogType = "edit" /\ ~both => owner <= Len(pages)
=============================================================================
