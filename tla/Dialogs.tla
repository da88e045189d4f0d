------------------------------- MODULE Dialogs -------------------------------
(***************************************************************************)
(* Dialogs: mfdialog, which runs one of them at a time, and the life of    *)
(* each of them (src/include/cdialog), with the messages and the keyboard  *)
(* that they open on top of themselves.  A step is a frame of the menu     *)
(* loop in which something happens, its buttons chosen freely.             *)
(***************************************************************************)
EXTENDS Naturals

VARIABLES
  current,   \* __mfdialog__gDialogType
  box,       \* of each kind: st_params, "none" if it is NULL, or the status and result
  locked,    \* st_semaid is taken
  help,      \* base.help of each kind: "null", "live" memory, or "freed" memory
  show,      \* what getfilename shows on top: enum cdialog_getfilename_show_dialog
  ending,    \* getfilename's "shutdown"
  mode,      \* what getfilename was opened for: "load" or "save" (its options)
  target,    \* what path and name are: "file", "dir", "none", or not a name: "illegal"
  popup,     \* showMessage of sosk and of numedit
  edited,    \* sosk's "edited"
  cancel,    \* sosk's "cancel"
  failed,    \* history: memory has failed, or the card under a dialog with one on top
  yes,       \* history: the user has been asked about the target and said yes
  badFree    \* history: memory was freed twice

vars == <<current, box, locked, help, show, ending, mode, target, popup, edited, cancel,
          failed, yes, badFree>>

Kinds   == {"message", "numedit", "sosk", "getfilename", "detectbuttons"}
Helped  == {"numedit", "sosk", "getfilename"}
Boxes   == {"none", "visible", "shutdown", "accept", "cancel"}
Targets == {"file", "dir", "none", "illegal"}

TypeOK ==
  /\ current \in Kinds \cup {"none"} /\ box \in [Kinds -> Boxes] /\ locked \in BOOLEAN
  /\ help \in [Helped -> {"null", "live", "freed"}]
  /\ show \in {"none", "help", "message", "confirm", "keyboard"}
  /\ ending \in BOOLEAN /\ mode \in {"load", "save"} /\ target \in Targets
  /\ popup \in [{"sosk", "numedit"} -> BOOLEAN] /\ edited \in BOOLEAN /\ cancel \in BOOLEAN
  /\ failed \in BOOLEAN /\ yes \in BOOLEAN /\ badFree \in BOOLEAN

Init ==
  /\ current = "none" /\ box = [k \in Kinds |-> "none"] /\ locked = FALSE
  /\ help = [k \in Helped |-> "null"]
  /\ show = "none" /\ ending = FALSE /\ mode = "load" /\ target = "none"
  /\ popup = [k \in {"sosk", "numedit"} |-> FALSE] /\ edited = FALSE /\ cancel = FALSE
  /\ failed = FALSE /\ yes = FALSE /\ badFree = FALSE

soskVars == <<popup, edited, cancel>>
fileVars == <<show, ending, mode, target, yes>>

-----------------------------------------------------------------------------
(* What dialogs do to each other's parameters. *)

\* A dialog's Init and StartNoLock: its parameters, or what is left of them.
Begun(k)   == box' = [box EXCEPT ![k] = "visible"]
\* cdialogDev...ShutdownStartNoLock of a message that could not be started: nobody calls
\* cdialogMessageDestroy, so that its parameters stay.
LeftOver(k) == box' = [box EXCEPT ![k] = "shutdown"]
Answer(k, result) == box' = [box EXCEPT ![k] = result]
\* ShutdownStartNoLock, GetResult and Destroy.
Gone(k)    == box' = [box EXCEPT ![k] = "none"]

\* Opening a message: it is shown; its parameters are in use or cannot be had; or it
\* cannot be started.
Shown      == box["message"] = "none" /\ Begun("message") /\ UNCHANGED failed
Refused    == box["message"] # "none" /\ UNCHANGED <<box, failed>>
NoParams   == box["message"] = "none" /\ failed' = TRUE /\ UNCHANGED box
NotStarted == box["message"] = "none" /\ failed' = TRUE /\ LeftOver("message")
NotShown   == Refused \/ NoParams \/ NotStarted

\* memoryFree of base.help. Freed memory is freed again if the pointer is left over.
Freed(k) ==
  /\ help' = IF help[k] = "live" THEN [help EXCEPT ![k] = "freed"] ELSE help
  /\ badFree' = (badFree \/ help[k] = "freed")

-----------------------------------------------------------------------------
(* Opening and ending: mfDialogMessage and the others, mfDialogResult. *)

Open(k) ==
  /\ current = "none" /\ box[k] = "none" /\ ~locked
  /\ current' = k /\ locked' = TRUE /\ Begun(k)
  /\ help' = IF k \in Helped THEN [help EXCEPT ![k] = "null"] ELSE help
  /\ IF k = "getfilename"
     THEN mode' \in {"load", "save"} /\ target' \in Targets
     ELSE UNCHANGED <<mode, target>>
  /\ UNCHANGED <<show, ending, yes, soskVars, failed, badFree>>

\* A dialog's parameters are freed with all that is in them: the next one begins afresh.
SoskFresh == popup' = [popup EXCEPT !["sosk"] = FALSE] /\ edited' = FALSE /\ cancel' = FALSE
\* Variant: the semaphore stays taken.
ClosedLocked ==
  /\ current' = "none" /\ UNCHANGED locked /\ Gone(current)
  /\ show' = "none" /\ ending' = FALSE /\ mode' = "load" /\ target' = "none" /\ yes' = FALSE
  /\ SoskFresh
  /\ help' = [k \in Helped |-> IF help[k] = "freed" THEN "null" ELSE help[k]]
Closed ==
  /\ current' = "none" /\ locked' = FALSE /\ Gone(current)
  /\ show' = "none" /\ ending' = FALSE /\ mode' = "load" /\ target' = "none" /\ yes' = FALSE
  /\ SoskFresh
  /\ help' = [k \in Helped |-> IF help[k] = "freed" THEN "null" ELSE help[k]]

\* The frame after the one that set the result.
End ==
  /\ current # "none" /\ box[current] \in {"accept", "cancel"}
  /\ Closed
  /\ UNCHANGED <<failed, badFree>>

\* A message of its own, or the dialog that waits for buttons.
AnswerPlain ==
  /\ current \in {"message", "detectbuttons"} /\ box[current] = "visible"
  /\ \E result \in {"accept", "cancel"} : Answer(current, result)
  /\ UNCHANGED <<current, locked, help, fileVars, soskVars, failed, badFree>>

\* A message on top of another dialog is answered; the dialog sees it a frame later.
MessageOnTop ==
  \/ current = "numedit" /\ popup["numedit"]
  \/ current = "sosk" /\ popup["sosk"]
  \/ current = "getfilename"
     /\ (show \in {"help", "message", "confirm"} \/ (show = "keyboard" /\ popup["sosk"]))
\* Only a question can be answered with no.
Asking == IF show \in {"help", "message"} \/ current = "numedit" THEN FALSE
          ELSE show = "confirm" \/ cancel
AnswerOnTop ==
  /\ MessageOnTop /\ box["message"] = "visible"
  /\ \E result \in {"accept"} \cup (IF Asking THEN {"cancel"} ELSE {}) :
       Answer("message", result)
  /\ UNCHANGED <<current, locked, help, fileVars, soskVars, failed, badFree>>
Answered == box["message"] \in {"accept", "cancel"}

-----------------------------------------------------------------------------
(* cdialogNumeditUpdate. *)

NumeditOn == current = "numedit" /\ box["numedit"] = "visible"

NumeditMessage ==
  /\ NumeditOn /\ popup["numedit"] /\ Answered
  /\ popup' = [popup EXCEPT !["numedit"] = FALSE] /\ Gone("message") /\ Freed("numedit")
  /\ UNCHANGED <<current, locked, fileVars, edited, cancel, failed>>
NumeditHelp ==
  /\ NumeditOn /\ ~popup["numedit"]
  /\ help' = [help EXCEPT !["numedit"] = "live"]
  /\ \/ Shown /\ popup' = [popup EXCEPT !["numedit"] = TRUE]
     \/ NotShown /\ UNCHANGED popup
  /\ UNCHANGED <<current, locked, fileVars, edited, cancel, badFree>>
NumeditAnswer ==
  /\ NumeditOn /\ ~popup["numedit"]
  /\ \E result \in {"accept", "cancel"} : Answer("numedit", result)
  /\ UNCHANGED <<current, locked, help, fileVars, soskVars, failed, badFree>>

-----------------------------------------------------------------------------
(* cdialogSoskUpdate, of a keyboard of its own or on top of getfilename. *)

SoskOn ==
  /\ current = "sosk" \/ (current = "getfilename" /\ show = "keyboard")
  /\ box["sosk"] = "visible"

\* Whatever the message was, memory is freed when it ends.
SoskMessage ==
  /\ SoskOn /\ popup["sosk"] /\ Answered
  /\ popup' = [popup EXCEPT !["sosk"] = FALSE] /\ Freed("sosk")
  /\ cancel' = (cancel /\ box["message"] = "accept")
  /\ box' = [box EXCEPT !["message"] = "none",
                        !["sosk"] = IF cancel' THEN "cancel" ELSE @]
  /\ UNCHANGED <<current, locked, fileVars, edited, failed>>
SoskIdle == SoskOn /\ ~popup["sosk"] /\ ~cancel
SoskCancel ==
  /\ SoskIdle
  /\ cancel' = TRUE
  /\ \/ edited /\ Shown /\ popup' = [popup EXCEPT !["sosk"] = TRUE]
     \/ edited /\ NotShown /\ UNCHANGED popup
     \/ ~edited /\ UNCHANGED <<box, failed, popup>>
  /\ UNCHANGED <<current, locked, help, fileVars, edited, badFree>>
SoskCancelled ==
  /\ SoskOn /\ ~popup["sosk"] /\ cancel
  /\ Answer("sosk", "cancel")
  /\ UNCHANGED <<current, locked, help, fileVars, soskVars, failed, badFree>>
SoskAccept ==
  /\ SoskIdle
  /\ Answer("sosk", "accept")
  /\ UNCHANGED <<current, locked, help, fileVars, soskVars, failed, badFree>>
SoskEdit ==
  /\ SoskIdle /\ ~edited
  /\ edited' = TRUE
  /\ UNCHANGED <<current, box, locked, help, fileVars, popup, cancel, failed, badFree>>
SoskHelp ==
  /\ SoskIdle
  /\ help' = [help EXCEPT !["sosk"] = "live"]
  /\ \/ Shown /\ popup' = [popup EXCEPT !["sosk"] = TRUE]
     \/ NotShown /\ UNCHANGED popup
  /\ UNCHANGED <<current, locked, fileVars, edited, cancel, badFree>>

-----------------------------------------------------------------------------
(* cdialogGetfilenameUpdate. *)

FileOn   == current = "getfilename" /\ box["getfilename"] = "visible"
FileIdle == FileOn /\ show = "none" /\ ~ending

\* What is wrong with the target, and what is to be asked about it.
\* Variant: saving asks about new files instead.
WrongTarget == target \in {"illegal", "dir"} \/ (target = "none" /\ mode = "load")
AskAboutNew == target = "none" /\ mode = "save"
AskAbout    == target = "file" /\ mode = "save"

\* START. When the message cannot be shown the name is taken all the same.
FileAccept ==
  /\ FileIdle /\ ~WrongTarget /\ ~AskAbout
  /\ ending' = TRUE
  /\ UNCHANGED <<current, box, locked, help, show, mode, target, yes, soskVars, failed, badFree>>
FileAsk(what) ==
  /\ FileIdle /\ (IF what = "message" THEN WrongTarget ELSE AskAbout)
  /\ \/ Shown /\ show' = what /\ UNCHANGED ending
     \/ NotShown /\ ending' = TRUE /\ UNCHANGED show
  /\ UNCHANGED <<current, locked, help, mode, target, yes, soskVars, badFree>>

\* The message on top is answered.
FileMessage ==
  /\ FileOn /\ show \in {"help", "message", "confirm"} /\ Answered
  /\ Gone("message") /\ show' = "none"
  /\ IF show = "help" THEN Freed("getfilename") ELSE UNCHANGED <<help, badFree>>
  /\ ending' = (show = "confirm" /\ box["message"] = "accept")
  /\ yes' = (show = "confirm" /\ box["message"] = "accept")
  /\ UNCHANGED <<current, locked, mode, target, soskVars, failed>>
\* The frame that joins path and name, and ends.
FileEnds ==
  /\ FileOn /\ ending
  /\ Answer("getfilename", "accept")
  /\ UNCHANGED <<current, locked, help, fileVars, soskVars, failed, badFree>>
FileCancel ==
  /\ FileIdle
  /\ Answer("getfilename", "cancel")
  /\ UNCHANGED <<current, locked, help, fileVars, soskVars, failed, badFree>>

\* HOME, and SELECT, which only says that there is no extra menu.
FileHelp ==
  /\ FileIdle
  /\ \E what \in {"help", "message"} :
       /\ help' = IF what = "help" THEN [help EXCEPT !["getfilename"] = "live"] ELSE help
       /\ \/ Shown /\ show' = what
          \/ NotShown /\ UNCHANGED show
  /\ UNCHANGED <<current, locked, ending, mode, target, yes, soskVars, badFree>>

\* Another directory or another name from the list.
FileSelect ==
  /\ FileIdle
  /\ target' \in Targets /\ yes' = FALSE
  /\ UNCHANGED <<current, box, locked, help, show, ending, mode, soskVars, failed, badFree>>

\* The keyboard. If it cannot be started its parameters stay as well.
FileKeyboard ==
  /\ FileIdle /\ box["sosk"] = "none"
  /\ \/ Begun("sosk") /\ show' = "keyboard" /\ UNCHANGED failed
     \/ LeftOver("sosk") /\ failed' = TRUE /\ UNCHANGED show
  /\ help' = [help EXCEPT !["sosk"] = "null"]
  /\ UNCHANGED <<current, locked, ending, mode, target, yes, soskVars, badFree>>
FileTyped ==
  /\ FileOn /\ show = "keyboard" /\ box["sosk"] \in {"accept", "cancel"}
  /\ Gone("sosk") /\ show' = "none"
  /\ IF box["sosk"] = "accept" THEN target' \in Targets ELSE UNCHANGED target
  /\ SoskFresh
  /\ UNCHANGED <<current, locked, help, ending, mode, yes, failed, badFree>>

\* The directory cannot be read: mfDialogDraw fails, and the dialog ends. An empty
\* directory is read again in every frame, whatever is on top of the dialog, and what is
\* on top does not end with it.
FileError ==
  /\ FileOn /\ ~ending
  /\ Closed
  /\ failed' = (failed \/ show # "none")
  /\ UNCHANGED badFree

Next ==
  \/ \E k \in Kinds : Open(k)
  \/ End \/ AnswerPlain \/ AnswerOnTop
  \/ NumeditMessage \/ NumeditHelp \/ NumeditAnswer
  \/ SoskMessage \/ SoskCancel \/ SoskCancelled \/ SoskAccept \/ SoskEdit \/ SoskHelp
  \/ FileAccept \/ FileAsk("message") \/ FileAsk("confirm") \/ FileMessage \/ FileEnds
  \/ FileCancel \/ FileHelp \/ FileSelect \/ FileKeyboard \/ FileTyped \/ FileError

Spec == Init /\ [][Next]_vars

-----------------------------------------------------------------------------
\* When no dialog is up the semaphore is free, so that the next one can be opened, and
\* unless memory or the card has failed nothing of any dialog is left: neither its
\* parameters, which would refuse the next one, nor the memory of its help.
NothingLeft ==
  /\ locked <=> current # "none"
  /\ current = "none" /\ ~failed =>
       /\ \A k \in Kinds : box[k] = "none"
       /\ \A k \in Helped : help[k] # "live"

\* The name a file dialog accepts is one it was opened for: a file that exists to load,
\* a name that is free to save to, or one that the user said may be overwritten.
AcceptedAsAsked ==
  box["getfilename"] = "accept" /\ ~failed =>
    \/ mode = "load" /\ target = "file"
    \/ mode = "save" /\ (target = "none" \/ (target = "file" /\ yes))

\* No dialog frees memory that it has freed before.
NotFreedTwice == ~badFree
=============================================================================
