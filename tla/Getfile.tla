-------------------------------- MODULE Getfile --------------------------------
(***************************************************************************)
(* The dialog that asks for a file's name (cdialog/getfilename.c), in the  *)
(* caller's buffer: the directory's path, its NUL, and behind it the name. *)
(* A step is a frame.  The directory itself is read in Dirh.               *)
(***************************************************************************)
EXTENDS Integers, SequencesExt, FiniteSetsExt

CONSTANTS
  Long,     \* the names of files and directories, and their lengths; "" is the empty one
  Dirs,     \* the names of directories
  Illegal,  \* names with a character that strpbrk looks for
  Root,     \* CDIALOG_GETFILENAME_DEFAULT_PATH
  PathMax,  \* data.pathMax
  Counts,   \* the numbers of entries that directories have
  Lines     \* CDIALOG_GETFILENAME_LIST_LINES

VARIABLES
  asks,      \* data.options: "save" asks before a file is overwritten, "open" wants one
  path,      \* data.path, as the names between its slashes
  at,        \* work.filename - data.path
  name,      \* the text at work.filename
  all,       \* work.allEntries, 0 to have them read
  pos,       \* work.selectPos
  area,      \* work.area
  showing,   \* showDialog
  shutdown,  \* shutdown
  result,    \* base.result, "closed" without a dialog, "overrun" when anything may follow
  kind,      \* history: what START found by that name: "file", "dir", "other", "unasked"
  confirmed, \* history: the user said yes when asked about it
  starved    \* history: there was no memory for the message about it

vars == <<asks, path, at, name, all, pos, area, showing, shutdown, result, kind, confirmed,
          starved>>
history == <<kind, confirmed, starved>>

Names == DOMAIN Long

TypeOK ==
  /\ asks \in {"save", "open"} /\ path \in Seq(Names) /\ at \in Nat /\ name \in Names
  /\ all \in Counts \cup {0} /\ pos \in -1 .. Max(Counts) /\ area \in {"list", "input"}
  /\ showing \in {"none", "help", "message", "confirm", "keyboard"} /\ shutdown \in BOOLEAN
  /\ result \in {"closed", "unknown", "accept", "cancel", "overrun"}
  /\ kind \in {"unasked", "file", "dir", "other"} /\ {confirmed, starved} \subseteq BOOLEAN

\* strlen of a path: a slash between any two names.
Length(p) == FoldLeft(LAMBDA sum, n : sum + 1 + Long[n], -1, p)

Init ==
  /\ asks = "save" /\ path = <<Root>> /\ at = Long[Root] + 1 /\ name = "" /\ all = 0 /\ pos = 0
  /\ area = "list" /\ showing = "none" /\ shutdown = FALSE /\ result = "closed"
  /\ kind = "unasked" /\ confirmed = FALSE /\ starved = FALSE

\* cdialog_getfilename_set_filename.
Fits(n, from) == PathMax - from > Long[n]

\* cdialogGetfilenameStartNoLock, and the path and the name of the first frame.
Start ==
  /\ result = "closed"
  /\ asks' \in {"save", "open"} /\ path' = <<Root>> /\ at' = Long[Root] + 1
  /\ \E initial \in Names : name' = (IF Fits(initial, at') THEN initial ELSE "")
  /\ all' = 0 /\ pos' = 0 /\ area' = "list" /\ showing' = "none" /\ shutdown' = FALSE
  /\ result' = "unknown"
  /\ kind' = "unasked" /\ confirmed' = FALSE /\ starved' = FALSE

-----------------------------------------------------------------------------
(* The path and the name behind it. *)

\* cdialog_getfilename_path_forward. The room that is left is compared unsigned, and is -1
\* when the name ends with the buffer: then it writes beyond.
Room == PathMax - (1 + at + Long[name] + 1)
\* Variant: the name is not moved.
ForwardUnmoved(dir) ==
  /\ path' = (IF Room > Long[dir] + 1 THEN Append(path, dir) ELSE path)
  /\ UNCHANGED <<at, name, result>>
Forward(dir) ==
  /\ IF Room > Long[dir] + 1
     THEN path' = Append(path, dir) /\ at' = at + Long[dir] + 1
     ELSE UNCHANGED <<path, at>>
  /\ result' = (IF Room < 0 THEN "overrun" ELSE result)
  /\ UNCHANGED name

\* cdialog_getfilename_path_back.
Back ==
  /\ IF Len(path) > 1
     THEN path' = Front(path) /\ at' = Length(Front(path)) + 1
     ELSE UNCHANGED <<path, at>>
  /\ UNCHANGED <<name, result>>

-----------------------------------------------------------------------------
(* What START does.  A message opens if there is memory for it. *)

\* The complaint about the name, or "none"; what is found by it counts last.
Complaint(found) ==
  IF name \in Illegal \cup {""} THEN "message"
  ELSE CASE found = "file" /\ asks = "save" -> "confirm"
         [] found = "dir" \/ (found = "other" /\ asks = "open") -> "message"
         [] OTHER -> "none"
\* Variant: whatever is found is overwritten.
ComplaintNever(found) == IF name \in Illegal \cup {""} \/ found = "dir" THEN "message" ELSE "none"

\* With no memory for a message the tests go on, and in the end the name is taken.
Accept ==
  /\ \E found \in {"file", "dir", "other"}, memory \in BOOLEAN :
       LET complaint == Complaint(found) IN
       /\ showing' = (IF memory THEN complaint ELSE "none")
       /\ shutdown' = (showing' = "none")
       /\ starved' = (complaint # "none" /\ ~memory)
       /\ kind' = found /\ confirmed' = FALSE
  /\ UNCHANGED <<path, at, name, area, result>>

\* A message or the keyboard is shown: it goes on, or ends, with a yes or a no.
\* cdialog_getfilename_draw_dialog. The keyboard keeps within what is left of the buffer.
Boxed ==
  \/ UNCHANGED <<path, at, name, area, showing, shutdown, result, history>>
  \/ \E yes \in BOOLEAN :
       /\ showing' = "none"
       /\ shutdown' = (IF showing = "confirm" THEN yes ELSE shutdown)
       /\ confirmed' = (showing = "confirm" /\ yes)
       /\ name' \in (IF showing = "keyboard" /\ yes THEN {n \in Names : Fits(n, at)} ELSE {name})
       /\ kind' = (IF confirmed' THEN kind ELSE "unasked")
       /\ UNCHANGED <<path, at, area, result, starved>>

-----------------------------------------------------------------------------
(* cdialogGetfilenameUpdate, with n entries and the selection at p. *)

Opens(box) ==
  /\ showing' \in {box, "none"}
  /\ UNCHANGED <<path, at, name, area, shutdown, result, history>>

Cancelled ==
  /\ result' = "cancel" /\ path' = <<"">>
  /\ UNCHANGED <<at, name, area, showing, shutdown, history>>

OtherArea ==
  /\ area' = (IF area = "list" THEN "input" ELSE "list")
  /\ UNCHANGED <<path, at, name, showing, shutdown, result, history>>

Unmoved == UNCHANGED <<area, showing, shutdown, history>>

\* The keys of the list that move the selection.
Select(n, p) ==
  /\ pos' \in { IF p = 0 THEN n - 1 ELSE p - 1,
                IF p + 1 >= n THEN 0 ELSE p + 1,
                Max({p - Lines, 0}),
                IF p + Lines >= n THEN n - 1 ELSE p + Lines }
  /\ UNCHANGED <<path, at, name, result>> /\ Unmoved

\* The selected entry is a directory, the one above, or a file.
EnterDir == (\E dir \in Dirs : Forward(dir)) /\ Unmoved
Leave    == Back /\ Unmoved
TakeFile ==
  /\ \E file \in Names \ (Dirs \cup {"", Root}) : name' = (IF Fits(file, at) THEN file ELSE name)
  /\ UNCHANGED <<path, at, result>> /\ Unmoved

\* The keys, in a frame without a box.
Keys(n, p) ==
  \/ Accept /\ all' = n /\ pos' = p
  \/ Cancelled /\ all' = n /\ pos' = p
  \/ (Opens("help") \/ OtherArea) /\ all' = n /\ pos' = p
  \/ area = "list" /\ Select(n, p) /\ all' = n
  \/ area = "list" /\ n > 0 /\ EnterDir /\ all' = 0 /\ pos' = p
  \/ area = "list" /\ Leave /\ all' = 0 /\ pos' = p
  \/ area = "list" /\ n > 0 /\ TakeFile /\ all' = n /\ pos' = p
  \/ area = "list" /\ Opens("message") /\ all' = n /\ pos' = p
  \/ area = "input" /\ Opens("keyboard") /\ all' = n /\ pos' = p

\* The entries are read if there are none, which an empty directory never has.
Entered ==
  /\ result = "unknown" /\ ~shutdown
  /\ \E n \in (IF all = 0 THEN Counts ELSE {all}) :
       LET p == IF all = 0 THEN 0 ELSE pos IN
       IF showing # "none" THEN Boxed /\ all' = n /\ pos' = p ELSE Keys(n, p)
  /\ UNCHANGED asks

\* The frame after: the NUL becomes a slash.
Joined ==
  /\ result = "unknown" /\ shutdown
  /\ result' = "accept" /\ path' = Append(path, name)
  /\ UNCHANGED <<asks, at, name, all, pos, area, showing, shutdown, history>>

\* The directory cannot be read: the dialog is closed.
Failed ==
  /\ result = "unknown" /\ ~shutdown /\ all = 0
  /\ result' = "cancel"
  /\ UNCHANGED <<asks, path, at, name, all, pos, area, showing, shutdown, history>>

\* cdialogGetfilenameShutdownStart and cdialogGetfilenameDestroy.
Close ==
  /\ result \in {"accept", "cancel", "overrun"}
  /\ result' = "closed"
  /\ UNCHANGED <<asks, path, at, name, all, pos, area, showing, shutdown, history>>

Next == Start \/ Entered \/ Joined \/ Failed \/ Close

Spec == Init /\ [][Next]_vars

-----------------------------------------------------------------------------
\* The line of the list that is drawn first (cdialog_getfilename_draw).
FirstLine ==
  IF all < Lines \/ pos < Lines \div 2 THEN 0
  ELSE IF pos > all - Lines \div 2 THEN all - Lines ELSE pos - Lines \div 2

\* The selected entry exists and is among the lines that are drawn.
SelectionShown == all > 0 => pos \in 0 .. all - 1 /\ pos \in FirstLine .. FirstLine + Lines - 1

\* The name stays right behind the path, in the buffer, however directories are entered and
\* left; what is accepted is the path and the name.
NameBehindPath ==
  result \in {"unknown", "accept"} =>
    /\ at = Length(IF result = "accept" THEN Front(path) ELSE path) + 1
    /\ at + Long[name] + 1 <= PathMax

\* A name is accepted if it can be one; a file is overwritten if the user said so, opened if
\* it is there (cdialogGetfilenameUpdate, START).  Not when there was no memory for a message.
AcceptedAllowed ==
  result = "accept" /\ ~starved =>
    /\ name \notin Illegal \cup {""} /\ kind # "dir"
    /\ asks = "save" /\ kind = "file" => confirmed
    /\ asks = "open" => kind = "file"
=============================================================================
