--------------------------------- MODULE Dirh ---------------------------------
(***************************************************************************)
(* Directories read by a thread of their own (src/include/file/dirh), and  *)
(* their only user, the dialog that asks for a file's name.  The dialog   *)
(* waits for the thread, but not for ever, and closes on any error.  While *)
(* it is between two calls the thread runs until it waits for the card.    *)
(***************************************************************************)
EXTENDS Naturals

CONSTANTS
  MaxEntries    \* bound on the entries of a directory

VARIABLES
  handle,   \* the dialog's handle: 0 for none, or 1 or 2
  entry,    \* struct dirh_entry of that handle: [list, count, filled, pos]
  size,     \* the entries of the directory on the card
  asker,   \* where the dialog is: "closed", "open", "chdir" (waiting), "shown"
  flag,     \* thdopen.eventId and its bits: {} for 0, else "id" with "ok", "exit"
  thread,   \* the thread: [at, data, left], data the handle it writes to
  stray,    \* history: something was written to a handle that is no more
  mishap    \* history: what has gone wrong so far

vars == <<handle, entry, size, asker, flag, thread, stray, mishap>>

NoEntry  == [list |-> FALSE, count |-> 0, filled |-> 0, pos |-> 0]
NoThread == [at |-> "none", data |-> 0, left |-> 0]
Stages   == {"none", "dopen", "count", "fill", "done"}
Mishaps  == {"timeout", "card", "thread", "memory"}

TypeOK ==
  /\ handle \in 0 .. 2 /\ size \in 0 .. MaxEntries
  /\ entry.list \in BOOLEAN /\ entry.count \in 0 .. MaxEntries
  /\ entry.filled \in 0 .. entry.count /\ entry.pos \in 0 .. entry.count
  /\ asker \in {"closed", "open", "chdir", "shown"}
  /\ flag \subseteq {"id", "ok", "exit"} /\ thread.at \in Stages
  /\ stray \in BOOLEAN /\ mishap \subseteq Mishaps

Init ==
  /\ handle = 0 /\ entry = NoEntry /\ size = 0 /\ asker = "closed"
  /\ flag = {} /\ thread = NoThread /\ stray = FALSE /\ mishap = {}

-----------------------------------------------------------------------------
(* The dialog. *)

\* dirhNew, at the first frame of a dialog: not the handle that a thread still writes to.
New ==
  /\ asker = "closed"
  /\ handle' = IF thread.data = 1 THEN 2 ELSE 1
  /\ entry' = NoEntry /\ asker' = "open"
  /\ UNCHANGED <<size, flag, thread, stray, mishap>>

\* Between two frames the thread goes on unless it waits for the card.
Settled == thread.at = "done" => "exit" \notin flag

\* __dirh_clear_entries.
Cleared == IF entry.list THEN NoEntry ELSE entry

\* dirhDestroy, and the end of the dialog.
Destroyed == /\ handle' = 0 /\ entry' = NoEntry /\ asker' = "closed"

\* dirhChdir of a directory, when the dialog opens and when the user enters another: the
\* path is wrong, a thread is still about, no thread can be made, or one is started.
ChdirWrong ==
  /\ asker \in {"open", "shown"} /\ Settled
  /\ Destroyed
  /\ UNCHANGED <<size, flag, thread, stray, mishap>>
ChdirRunning ==
  /\ asker \in {"open", "shown"} /\ Settled /\ "id" \in flag
  /\ Destroyed
  /\ UNCHANGED <<size, flag, thread, stray, mishap>>
ChdirNoThread ==
  /\ asker \in {"open", "shown"} /\ Settled /\ "id" \notin flag
  /\ flag' = {"id"} /\ Destroyed /\ mishap' = mishap \cup {"thread"}
  /\ UNCHANGED <<size, thread, stray>>
Chdir ==
  /\ asker \in {"open", "shown"} /\ Settled /\ "id" \notin flag
  /\ entry' = Cleared /\ size' \in 0 .. MaxEntries
  /\ flag' = {"id"} /\ thread' = [at |-> "dopen", data |-> handle, left |-> 0]
  /\ asker' = "chdir"
  /\ UNCHANGED <<handle, stray, mishap>>

\* The end of dirh_thread_parse: the thread has answered, well or not.
Answered ==
  /\ asker = "chdir" /\ "ok" \in flag
  /\ flag' = flag \cup {"exit"}
  /\ IF thread.left = 0 THEN asker' = "shown" /\ UNCHANGED <<handle, entry>> ELSE Destroyed
  /\ UNCHANGED <<size, thread, stray, mishap>>
TimedOut ==
  /\ asker = "chdir" /\ "ok" \notin flag
  /\ flag' = flag \cup {"exit"} /\ mishap' = mishap \cup {"timeout"} /\ Destroyed
  /\ UNCHANGED <<size, thread, stray>>

\* dirhSeek to the selected entry and dirhRead.
Read ==
  /\ asker = "shown"
  /\ \E pos \in 0 .. entry.count :
       entry' = [entry EXCEPT !.pos = IF pos < entry.count THEN pos + 1 ELSE pos]
  /\ UNCHANGED <<handle, size, asker, flag, thread, stray, mishap>>

Close ==
  /\ asker \in {"open", "shown"}
  /\ Destroyed
  /\ UNCHANGED <<size, flag, thread, stray, mishap>>

-----------------------------------------------------------------------------
(* The thread: dirh_dopen_thread_main. Its steps end where it waits for the card. *)

Own == thread.data = handle
\* A write to the handle's entry, which is freed memory if the handle is no more.
Put(e) ==
  /\ entry' = IF Own THEN e ELSE entry
  /\ stray' = (stray \/ ~Own)

\* The end of dirh_parse_dirent: the status is 0 if all is well.
Finish(status) ==
  /\ thread' = [thread EXCEPT !.at = "done", !.left = status]
  /\ flag' = flag \cup {"ok"}

\* The directory is open. With "exit" set nobody waits any more.
\* Variant: the answer is given before the entries are counted.
OpenedAnswers ==
  /\ thread.at = "dopen"
  /\ thread' = [thread EXCEPT !.at = "count"] /\ flag' = flag \cup {"ok"}
  /\ UNCHANGED <<handle, entry, size, asker, stray, mishap>>
Opened ==
  /\ thread.at = "dopen"
  /\ IF "exit" \in flag THEN Finish(0)
     ELSE thread' = [thread EXCEPT !.at = "count"] /\ UNCHANGED flag
  /\ UNCHANGED <<handle, entry, size, asker, stray, mishap>>

\* The entries are counted, as far as the card lets, and the list is made.
Counted ==
  /\ thread.at = "count"
  /\ \E n \in 0 .. size :
       /\ mishap' = IF n < size THEN mishap \cup {"card"} ELSE mishap
       /\ Put([entry EXCEPT !.count = @ + n, !.list = TRUE])
  /\ thread' = [thread EXCEPT !.at = "fill"]
  /\ UNCHANGED <<handle, size, asker, flag>>
NoMemory ==
  /\ thread.at = "count"
  /\ Put([entry EXCEPT !.count = @ + size]) /\ mishap' = mishap \cup {"memory"}
  /\ Finish(1)
  /\ UNCHANGED <<handle, size, asker>>

\* The list is filled, as far as the card lets.
\* Variant: however long the list is.
FilledBeyond ==
  /\ thread.at = "fill"
  /\ \E n \in 0 .. size :
       /\ mishap' = IF n < size THEN mishap \cup {"card"} ELSE mishap
       /\ Put([entry EXCEPT !.filled = n])
  /\ Finish(0)
  /\ UNCHANGED <<handle, size, asker>>
Filled ==
  /\ thread.at = "fill"
  /\ \E n \in 0 .. size :
       /\ mishap' = IF n < size THEN mishap \cup {"card"} ELSE mishap
       /\ Put([entry EXCEPT !.filled = IF n < entry.count THEN n ELSE entry.count])
  /\ Finish(0)
  /\ UNCHANGED <<handle, size, asker>>

\* The flag is deleted once nobody waits for it.
\* Variant: the handle is not forgotten when it is deleted.
LeaveKeepsId ==
  /\ thread.at = "done" /\ "exit" \in flag
  /\ flag' = {"id"} /\ thread' = NoThread
  /\ UNCHANGED <<handle, entry, size, asker, stray, mishap>>
Leave ==
  /\ thread.at = "done" /\ "exit" \in flag
  /\ flag' = {} /\ thread' = NoThread
  /\ UNCHANGED <<handle, entry, size, asker, stray, mishap>>

Next ==
  \/ New \/ ChdirWrong \/ ChdirRunning \/ ChdirNoThread \/ Chdir \/ Answered \/ TimedOut
  \/ Read \/ Close
  \/ Opened \/ Counted \/ NoMemory \/ Filled \/ Leave

Spec == Init /\ [][Next]_vars

-----------------------------------------------------------------------------
\* The dialog shows the whole directory, with every entry of the list filled in, unless
\* the card failed: the thread never answers for a list that it has not finished.
ListWhole ==
  asker = "shown" /\ "card" \notin mishap =>
    entry.list /\ entry.count = size /\ entry.filled = size

\* Until a call has timed out the thread only writes to the dialog's own handle, and
\* until a thread could not be made, a flag is left over only while there is a thread:
\* whoever is refused for a thread that is running may try again later.
ThreadAccounted ==
  /\ "timeout" \notin mishap => ~stray /\ (thread.at \notin {"none", "done"} => Own)
  /\ "thread" \notin mishap => ("id" \in flag <=> thread.at # "none")
=============================================================================
