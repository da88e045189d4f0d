-------------------------------- MODULE Names --------------------------------
(***************************************************************************)
(* The two tables of buttons that are shared by count: the names, for the  *)
(* conversions between buttons and their names in files (mfmain.c), and    *)
(* the symbols, of the menu and of the dialog that waits for buttons       *)
(* (padutilCreateButtonNames, padutilCreateButtonSymbols).                 *)
(***************************************************************************)
EXTENDS Naturals

VARIABLES
  names,     \* st_names_refcount, of a table that is there unless it is 0
  ready,     \* st_cvbtn is set
  ini,       \* where mf_ini is: "no", "own" entries, "functions", "end"
  user,      \* who else converts: a file's sections, an entry, or "none"
  symbols,   \* st_symbols_refcount
  menu,      \* the menu has the symbols: "closed", "open"
  dialog,    \* and the dialog for buttons
  left       \* history: a parser has run out of memory, and not finished

vars == <<names, ready, ini, user, symbols, menu, dialog, left>>

\* Who brackets conversions with mfConvertButtonReady and mfConvertButtonFinish: sections of
\* remaps, the modes of the rapid fire, the commands and the hotkey of a macro.
Users == {"remap", "rapidfire", "commands", "hotkey"}

TypeOK ==
  /\ names \in 0 .. 1 /\ ready \in BOOLEAN
  /\ ini \in {"no", "own", "functions", "end"} /\ user \in Users \cup {"none"}
  /\ symbols \in 0 .. 2 /\ menu \in {"closed", "open"} /\ dialog \in BOOLEAN /\ left \in BOOLEAN

Init ==
  /\ names = 0 /\ ready = FALSE /\ ini = "no" /\ user = "none"
  /\ symbols = 0 /\ menu = "closed" /\ dialog = FALSE /\ left = FALSE

namesVars  == <<names, ready, left>>
symbolVars == <<symbols, menu, dialog>>

\* mfConvertButtonReady, and when there is no memory for the table.
Ready    == ready' = TRUE /\ names' = IF ready THEN names ELSE names + 1
NotReady == ~ready /\ names = 0 /\ UNCHANGED <<ready, names>>

\* mfConvertButtonFinish: whoever finishes, the table is gone.
\* Variant: st_cvbtn keeps the table that is gone.
FinishStale == ready /\ names' = names - 1 /\ UNCHANGED ready
Finish ==
  /\ ready' = FALSE
  /\ names' = IF ready THEN names - 1 ELSE names

\* mf_ini: its own entries are converted before the functions load theirs.
Start ==
  /\ ini = "no" /\ user = "none" /\ menu = "closed"
  /\ \/ Ready /\ ini' = "own"
     \/ NotReady /\ ini' = "end"
  /\ UNCHANGED <<user, symbolVars, left>>
OwnDone ==
  /\ ini = "own" /\ ini' = "functions"
  /\ UNCHANGED <<namesVars, user, symbolVars>>
IniDone ==
  /\ ini = "functions" /\ user = "none"
  /\ Finish /\ ini' = "end" /\ left' = FALSE
  /\ UNCHANGED <<user, symbolVars>>

\* The functions convert while the file is loaded, and for the menu, which runs afterwards.
Begin(who) ==
  /\ user = "none" /\ (ini = "functions" \/ (ini = "end" /\ menu = "open" /\ ~dialog))
  /\ \/ Ready /\ user' = who
     \/ NotReady /\ UNCHANGED user
  /\ UNCHANGED <<ini, symbolVars, left>>
End ==
  /\ user # "none"
  /\ Finish /\ user' = "none" /\ left' = FALSE
  /\ UNCHANGED <<ini, symbolVars>>
\* macromgr_ini_parser returns when there is no memory for another command.
NoCommand ==
  /\ user = "commands"
  /\ user' = "none" /\ left' = TRUE
  /\ UNCHANGED <<names, ready, ini, symbolVars>>

\* padutilCreateButtonSymbols and padutilDestroyButtonSymbols.
Create  == symbols' = symbols + 1
Destroy == symbols' = IF symbols = 0 THEN 0 ELSE symbols - 1

\* mfmenu_init_params may fail before or at the symbols: it is all undone the same way.
OpenMenu ==
  /\ ini = "end" /\ menu = "closed"
  /\ \/ Create /\ menu' = "open"
     \/ Destroy /\ UNCHANGED menu
  /\ UNCHANGED <<namesVars, ini, user, dialog>>
OpenDialog ==
  /\ menu = "open" /\ ~dialog /\ user = "none"
  /\ \/ Create /\ dialog' = TRUE
     \/ UNCHANGED <<symbols, dialog>>   \* it cannot be shown, and is shut down
  /\ UNCHANGED <<namesVars, ini, user, menu>>
CloseDialog ==
  /\ dialog /\ Destroy /\ dialog' = FALSE
  /\ UNCHANGED <<namesVars, ini, user, menu>>
CloseMenu ==
  /\ menu = "open" /\ ~dialog /\ user = "none"
  /\ Destroy /\ menu' = "closed"
  /\ UNCHANGED <<namesVars, ini, user, dialog>>

Next ==
  \/ Start \/ OwnDone \/ IniDone
  \/ (\E who \in Users : Begin(who)) \/ End \/ NoCommand
  \/ OpenMenu \/ OpenDialog \/ CloseDialog \/ CloseMenu

Spec == Init /\ [][Next]_vars

-----------------------------------------------------------------------------
\* Whoever converts has a table of names, nested as it may be in mf_ini, and so have the menu
\* and the dialog their symbols. Nobody else keeps a table, but for a parser that ran out of
\* memory, whose table the next one to finish gives back (mfConvertButtonReady, Finish).
TablesKept ==
  /\ user # "none" \/ ini = "own" => ready /\ names = 1
  /\ ready = (names = 1)
  /\ names = 1 => user # "none" \/ ini \in {"own", "functions"} \/ left
  /\ (menu = "open" \/ dialog) = (symbols > 0)
=============================================================================
