-------------------------------- MODULE Remap --------------------------------
(***************************************************************************)
(* The remap function's list and its menu (src/functions/remap.c), with    *)
(* its ini files.  An entry's buttons are numbers, 0 for none.             *)
(***************************************************************************)
EXTENDS Inimgr

CONSTANTS
  Buttons,   \* sets of buttons to remap from and to, without 0
  MaxList,   \* bound on the entries of the list
  PageLines  \* REMAP_LINES_PER_PAGE

VARIABLES
  list,      \* st_params.remapList: a sequence of entries
  selected,  \* st_params.selected: a place in the list, 0 for NULL
  column,    \* the column the user is in: "list" or "menu"
  dialog,    \* the dialog that is open: "none", or what it was opened for
  file,      \* the lines of the ini file on the memory stick
  saved,     \* history: the list that remap_save last wrote
  kept       \* history: the entries of it that it had memory for

vars == <<list, selected, column, dialog, file, saved, kept>>

Values == Buttons \cup {0}
Unset  == [real |-> 0, remap |-> 0]

TypeOK ==
  /\ list \in BoundedSeq([real : Values, remap : Values], MaxList)
  /\ selected \in 0 .. MaxList /\ column \in {"list", "menu"}
  /\ dialog \in {"none", "real", "remap", "clear"}
  /\ kept \in 0 .. MaxList

Init ==
  /\ list = <<>> /\ selected = 0 /\ column = "list" /\ dialog = "none"
  /\ file = <<>> /\ saved = <<>> /\ kept = 0

-----------------------------------------------------------------------------
(* The list, as [list, selected] records: remap_add, remap_delete. *)

Added(p) == [list |-> Append(p.list, Unset), selected |-> Len(p.list) + 1]

\* The neighbour that is selected when an entry goes: the next one, or the one before.
\* Variant: the one before, also for the first entry.
NeighbourBefore(p) == p.selected - 1
Neighbour(p) == IF p.selected < Len(p.list) THEN p.selected ELSE p.selected - 1
Deleted(p) ==
  IF p.selected = 0 THEN p
  ELSE [list |-> RemoveAt(p.list, p.selected), selected |-> Neighbour(p)]

Params == [list |-> list, selected |-> selected]
Become(p) == list' = p.list /\ selected' = p.selected

-----------------------------------------------------------------------------
(* Loading and saving. *)

\* The sections that the callbacks are registered for: REMAP_SECTION_DATA and a number.
Numbered(name) == Len(name) = 2

\* The value an entry gives a field that is still 0. mfConvertButtonN2C gives 0 for
\* names it does not know.
FirstOf(entries, key) ==
  LET i == SelectInSeq(entries, LAMBDA l : l.key = key /\ l.value \in Buttons)
  IN  IF i = 0 THEN 0 ELSE entries[i].value

\* remap_inicb_load, which reads on from where the file is. When there is no memory for
\* the entry it reads nothing.
LoadEntry(lines, state, section, memory) ==
  LET p    == Added(state.params)
      read == ReadEntries(lines, state.at, section)
      real == \E i \in DOMAIN read.entries : read.entries[i].key = "RealButtons"
      set  == [p EXCEPT !.list[p.selected] = [real  |-> FirstOf(read.entries, "RealButtons"),
                                             remap |-> FirstOf(read.entries, "RemapButtons")]]
  IN  IF ~memory THEN state
      ELSE [state EXCEPT !.params = IF real THEN set ELSE Deleted(p), !.at = read.at]

\* inimgrLoadSection of the i-th section's name, in inimgrLoadAllSections. Sections that
\* nothing is registered for are sought and read.
LoadSection(lines, sections, state, i, memory) ==
  LET found   == FindSection(sections, state.last, sections[i].name)
      section == sections[found]
      here    == [state EXCEPT !.last = found]
  IN  IF Numbered(section.name) THEN LoadEntry(lines, here, section, memory)
      ELSE [here EXCEPT !.at = ReadEntries(lines, section.start, section).at]

\* remap_load of a signed file into a list, with memory for all but some of the entries.
LoadInto(p, lines, failing) ==
  LET sections == SectionsOf(lines) IN
  FoldLeft(LAMBDA state, i : LoadSection(lines, sections, state, i, i \notin failing),
           [params |-> p, last |-> 1, at |-> Len(lines)],
           [i \in DOMAIN sections |-> i]).params

\* remap_save with memory for n sections: remap_inicb_save adds the section of the next
\* entry while inimgrSave walks them, and does not see when it cannot.
SaveLines(entries, n) ==
  Save(<<[name |-> Default, entries |-> <<>>]>> \o
       [i \in 1 .. n |-> [name |-> <<"Remap", i>>,
          entries |-> <<Entry("RealButtons", entries[i].real),
                        Entry("RemapButtons", entries[i].remap)>>]])

-----------------------------------------------------------------------------
(* The menu: remapMenu, in the list's column. *)

InList == column = "list" /\ dialog = "none"

\* TRIANGLE. The dialog may fail to open.
Add ==
  /\ InList /\ Len(list) < MaxList
  /\ Become(Added(Params))
  /\ dialog' \in {"real", "none"}
  /\ UNCHANGED <<column, file, saved, kept>>

\* The accept button: the buttons to be pressed instead.
EditRemap ==
  /\ InList /\ selected # 0
  /\ dialog' = "remap"
  /\ UNCHANGED <<list, selected, column, file, saved, kept>>

\* MF_DM_FINISH of the dialog. It may be accepted with no button at all.
Accepted ==
  /\ dialog \in {"real", "remap"}
  /\ \E b \in Values :
       list' = IF dialog = "real" THEN [list EXCEPT ![selected].real = b]
               ELSE [list EXCEPT ![selected].remap = b]
  /\ dialog' = "none"
  /\ UNCHANGED <<selected, column, file, saved, kept>>
Cancelled ==
  /\ dialog \in {"real", "remap"}
  /\ Become(IF list[selected].real = 0 THEN Deleted(Params) ELSE Params)
  /\ dialog' = "none"
  /\ UNCHANGED <<column, file, saved, kept>>

\* SQUARE.
Delete ==
  /\ InList /\ selected # 0
  /\ Become(Deleted(Params))
  /\ UNCHANGED <<column, dialog, file, saved, kept>>

\* UP and DOWN go round, LEFT and RIGHT move by a page and stop at the ends.
Moves(s) ==
  LET n == Len(list) IN
  { IF s > 1 THEN s - 1 ELSE n,
    IF s < n THEN s + 1 ELSE 1,
    IF s + PageLines < n THEN s + PageLines ELSE n,
    IF s > PageLines + 1 THEN s - PageLines ELSE 1 }
Select ==
  /\ InList /\ selected # 0
  /\ selected' \in Moves(selected)
  /\ UNCHANGED <<list, column, dialog, file, saved, kept>>

\* L or R.
SwitchColumn ==
  /\ dialog = "none"
  /\ column' = IF column = "list" THEN "menu" ELSE "list"
  /\ UNCHANGED <<list, selected, dialog, file, saved, kept>>

\* The other column: clear, after a question; save, when there is something; load.
AskClear ==
  /\ column = "menu" /\ dialog = "none"
  /\ dialog' = "clear"
  /\ UNCHANGED <<list, selected, column, file, saved, kept>>

\* remap_menu_clear with its answer, and remap_clear.
AnswerClear ==
  /\ dialog = "clear"
  /\ \E yes \in BOOLEAN :
       Become(IF yes /\ selected # 0 THEN [list |-> <<>>, selected |-> 0] ELSE Params)
  /\ dialog' = "none"
  /\ UNCHANGED <<column, file, saved, kept>>

SaveFile ==
  /\ column = "menu" /\ dialog = "none" /\ list # <<>>
  /\ \E n \in 1 .. Len(list) :
       file' = SaveLines(list, n) /\ kept' = n
  /\ saved' = list
  /\ UNCHANGED <<list, selected, column, dialog>>

\* remap_ini_handle: clear, then load. A file that cannot be read is beyond the model:
\* remap_load then reads sections of a file that is not open.
LoadFile(failing) ==
  /\ column = "menu" /\ dialog = "none" /\ Signed(file)
  /\ Become(LoadInto([list |-> <<>>, selected |-> 0], file, failing))
  /\ UNCHANGED <<column, dialog, file, saved, kept>>

\* The game is started anew: remapIniLoad adds the file of macrofire.ini, if any.
Restart ==
  /\ \/ Signed(file) /\ Become(LoadInto([list |-> <<>>, selected |-> 0], file, {}))
     \/ Become([list |-> <<>>, selected |-> 0])
  /\ column' = "list" /\ dialog' = "none"
  /\ UNCHANGED <<file, saved, kept>>

Next ==
  \/ Add \/ EditRemap \/ Accepted \/ Cancelled \/ Delete \/ Select
  \/ SwitchColumn \/ AskClear \/ AnswerClear \/ SaveFile
  \/ \E failing \in SUBSET (2 .. MaxList + 1) : LoadFile(failing)
  \/ Restart

Spec == Init /\ [][Next]_vars

-----------------------------------------------------------------------------
\* An entry is selected whenever there is one, and it is one of the list: remapMenu
\* draws st_params.selected, and the dialogs write to it, without a test.
SelectedInList == IF list = <<>> THEN selected = 0 ELSE selected \in DOMAIN list

\* While memory lasts, loading a saved list gives the list that was saved, in its order,
\* or the beginning that the save had memory for: no section takes another's entries.
Restored == LoadFile({}) => list' = SubSeq(saved, 1, kept)
LoadRestores == [][Restored]_vars

\* The list that a file means, whoever wrote it: the numbered sections that name real
\* buttons, in order, each with the buttons of its own lines.
LinesUnder(lines, i) ==
  LET next == SelectInSubSeq(lines, i + 1, Len(lines), LAMBDA l : l.kind = "heading")
  IN  SelectSeq(SubSeq(lines, i + 1, IF next = 0 THEN Len(lines) ELSE next - 1),
                LAMBDA l : l.kind = "entry")
MeantBy(lines) ==
  LET heads == SelectSeq([i \in DOMAIN lines |-> i],
                 LAMBDA i : /\ lines[i].kind = "heading" /\ Numbered(lines[i].name)
                            /\ \E l \in Range(LinesUnder(lines, i)) : l.key = "RealButtons")
  IN  [h \in DOMAIN heads |->
        [real  |-> FirstOf(LinesUnder(lines, heads[h]), "RealButtons"),
         remap |-> FirstOf(LinesUnder(lines, heads[h]), "RemapButtons")]]
=============================================================================
