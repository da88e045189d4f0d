------------------------------ MODULE SoskKeys ------------------------------
(***************************************************************************)
(* The keys of the on-screen keyboard (cdialog/sosk.c): tables of keys in  *)
(* rows, the key in focus, and the change from one table to the next,      *)
(* which remembers the key that a smaller table has no place for.          *)
(***************************************************************************)
EXTENDS Integers, Sequences, FiniteSetsExt

CONSTANTS
  Tables,   \* for each type, from the lowest bit on: its last key, and the keys of a row or 0
  Types     \* the types that the caller allows

VARIABLES
  type, pos, lastPos,   \* the members of struct cdialog_sosk_work_chtab
  home                  \* history: the key that was last moved to, and its table

keysVars == <<type, pos, lastPos, home>>

Count(t) == Tables[t].count
RowOf(t) == Tables[t].width

TypeOK == type \in Types /\ pos \in 0 .. Count(type) /\ lastPos \in Nat

\* cdialog_sosk_select_next_table: the next higher type, or the lowest.
NextType(t) ==
  LET higher == {u \in Types : u > t} IN Min(IF higher = {} THEN Types ELSE higher)

\* The place that is remembered is taken where there is one, and the nearest otherwise.
\* A place of 0 is not remembered, but the same in every table.
Placed(t, p, last) == IF last <= Count(t) THEN last ELSE Min({p, Count(t)})

Init ==
  /\ type = Min(Types) /\ pos = 0 /\ lastPos = 0
  /\ home = [type |-> type, pos |-> pos]

Remembered == IF lastPos = 0 THEN pos ELSE lastPos

SelectNextTable ==
  /\ type' = NextType(type)
  /\ lastPos' = Remembered
  /\ pos' = Placed(type', pos, lastPos')
  /\ UNCHANGED home

\* cdialog_sosk_focus_normalize.
\* Variant: what is remembered stays.
FocusKeeping(p) ==
  /\ pos' = Min({p, Count(type)}) /\ home' = [type |-> type, pos |-> pos']
  /\ UNCHANGED <<type, lastPos>>
Focus(p) ==
  /\ pos' = Min({p, Count(type)}) /\ lastPos' = 0
  /\ home' = [type |-> type, pos |-> pos']
  /\ UNCHANGED type

InRows == RowOf(type) > 0

\* cdialog_sosk_focus_left.
LeftOf ==
  IF InRows /\ pos % RowOf(type) = 0 THEN pos + RowOf(type) - 1
  ELSE IF pos = 0 THEN Count(type) ELSE pos - 1

\* cdialog_sosk_focus_right.
RightOf ==
  IF InRows /\ (pos + 1) % RowOf(type) = 0 THEN pos + 1 - RowOf(type)
  ELSE IF pos + 1 <= Count(type) THEN pos + 1
  ELSE IF InRows THEN RowOf(type) * ((pos + 1) \div RowOf(type)) ELSE 0

\* cdialog_sosk_focus_up: from the first row to the last key of the column.
Above ==
  LET bottom == (Count(type) - (Count(type) % RowOf(type))) + (pos % RowOf(type))
  IN  IF pos >= RowOf(type) THEN pos - RowOf(type)
      ELSE IF bottom > Count(type) THEN bottom - RowOf(type) ELSE bottom

\* cdialog_sosk_focus_down.
Below == IF Count(type) - pos >= RowOf(type) THEN pos + RowOf(type) ELSE pos % RowOf(type)

FocusLeft  == Focus(LeftOf)
FocusRight == Focus(RightOf)
FocusUp    == InRows /\ Focus(Above)
FocusDown  == InRows /\ Focus(Below)

Next == SelectNextTable \/ FocusLeft \/ FocusRight \/ FocusUp \/ FocusDown

Spec == Init /\ [][Next]_keysVars

-----------------------------------------------------------------------------
\* However often the table is changed, its key is in focus again when the table that was
\* last moved in comes back.
KeyComesBack == type = home.type => pos = home.pos
=============================================================================
