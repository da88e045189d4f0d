----------------------------- MODULE MenuCursor -----------------------------
(***************************************************************************)
(* The cursor of the menu (mfMenuDrawTables): a page has tables of items,  *)
(* not all of which can be selected at the moment, and a direction leads   *)
(* to the next one that can.  The pages are those of the macro function,   *)
(* whose items come and go with the state of the selected slot             *)
(* (macro_menu_update), of the rapid fire function and of the analog       *)
(* stick.  Items that leave the menu are not acted out.                    *)
(***************************************************************************)
EXTENDS Integers, Sequences, FiniteSets, FiniteSetsExt

VARIABLES
  page,      \* the page
  cur,       \* __mfmenu__gParams->Menu: table, row and column
  action,    \* work.actionType
  chosen,    \* menu.selectedData: "none", "acting" if it is actionData, or "waiting"
  filled     \* menu.selectedData->macro

cursorVars == <<page, cur, action, chosen, filled>>

Directions == {"up", "down", "left", "right"}

\* Positions in lines and characters; the widths of the columns are 0 unless set.
Table(x, y, rows, cols, widths) == [x |-> x, y |-> y, rows |-> rows, cols |-> cols, widths |-> widths]
MacroTables ==
  << Table(5, 6, 1, 2, <<10, 0>>), Table(5, 9, 1, 1, <<0>>), Table(5, 11, 2, 1, <<0>>),
     Table(5, 15, 2, 2, <<0, 0>>), Table(5, 19, 3, 2, <<0, 0>>), Table(5, 24, 2, 1, <<0>>) >>
RapidfireTables ==
  << Table(5, 6, 7, 2, <<21, 0>>), Table(5, 15, 2, 1, <<0>>), Table(5, 19, 2, 1, <<0>>) >>
AnalogTables == << Table(5, 6, 7, 1, <<0>>) >>

Tables == CASE page = "macro"     -> MacroTables
            [] page = "rapidfire" -> RapidfireTables
            [] page = "analog"    -> AnalogTables

Places == UNION { {<<t, r, c>> : r \in 1 .. Tables[t].rows, c \in 1 .. Tables[t].cols} :
                  t \in DOMAIN Tables }

TypeOK ==
  /\ page \in {"macro", "rapidfire", "analog"} /\ cur \in Places
  /\ action \in {"NTD", "RECORD", "TRACE"} /\ chosen \in {"none", "acting", "waiting"}
  /\ filled \in BOOLEAN
  /\ chosen = "acting" => action # "NTD"
  /\ chosen = "none" => action = "NTD"

-----------------------------------------------------------------------------
(* The items that can be selected. *)

\* macro_menu_update: add; slot, hotkey, analog; loop, record stop; stop; remove, edit, load,
\* clear, save; record start; run, append.
MacroActive ==
  {<<1, 1, 1>>} \cup
  CASE chosen = "none"    -> {}
    [] chosen = "acting"  -> {<<2, 1, 1>>, <<3, 1, 1>>, <<5, 3, 1>>} \cup
                             IF action = "RECORD" THEN {<<3, 2, 1>>, <<5, 2, 1>>} ELSE {<<4, 2, 1>>}
    [] chosen = "waiting" ->
         {<<2, 1, 1>>, <<3, 1, 1>>, <<5, 3, 1>>, <<1, 1, 2>>, <<3, 2, 1>>, <<4, 1, 2>>, <<6, 1, 1>>}
         \cup (IF filled THEN {<<4, 2, 2>>, <<6, 2, 1>>} ELSE {})
         \cup (IF action = "NTD" THEN {<<5, 1, 1>>} ELSE {})
         \cup (IF action = "NTD" /\ filled THEN {<<4, 1, 1>>, <<5, 1, 2>>} ELSE {})

\* Rows without an item part the others.
Active == CASE page = "macro"     -> MacroActive
            [] page = "rapidfire" -> {p \in Places : p[1] # 1 \/ p[2] # 5}
            [] page = "analog"    -> {p \in Places : p[2] \notin {2, 5}}

-----------------------------------------------------------------------------
(* The next table, mf_menu_move_table. Its tables are one above the other. *)

Vertical(dir) == dir \in {"up", "down"}
Off(a, b) == IF a < b THEN b - a ELSE a - b

\* mf_menu_nearest_table in the direction, or mf_menu_farest_table on the other side, which is
\* the same one if it is the only one.
NextTable(t, dir) ==
  LET away  == [u \in DOMAIN Tables |-> IF dir = "down" THEN Tables[u].y - Tables[t].y
                                        ELSE Tables[t].y - Tables[u].y]
      least(us) == CHOOSE u \in us : \A v \in us : away[u] <= away[v]
      ahead == {u \in DOMAIN Tables : away[u] > 0}
  IN  least(IF ahead = {} THEN DOMAIN Tables ELSE ahead)

\* mf_menu_select_table_vertical: the column that begins nearest to where this one does.
ColumnAt(t, c) == Tables[t].x + MapThenSumSet(LAMBDA i : Tables[t].widths[i], 1 .. c - 1)
NearColumn(t, c, u) ==
  LET off == [d \in 1 .. Tables[u].cols |-> Off(ColumnAt(t, c), ColumnAt(u, d))]
  IN  Min({d \in DOMAIN off : \A e \in DOMAIN off : off[d] <= off[e]})

\* From the last item of a table: into the next, or round in the row, as no table is beside
\* another.
Round(i, last) == IF i # 1 THEN 1 ELSE last
MoveTable(p, dir) ==
  IF Vertical(dir)
  THEN LET u == NextTable(p[1], dir)
       IN  <<u, IF dir = "down" THEN 1 ELSE Tables[u].rows, NearColumn(p[1], p[3], u)>>
  ELSE [p EXCEPT ![3] = Round(p[3], Tables[p[1]].cols)]

-----------------------------------------------------------------------------
(* The next item. *)

Stepped(p, dir) ==
  CASE dir = "up"    /\ p[2] > 1               -> <<p[1], p[2] - 1, p[3]>>
    [] dir = "down"  /\ p[2] < Tables[p[1]].rows -> <<p[1], p[2] + 1, p[3]>>
    [] dir = "left"  /\ p[3] > 1               -> <<p[1], p[2], p[3] - 1>>
    [] dir = "right" /\ p[3] < Tables[p[1]].cols -> <<p[1], p[2], p[3] + 1>>
    [] OTHER -> MoveTable(p, dir)

\* An item that cannot be selected: another of the row, or of the column if the direction
\* is horizontal, the nearest of those before it or else of those behind.
\* Variant: no other is looked for.
NoOther(p, dir) == p
Other(p, dir) ==
  LET k == IF Vertical(dir) THEN 3 ELSE 2
      line == {q \in Active : q[1] = p[1] /\ q[5 - k] = p[5 - k]}
      before == {q[k] : q \in {q \in line : q[k] < p[k]}}
      behind == {q[k] : q \in {q \in line : q[k] > p[k]}}
  IN  IF p \in Active \/ line = {} THEN p
      ELSE [p EXCEPT ![k] = IF before # {} THEN Max(before) ELSE Min(behind)]

\* The loop. Places are gone through in an order that the first decides: if none of as many
\* as there are is an item that can be selected, it goes on for ever.
Found(p, dir) ==
  LET seek[q \in Places, n \in Nat] ==
        LET r == Other(Stepped(q, dir), dir)
        IN  IF r \in Active \/ n = 0 THEN r ELSE seek[r, n - 1]
  IN  seek[p, Cardinality(Places)]

-----------------------------------------------------------------------------
Slots == [chosen : {"acting", "waiting"}, filled : BOOLEAN]

\* A page begins: what was recorded or run since the last time, and the slots, may be any.
First == <<1, 1, 1>>
Enter ==
  /\ page' \in {"macro", "rapidfire", "analog"} /\ cur' = First
  /\ action' \in {"NTD", "RECORD", "TRACE"} /\ filled' \in BOOLEAN
  /\ chosen' \in IF action' = "NTD" THEN {"none", "waiting"} ELSE {"acting", "waiting"}

Init ==
  /\ page = "macro" /\ cur = First /\ action = "NTD" /\ chosen = "none" /\ filled = FALSE

Move(dir) == cur' = Found(cur, dir) /\ UNCHANGED <<page, action, chosen, filled>>

At(item) == page = "macro" /\ cur = item /\ item \in Active /\ UNCHANGED <<page, cur>>

\* macro_menu_add: the new slot is selected.
Add == At(<<1, 1, 1>>) /\ chosen' = "waiting" /\ filled' = FALSE /\ UNCHANGED action

\* macro_menu_remove and macro_control_slot: the slot before or behind; there may be none
\* left if there is none that acts.
Remove ==
  /\ At(<<1, 1, 2>>)
  /\ \/ action = "NTD" /\ chosen' = "none" /\ filled' = FALSE
     \/ \E s \in Slots : (s.chosen = "acting" => action # "NTD")
                         /\ chosen' = s.chosen /\ filled' = s.filled
  /\ UNCHANGED action
SelectSlot ==
  /\ At(<<2, 1, 1>>)
  /\ \E s \in Slots : (s.chosen = "acting" => action # "NTD" /\ chosen = "waiting")
                      /\ chosen' = s.chosen /\ filled' = s.filled
  /\ UNCHANGED action

\* macro_menu_stop and macro_menu_record_stop.
Stop ==
  /\ At(<<4, 2, 1>>) \/ At(<<5, 2, 1>>)
  /\ action' = "NTD" /\ chosen' = "waiting" /\ UNCHANGED filled

\* macro_menu_edit, macro_menu_clear and loading, which clears what it cannot load.
Edit  == At(<<4, 1, 2>>) /\ filled' = TRUE  /\ UNCHANGED <<action, chosen>>
Clear == At(<<4, 2, 2>>) /\ filled' = FALSE /\ UNCHANGED <<action, chosen>>
Load  == At(<<6, 1, 1>>) /\ filled' \in BOOLEAN /\ UNCHANGED <<action, chosen>>

Next ==
  \/ Enter \/ (\E dir \in Directions : Move(dir))
  \/ Add \/ Remove \/ SelectSlot \/ Stop \/ Edit \/ Clear \/ Load

Spec == Init /\ [][Next]_cursorVars

-----------------------------------------------------------------------------
\* Where the directions lead from the items that can be selected, and from where the cursor is,
\* which may be an item that has just been disabled.
Moves == [p \in Active \cup {cur} |-> {Found(p, dir) : dir \in Directions}]
Reached(moves) ==
  LET within[n \in Nat] ==
        IF n = 1 THEN moves[cur] ELSE UNION {{p} \cup moves[p] : p \in within[n - 1]}
  IN  within[Cardinality(Places)]

\* Every direction ends at an item that can be selected, and directions lead to every such item.
EveryItemReached ==
  \A moves \in {Moves} :
    (\A p \in DOMAIN moves : moves[p] \subseteq Active) /\ Reached(moves) = Active
=============================================================================
