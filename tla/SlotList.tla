------------------------------ MODULE SlotList ------------------------------
(***************************************************************************)
(* The macro slots as the user of the menu knows them: a sequence without  *)
(* repetitions, to which slots are added at the end and from which the     *)
(* selected one is removed; one slot is selected if there is any.          *)
(***************************************************************************)
EXTENDS Sequences, Naturals

CONSTANTS Slots, Null

VARIABLES list, selected

vars == <<list, selected>>

Init == list = <<>> /\ selected = Null

In(s, seq)   == \E n \in 1 .. Len(seq) : seq[n] = s
Without(seq, n) == SubSeq(seq, 1, n - 1) \o SubSeq(seq, n + 1, Len(seq))

Add(s) ==
  /\ ~In(s, list)
  /\ list' = Append(list, s)
  /\ selected' = s

\* The one behind the removed slot is selected next, or the last one.
Remove ==
  \E n \in 1 .. Len(list) :
    /\ list[n] = selected
    /\ list' = Without(list, n)
    /\ selected' = IF list' = <<>> THEN Null
                   ELSE IF n = Len(list) THEN list[n - 1] ELSE list[n + 1]

\* By the user, or because its hotkey was pressed.
Select(s) ==
  /\ In(s, list)
  /\ selected' = s
  /\ UNCHANGED list

Next == Remove \/ \E s \in Slots : Add(s) \/ Select(s)

Spec == Init /\ [][Next]_vars
=============================================================================
