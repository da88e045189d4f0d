----------------------------- MODULE LineEditor -----------------------------
(***************************************************************************)
(* What the on-screen keyboard promises: a line of text of a limited       *)
(* length, and a place in it where characters go in and come out.          *)
(***************************************************************************)
EXTENDS Naturals, Sequences

CONSTANTS Chars, MaxLength

VARIABLES
  text,   \* the characters
  at      \* how many of them are before the cursor

vars == <<text, at>>

Init == text \in UNION {[1 .. n -> Chars] : n \in 0 .. MaxLength} /\ at = Len(text)

Before == SubSeq(text, 1, at)
After  == SubSeq(text, at + 1, Len(text))

Insert(c) ==
  /\ Len(text) < MaxLength
  /\ text' = Before \o <<c>> \o After /\ at' = at + 1

Delete ==
  /\ at > 0
  /\ text' = SubSeq(text, 1, at - 1) \o After /\ at' = at - 1

Left  == at > 0 /\ at' = at - 1 /\ UNCHANGED text
Right == at < Len(text) /\ at' = at + 1 /\ UNCHANGED text

Next == (\E c \in Chars : Insert(c)) \/ Delete \/ Left \/ Right

Spec == Init /\ [][Next]_vars
=============================================================================
