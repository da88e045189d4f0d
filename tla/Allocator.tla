----------------------------- MODULE Allocator -----------------------------
(***************************************************************************)
(* What the users of a memory pool rely on: a block is handed out to one   *)
(* of them at a time, and stays his until he gives it back or the pool     *)
(* goes.                                                                   *)
(***************************************************************************)
CONSTANT Blocks

VARIABLE allocated

Init == allocated = {}

Alloc(b) == b \notin allocated /\ allocated' = allocated \cup {b}
Free(b)  == b \in allocated /\ allocated' = allocated \ {b}
Destroy  == allocated' = {}

Next == Destroy \/ \E b \in Blocks : Alloc(b) \/ Free(b)

Spec == Init /\ [][Next]_allocated
=============================================================================
