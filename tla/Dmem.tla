-------------------------------- MODULE Dmem --------------------------------
(***************************************************************************)
(* A pool of dynamic memory (src/include/memory/dmem): a list of kernel    *)
(* heaps that grows when no heap has room for a request and shrinks when   *)
(* the last block of a heap is given back.                                 *)
(*                                                                         *)
(* One call is one action: each pool belongs to one user, who does not     *)
(* call it from two threads at once.  Sizes are left out: a heap that is   *)
(* there may have no room for a request (it may be fragmented), a new one, *)
(* made for the request, always has.                                       *)
(***************************************************************************)
EXTENDS Naturals, Sequences, FiniteSets

CONSTANTS
  Heaps,    \* handles of kernel heaps
  Blocks,   \* addresses of blocks
  Null

ASSUME HeapsAssumption == IsFiniteSet(Heaps) /\ IsFiniteSet(Blocks) /\ Null \notin Heaps

VARIABLES
  root,      \* whether the pool is there
  heapList, lastUse,
  count,     \* count in the struct dmem_heap of each heap
  parent,    \* the pointer stored in front of each block
  created,   \* kernel: the heaps that are there
  inUse,     \* kernel: the blocks each heap has handed out
  held       \* history: the blocks the user has and has not given back

vars == <<root, heapList, lastUse, count, parent, created, inUse, held>>

Listed == {heapList[n] : n \in 1 .. Len(heapList)}

TypeOK ==
  /\ root \in BOOLEAN
  /\ heapList \in Seq(Heaps) /\ lastUse \in Heaps \cup {Null}
  /\ count \in [Heaps -> 0 .. Cardinality(Blocks)]
  /\ parent \in [Blocks -> Heaps \cup {Null}]
  /\ created \subseteq Heaps /\ inUse \in [Heaps -> SUBSET Blocks] /\ held \subseteq Blocks

Init ==
  /\ root = FALSE /\ heapList = <<>> /\ lastUse = Null
  /\ count = [h \in Heaps |-> 0] /\ parent = [b \in Blocks |-> Null]
  /\ created = {} /\ inUse = [h \in Heaps |-> {}] /\ held = {}

-----------------------------------------------------------------------------
(* The kernel's heaps. *)

InMemory == UNION {inUse[h] : h \in created}

\* sceKernelDeleteHeap: whatever was in it goes with it.
HeapsGone(hs) ==
  /\ created' = created \ hs
  /\ inUse' = [h \in Heaps |-> IF h \in hs THEN {} ELSE inUse[h]]

-----------------------------------------------------------------------------
\* dmemNew.
New ==
  /\ ~root
  /\ root' = TRUE /\ heapList' = <<>> /\ lastUse' = Null
  /\ UNCHANGED <<count, parent, created, inUse, held>>

\* The end of dmemAlloc: block b of heap h is handed out; cnt is what h's count was.
HandOut(h, b, cnt) ==
  /\ lastUse' = h
  /\ parent' = [parent EXCEPT ![b] = h]
  /\ count' = [count EXCEPT ![h] = cnt + 1]
  /\ inUse' = [inUse EXCEPT ![h] = @ \cup {b}]
  /\ held' = held \cup {b}
  /\ UNCHANGED root

\* dmemAlloc finds room in the heap used last, else in the first heap that has some.
AllocListed(b) ==
  /\ root /\ lastUse # Null /\ b \notin InMemory
  /\ \E h \in {lastUse} \cup Listed : HandOut(h, b, count[h])
  /\ UNCHANGED <<heapList, created>>

\* dmemAlloc puts a new heap at the end of the list, as the only one if none was used.
AllocNew(b) ==
  /\ root /\ b \notin InMemory
  /\ \E h \in Heaps \ created :
       /\ heapList' = IF lastUse = Null THEN <<h>> ELSE Append(heapList, h)
       /\ created' = created \cup {h}
       /\ HandOut(h, b, 0)

\* dmemAlloc finds no room and the kernel no memory.
AllocFails == root /\ UNCHANGED vars

\* Variant: the count of blocks is compared wrongly.
OnlyBlockOrTwo(h) == count[h] <= 2
OnlyBlock(h) == count[h] = 1

FreeBlock(h, b) ==
  /\ count' = [count EXCEPT ![h] = @ - 1]
  /\ inUse' = [inUse EXCEPT ![h] = @ \ {b}]
  /\ UNCHANGED <<heapList, lastUse, created>>

\* The n-th heap is out of the list; what is used last is never the heap that is gone.
Without(n) == SubSeq(heapList, 1, n - 1) \o SubSeq(heapList, n + 1, Len(heapList))
Beside(n) ==
  IF n > 1 THEN heapList[n - 1] ELSE IF Len(heapList) > 1 THEN heapList[2] ELSE Null
\* Variant: it is left as it was.
LastUseLeft(n)   == lastUse
LastUseBeside(n) == IF lastUse = heapList[n] THEN Beside(n) ELSE lastUse

FreeHeap(h) ==
  /\ \E n \in 1 .. Len(heapList) :
       heapList[n] = h /\ heapList' = Without(n) /\ lastUse' = LastUseBeside(n)
  /\ HeapsGone({h})
  /\ UNCHANGED count

FreeNothing == UNCHANGED <<heapList, lastUse, count, created, inUse>>

\* dmemFree: with the only block of a heap the heap goes, unless it is not in the list;
\* nothing is done when no heap was used last.
Free(b) ==
  LET h == parent[b] IN
  /\ root /\ b \in held
  /\ held' = held \ {b}
  /\ IF lastUse = Null THEN FreeNothing
     ELSE IF ~OnlyBlock(h) THEN FreeBlock(h, b)
     ELSE IF h \in Listed THEN FreeHeap(h)
     ELSE FreeNothing
  /\ UNCHANGED <<root, parent>>

\* dmemDestroy: the heaps in the list, then the root.
Destroy ==
  /\ root
  /\ HeapsGone(Listed)
  /\ root' = FALSE /\ heapList' = <<>> /\ lastUse' = Null /\ held' = {}
  /\ UNCHANGED <<count, parent>>

Next ==
  \/ New \/ AllocFails \/ Destroy
  \/ \E b \in Blocks : AllocListed(b) \/ AllocNew(b) \/ Free(b)

Spec == Init /\ [][Next]_vars

-----------------------------------------------------------------------------
\* Every heap in the kernel is in the list, once, so that dmemAlloc can use it again and
\* dmemDestroy gives it back; each has blocks that are counted rightly, so that the last
\* dmemFree gives it back; and the heap used last is one of them, if there is any.
NoHeapLost ==
  /\ Listed = created
  /\ \A m, n \in 1 .. Len(heapList) : heapList[m] = heapList[n] => m = n
  /\ IF created = {} THEN lastUse = Null ELSE lastUse \in created
  /\ \A h \in created : inUse[h] # {} /\ count[h] = Cardinality(inUse[h])

\* A block that its user has not given back is in a heap that is there, the one whose
\* count stands for it; no memory is in use that nobody holds.
HeldInMemory ==
  /\ held = InMemory
  /\ \A b \in held : parent[b] \in created /\ b \in inUse[parent[b]]

\* The pool is an allocator.
Alloc == INSTANCE Allocator WITH allocated <- InMemory
ImplementsAllocator == Alloc!Spec
=============================================================================
