-------------------------------- MODULE UserHeap --------------------------------
(***************************************************************************)
(* The heap of user mode (src/include/memory/heap): a list of the blocks   *)
(* in use, by address, inside one block of memory.  What is between two of *)
(* them is free.  The library is not linked into the plugin, whose dmem    *)
(* uses the kernel's heaps instead.                                        *)
(***************************************************************************)
EXTENDS Integers, SequencesExt

CONSTANTS
  Size,    \* root->size: what memoryUsableSize says, without a header
  Sizes,   \* what callers ask for
  Header,  \* sizeof( struct heap_allocated_memblock_header )
  Unit     \* HEAP_ALIGN_SIZE

VARIABLES
  chain,     \* the blocks in use: header's offset from root, "size", and what was asked for
  careless,  \* history: a size was no number of units, or took up to the end of the heap
  spoilt     \* history: a block was put where there was no room, since the heap was empty

vars == <<chain, careless, spoilt>>

TypeOK ==
  /\ careless \in BOOLEAN /\ spoilt \in BOOLEAN
  /\ \A i \in DOMAIN chain : chain[i].at \in Nat /\ chain[i].size \in Nat /\ chain[i].asked \in Sizes

\* heapExCreate.
Init == chain = <<>> /\ careless = FALSE /\ spoilt = FALSE

\* MEMORY_ALIGN_ADDR.
Aligned(a) == ((a + Unit - 1) \div Unit) * Unit

Given(n)       == IF n = 0 THEN 1 ELSE n
Needed(n)      == Given(n) + Header + Unit
Block(a, n)    == [at |-> a, size |-> Needed(n), asked |-> n]
End(block)     == block.at + block.size

FreeBehind(i) == (IF i = Len(chain) THEN Size ELSE chain[i + 1].at) - End(chain[i])

\* The first block that has room behind it.  The difference is unsigned: below 0 it is larger
\* than anything.
FirstWith(Room(_)) == SelectInSeq([i \in DOMAIN chain |-> FreeBehind(i)], Room)
\* Variant: the room of what is asked, without a header and the alignment.
RoomyShort(n) == FirstWith(LAMBDA free : free < 0 \/ free >= n)
Roomy(n)      == FirstWith(LAMBDA free : free < 0 \/ free >= Needed(n))

\* The first block of all, one before the first, or one behind another.
First(n) ==
  /\ chain = <<>> /\ Size >= Needed(n)
  /\ chain' = <<Block(Aligned(Header), n)>>
  /\ UNCHANGED spoilt
Before(n) ==
  /\ chain # <<>> /\ chain[1].at - Header >= Needed(n)
  /\ chain' = <<Block(Aligned(Header), n)>> \o chain
  /\ UNCHANGED spoilt
Behind(n) ==
  /\ chain # <<>> /\ chain[1].at - Header < Needed(n)
  /\ Roomy(n) # 0
  /\ chain' = InsertAt(chain, Roomy(n) + 1, Block(Aligned(End(chain[Roomy(n)])), n))
  /\ spoilt' = (FreeBehind(Roomy(n)) < 0)

\* heapAlloc; without room it returns NULL.  Bound: none after one was put where there is no
\* room, for which there is always more.
Alloc(n) ==
  /\ ~spoilt
  /\ First(n) \/ Before(n) \/ Behind(n)
  /\ careless' = (careless \/ Given(n) % Unit # 0 \/ Header + Needed(n) > Size)

\* heapFree.
Free(i) ==
  /\ chain' = RemoveAt(chain, i)
  /\ spoilt' = (spoilt /\ chain' # <<>>)
  /\ UNCHANGED careless

Next == (\E n \in Sizes : Alloc(n)) \/ (\E i \in DOMAIN chain : Free(i))

Spec == Init /\ [][Next]_vars

-----------------------------------------------------------------------------
\* heapTotalFreeSize.
TotalFreeSize == Size - FoldSeq(LAMBDA b, sum : b.size + sum, 0, chain)

\* A block's header and what its caller was given of it.
Extent(b) == b.at .. b.at + Header + Given(b.asked) - 1

\* Whatever is taken and freed, in whatever order, and of whatever sizes: as long as room is found
\* no two callers share memory, no header is in it, all is behind the root and in the heap.  And
\* a block is put where there is none (heapAlloc's differences wrap) only after a caller asked for
\* a size that is no number of units, or for all up to the last unit of the heap.
BlocksApart ==
  /\ ~spoilt =>
       /\ \A i, j \in DOMAIN chain : i # j => Extent(chain[i]) \cap Extent(chain[j]) = {}
       /\ \A i \in DOMAIN chain : Extent(chain[i]) \subseteq Header .. Size + Header - 1
  /\ spoilt => careless
=============================================================================
