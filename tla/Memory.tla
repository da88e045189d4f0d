-------------------------------- MODULE Memory --------------------------------
(***************************************************************************)
(* Memory of the kernel's partitions (src/include/memory/memory): a block  *)
(* of the kernel with a header in front of what the user gets, aligned and *)
(* resized.  Sizes and addresses are in units of a header.                 *)
(***************************************************************************)
EXTENDS Integers, FiniteSetsExt

CONSTANTS
  Users,
  End,       \* the end of the partition
  Page,      \* MEMORY_PAGE_SIZE
  Sizes,     \* sizes that are asked for
  Aligns,    \* alignments
  Null

VARIABLES
  block,     \* of each user: the kernel's block, its first unit and its size, or Null
  ptr,       \* what the user was given, or Null
  asked,     \* history: for how much, and how it was to be aligned
  mem        \* the units of the partition: a header, or what the user has written there

vars == <<block, ptr, asked, mem>>

Addresses  == 0 .. End - 1
Filled(u, i) == [of |-> u, at |-> i]
Header(u, b, real, align) == [of |-> u, block |-> b, size |-> real, align |-> align]
NoAsk  == [size |-> 0, align |-> 0]

TypeOK ==
  /\ \A u \in Users : ptr[u] \in Addresses \cup {Null} /\ (block[u] = Null) = (ptr[u] = Null)
  /\ DOMAIN mem = Addresses

Init ==
  /\ block = [u \in Users |-> Null] /\ ptr = [u \in Users |-> Null]
  /\ asked = [u \in Users |-> NoAsk]
  /\ mem = [i \in Addresses |-> Null]

Ceil(n, k)  == ((n + k - 1) \div k) * k
RealSize(n) == Ceil(n, Page)                                         \* MEMORY_REAL_SIZE
PowerOfTwo(a) == a \in {1, 2, 4, 8, 16}

\* sceKernelAllocPartitionMemory: whole pages that are free.
Span(b)  == b.at .. b.at + b.size - 1
Taken    == UNION {Span(block[u]) : u \in {v \in Users : block[v] # Null}}
Free(n)  == { b \in [at : {i \in Addresses : i % Page = 0}, size : {Ceil(n, Page)}] :
                Span(b) \subseteq Addresses \ Taken }

\* memoryExalloc, in the kernel's block b: what the block must hold, and what the user gets.
\* Variant: no room is asked for that the alignment takes.
NeededTight(size, align) == 1 + RealSize(size)
Needed(size, align) == 1 + RealSize(size) + align
Pointer(b, align) == IF align = 0 THEN b.at + 1 ELSE Ceil(b.at + 1, align)

\* The header, what is kept of the old contents, and what the user fills all the rest with
\* that it has got (memoryUsableSize).
Old(u) == IF ptr[u] = Null THEN {} ELSE Span(block[u])
WithBlock(u, b, real, align, keeps) ==
  LET p == Pointer(b, align)
  IN  [i \in Addresses |->
         CASE i = p - 1                           -> Header(u, b, real, align)
           [] i \in p .. p + keeps - 1            -> mem[ptr[u] + i - p]
           [] i \in p + keeps .. p + real - 1     -> Filled(u, i - p)
           [] i \in Old(u) \ (p - 1 .. p + real - 1) -> Null
           [] OTHER                               -> mem[i]]
Owns(u, b, size, align, keeps) ==
  /\ block' = [block EXCEPT ![u] = b]
  /\ ptr'   = [ptr EXCEPT ![u] = Pointer(b, align)]
  /\ asked' = [asked EXCEPT ![u] = [size |-> size, align |-> align]]
  /\ mem'   = WithBlock(u, b, RealSize(size), align, keeps)

\* No bytes are one; an alignment that is no power of two is refused.
Exalloc(u, size, align) ==
  /\ ptr[u] = Null /\ (align = 0 \/ PowerOfTwo(align))
  /\ \E b \in Free(Needed(Max({size, 1}), align)) : Owns(u, b, Max({size, 1}), align, 0)

\* memoryFree: the block that the header names; what was in it is of no account.
HeaderOf(u) == mem[ptr[u] - 1]
Gone(u) ==
  /\ block' = [v \in Users |-> IF block[v] = HeaderOf(u).block THEN Null ELSE block[v]]
  /\ ptr'   = [ptr EXCEPT ![u] = Null]
  /\ asked' = [asked EXCEPT ![u] = NoAsk]
  /\ mem'   = [i \in Addresses |-> IF i \in Span(HeaderOf(u).block) THEN Null ELSE mem[i]]
Release(u) == ptr[u] # Null /\ Gone(u)

\* memoryRealloc: the same block if it is as large, or another one with as much of the contents
\* as fits.
Fits(u, size) == HeaderOf(u).size = RealSize(size)
Stay(u, size) ==
  /\ ptr[u] # Null /\ size > 0 /\ Fits(u, size)
  /\ asked' = [asked EXCEPT ![u].size = size]
  /\ UNCHANGED <<block, ptr, mem>>
Move(u, size) ==
  /\ ptr[u] # Null /\ size > 0 /\ ~Fits(u, size)
  /\ \E b \in Free(Needed(size, HeaderOf(u).align)) :
       Owns(u, b, size, HeaderOf(u).align, Min({HeaderOf(u).size, RealSize(size)}))
\* memoryReallocf when there is no memory for the new size.
Reallocf(u, size) ==
  /\ ptr[u] # Null /\ size > 0 /\ ~Fits(u, size) /\ Free(Needed(size, HeaderOf(u).align)) = {}
  /\ Gone(u)

Next ==
  \E u \in Users :
    \/ Release(u)
    \/ \E size \in Sizes :
         \/ \E align \in Aligns : Exalloc(u, size, align)
         \/ Stay(u, size) \/ Move(u, size) \/ Reallocf(u, size)

Spec == Init /\ [][Next]_vars

-----------------------------------------------------------------------------
\* What users have is theirs: within the kernel's block, aligned, as large as they asked, with
\* a header that still names the block, and nobody writes into anybody else's
\* (memoryExalloc, memoryRealloc).
MemoryKept ==
  \A u \in Users : ptr[u] # Null =>
    /\ ptr[u] - 1 \in Span(block[u]) /\ ptr[u] + HeaderOf(u).size - 1 \in Span(block[u])
    /\ HeaderOf(u) = Header(u, block[u], RealSize(asked[u].size), asked[u].align)
    /\ asked[u].align > 0 => ptr[u] % asked[u].align = 0
    /\ asked[u].size <= HeaderOf(u).size
    /\ \A i \in 0 .. HeaderOf(u).size - 1 : mem[ptr[u] + i] = Filled(u, i)
=============================================================================
