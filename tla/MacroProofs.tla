---------------------------- MODULE MacroProofs ----------------------------
(***************************************************************************)
(* Proofs about the macro function, for any slots, hotkeys and bounds, of  *)
(* the program used with care (CarefulSpec).                               *)
(*                                                                         *)
(* The list of slots is a sequence q of k slots that the pointers of the   *)
(* slots spell out.  What the walk along the pointers, Nth, finds is       *)
(* proved once from that, by taking the least place at which it could go   *)
(* astray; from there on only q is looked at.                              *)
(***************************************************************************)
EXTENDS Macro, SequenceTheorems, FiniteSetTheorems, WellFoundedInduction, TLAPS

Size == Cardinality(Slots)

\* The first k places of q are the list, in both directions.
Chain(k, q) ==
  /\ live = {q[i] : i \in 1 .. k}
  /\ \A i, j \in 1 .. k : q[i] = q[j] => i = j
  /\ rootData = IF k = 0 THEN Null ELSE q[1]
  /\ \A i \in 1 .. k : /\ slot[q[i]].next = IF i = k THEN Null ELSE q[i + 1]
                       /\ slot[q[i]].prev = IF i = 1 THEN Null ELSE q[i - 1]

\* Where the number of the selected slot is used, it is right.
Numbered(k, q) ==
  /\ mode \in {"load", "failed"} => k > 0 /\ selectedData = q[k] /\ selectedIndex = k - 1
  /\ mode = "menu" /\ k > 0 =>
       selectedIndex \in 0 .. k - 1 /\ q[selectedIndex + 1] = selectedData

Linked ==
  \E k \in 0 .. Size : \E q \in [1 .. k -> Slots] : Chain(k, q) /\ Numbered(k, q)

\* The slots that are not on the list are zero bytes, and there are at least as many
\* instances as slots with a macro.  A macro has commands, but for one that could not be
\* loaded and goes in the next step.
Memory ==
  /\ \A s \in Slots \ live : slot[s] = EmptySlot
  /\ managers >= Cardinality({s \in Slots : slot[s].mgr})
  /\ live # {} => pool
  /\ IF live = {} THEN selectedData = Null ELSE selectedData \in live
  /\ \A s \in live : slot[s].mgr /\ ~(mode = "failed" /\ s = selectedData) => slot[s].len > 0

\* What those who share the work know of each other.
Shared ==
  /\ ActionPrepared /\ NoFault
  /\ ~hotkeyAccept => actionData # Null
  /\ mode # "game" => message = "none" /\ game = "idle"
  /\ mode \in {"boot", "load", "failed"} => actionType = "none"
  /\ game # "idle" => game = actionType /\ message # "stopping"
  /\ rfUid = "freed" => message = "stopping"
  /\ message = "stopping" => actionType = "trace"

\* The types of the list and its menu, and those of the rest.
ListTyped ==
  /\ slot \in [Slots -> Slot] /\ live \subseteq Slots /\ pool \in BOOLEAN
  /\ rootData \in Pointers /\ selectedData \in Pointers
  /\ selectedIndex \in 0 .. Size /\ managers \in 0 .. MaxManagers
WorkTyped ==
  /\ actionType \in Actions /\ actionData \in Pointers
  /\ cmd \in 0 .. MaxCommands /\ loopRest \in 0 .. MaxLoops
  /\ rfUid \in {"none", "live", "freed"}
  /\ hotkeyAccept \in BOOLEAN /\ enabled \in BOOLEAN
  /\ mode \in Modes /\ message \in {"none", "send", "stopping"}
  /\ game \in Actions \cup {"idle"} /\ pressed \in Keys \cup {NoKey} /\ fault \in Faults

ListInv == ListTyped /\ Linked /\ Memory
WorkInv == WorkTyped /\ Shared
IInv    == ListInv /\ WorkInv

-----------------------------------------------------------------------------
\* A set of numbers has a least one.
LEMMA Least ==
  ASSUME NEW S \in SUBSET Nat, S # {}
  PROVE  \E n \in S : \A m \in S : n <= m
<1> DEFINE R == OpToRel(<, Nat)
<1>1. IsWellFoundedOn(R, Nat)
  BY NatLessThanWellFounded
<1>2. \A m, n \in Nat : m < n => <<m, n>> \in R
  BY DEF OpToRel
<1> HIDE DEF R
<1>3. PICK n \in S : \A m \in S : <<m, n>> \notin R
  BY <1>1, WFMin
<1>4. \A m \in S : ~(m < n)
  BY <1>2, <1>3
<1> QED BY <1>3, <1>4

\* The walk along the list finds the slots of q one after the other, and then the end.
LEMMA Walk ==
  ASSUME NEW k \in 0 .. Size, NEW q \in [1 .. k -> Slots], Size \in Nat, Chain(k, q)
  PROVE  \A n \in 1 .. Size : Nth[n] = IF n <= k THEN q[n] ELSE Null
<1> DEFINE g == [n \in 1 .. Size |-> IF n <= k THEN q[n] ELSE Null]
           Step(f) == [n \in 1 .. Size |->
                         IF n = 1 THEN rootData
                         ELSE IF f[n - 1] = Null THEN Null ELSE slot[f[n - 1]].next]
<1>1. g = Step(g)
  <2> SUFFICES ASSUME NEW n \in 1 .. Size PROVE g[n] = Step(g)[n]
    OBVIOUS
  <2>1. CASE n = 1
    BY <2>1 DEF Chain
  <2>2. CASE n # 1 /\ n <= k
    <3>1. n - 1 \in 1 .. Size /\ n - 1 \in 1 .. k /\ (n - 1) + 1 = n
      BY <2>2
    <3>2. g[n - 1] = q[n - 1] /\ q[n - 1] # Null
      BY <3>1, NullAssumption
    <3>3. slot[q[n - 1]].next = q[n]
      BY <2>2, <3>1 DEF Chain
    <3> QED BY <2>2, <3>2, <3>3
  <2>3. CASE n # 1 /\ n = k + 1
    <3>1. k \in 1 .. k /\ k \in 1 .. Size /\ n - 1 = k
      BY <2>3
    <3>2. g[n - 1] = q[k] /\ q[k] # Null /\ slot[q[k]].next = Null
      BY <3>1, NullAssumption DEF Chain
    <3> QED BY <2>3, <3>2
  <2>4. CASE n # 1 /\ n > k + 1
    <3>1. g[n - 1] = Null
      BY <2>4
    <3> QED BY <2>4, <3>1
  <2> QED BY <2>1, <2>2, <2>3, <2>4
<1> HIDE DEF g
<1>2. Nth = Step(Nth)
  <2>1. \E f : f = Step(f)
    BY <1>1
  <2> QED BY <2>1 DEF Nth, Size
<1> HIDE DEF Step
<1> DEFINE Astray == {n \in 1 .. Size : Nth[n] # g[n]}
<1>3. ASSUME Astray # {} PROVE FALSE
  <2>1. Astray \in SUBSET Nat
    OBVIOUS
  <2> HIDE DEF Astray
  <2>2. PICK n \in Astray : \A m \in Astray : n <= m
    BY <1>3, <2>1, Least
  <2> USE DEF Astray
  <2>3. n = 1 => Nth[n] = g[n]
    BY <1>1, <1>2 DEF Step
  <2>4. n # 1 => Nth[n - 1] = g[n - 1]
    BY <2>2
  <2>5. n # 1 => Nth[n] = g[n]
    BY <1>1, <1>2, <2>4 DEF Step
  <2> QED BY <2>2, <2>3, <2>5
<1> QED BY <1>3 DEF g

\* What is on the list, where, and what comes last.
LEMMA Places ==
  ASSUME NEW k \in 0 .. Size, NEW q \in [1 .. k -> Slots], Size \in Nat, Chain(k, q)
  PROVE  /\ Listed = live
         /\ \A i \in 1 .. k : Place(q[i]) = i
         /\ k > 0 => LastListed = q[k]
<1>1. \A n \in 1 .. Size : Nth[n] = IF n <= k THEN q[n] ELSE Null
  BY Walk
<1>2. \A i \in 1 .. k : i \in 1 .. Size /\ Nth[i] = q[i] /\ q[i] # Null /\ q[i] \in live
  BY <1>1, NullAssumption DEF Chain
<1>3. Listed = live
  <2>1. Listed \subseteq live
    BY <1>1, <1>2 DEF Listed, Size
  <2>2. live \subseteq Listed
    BY <1>2 DEF Listed, Size, Chain
  <2> QED BY <2>1, <2>2
<1>4. ASSUME NEW i \in 1 .. k PROVE Place(q[i]) = i
  <2>1. \A n \in 1 .. Size : Nth[n] = q[i] <=> n = i
    BY <1>1, <1>2, NullAssumption DEF Chain
  <2> QED BY <2>1, <1>2 DEF Place, Size
<1>5. ASSUME k > 0 PROVE LastListed = q[k]
  <2>1. \A s \in Listed : slot[s].next = Null <=> s = q[k]
    BY <1>2, <1>3 DEF Chain
  <2>2. q[k] \in Listed
    BY <1>2, <1>3, <1>5
  <2> QED BY <2>1, <2>2 DEF LastListed
<1> QED BY <1>3, <1>4, <1>5

\* There are as many slots on the list as it has places.
LEMMA Counted ==
  ASSUME NEW k \in 0 .. Size, NEW q \in [1 .. k -> Slots], Size \in Nat, Chain(k, q)
  PROVE  IsFiniteSet(live) /\ Cardinality(live) = k
<1>1. q \in Bijection(1 .. k, live)
  BY DEF Chain, Bijection, Injection, Surjection, IsInjective
<1>2. IsFiniteSet(1 .. k) /\ Cardinality(1 .. k) = k
  BY FS_Interval
<1> QED BY <1>1, <1>2, FS_Bijection DEF ExistsBijection

\* The slots can be counted.
LEMMA SizeIsNat == Size \in Nat
BY BoundsAssumption, FS_CardinalityType DEF Size

\* A slot of zero bytes, that may have a slot before it.
LEMMA EmptyTyped ==
  ASSUME NEW p \in Pointers
  PROVE  [EmptySlot EXCEPT !.prev = p] \in Slot /\ EmptySlot \in Slot
<1>1. 0 \in 0 .. MaxCommands /\ 0 \in 0 .. MaxLoops
  BY BoundsAssumption
<1>2. Null \in Pointers /\ NoKey \in Keys \cup {NoKey}
  BY DEF Pointers
<1>3. EmptySlot \in Slot
  BY <1>1, <1>2 DEF EmptySlot, Slot
<1> QED BY <1>3 DEF Slot

\* The slots with a macro, when one of them changes.
LEMMA CountMacros ==
  ASSUME NEW M \in SUBSET Slots, NEW s
  PROVE  /\ Cardinality(M) \in Nat
         /\ Cardinality(M \cup {s}) = Cardinality(M) + (IF s \in M THEN 0 ELSE 1)
         /\ Cardinality(M \ {s}) = Cardinality(M) - (IF s \in M THEN 1 ELSE 0)
<1>1. IsFiniteSet(M)
  BY BoundsAssumption, FS_Subset
<1> QED BY <1>1, FS_CardinalityType, FS_AddElement, FS_RemoveElement

\* What a file makes of a slot.
LEMMA LoadedTyped ==
  ASSUME NEW r \in Slot
  PROVE  /\ \A x \in Loaded(r) : x \in Slot /\ (x.mgr => x.len > 0)
         /\ \A x \in LoadFailed(r) : x \in Slot
<1>1. ASSUME NEW b \in BOOLEAN, NEW n \in 0 .. MaxCommands, NEW l \in 0 .. MaxLoops,
             NEW h \in Keys \cup {NoKey}
      PROVE  /\ [r EXCEPT !.mgr = b, !.len = n, !.hotkey = h, !.loopNum = l] \in Slot
             /\ [r EXCEPT !.mgr = b, !.len = n, !.loopNum = l] \in Slot
             /\ [r EXCEPT !.mgr = b] \in Slot
  BY DEF Slot
<1>2. \A n \in 0 .. MaxCommands : (n > 0) \in BOOLEAN
  OBVIOUS
<1> DEFINE F(n, h, l) == [r EXCEPT !.mgr = n > 0, !.len = n, !.hotkey = h, !.loopNum = l]
           G(n, l)    == [r EXCEPT !.mgr = n > 0, !.len = n, !.loopNum = l]
           H          == [r EXCEPT !.mgr = TRUE]
<1>3. Loaded(r) = {F(n, h, l) : n \in 0 .. MaxCommands, h \in Keys \cup {NoKey}, l \in 0 .. MaxLoops}
  BY SMT DEF Loaded
<1>4. LoadFailed(r) = {r, H} \cup {G(n, l) : n \in 0 .. MaxCommands, l \in 0 .. MaxLoops}
  BY SMT DEF LoadFailed
<1>5. ASSUME NEW n \in 0 .. MaxCommands, NEW l \in 0 .. MaxLoops, NEW h \in Keys \cup {NoKey}
      PROVE  /\ F(n, h, l) \in Slot /\ G(n, l) \in Slot
             /\ F(n, h, l).mgr => F(n, h, l).len > 0
  <2>1. F(n, h, l) \in Slot /\ G(n, l) \in Slot
    BY <1>1, <1>2, Zenon
  <2>2. F(n, h, l).mgr = (n > 0) /\ F(n, h, l).len = n
    BY DEF Slot
  <2> QED BY <2>1, <2>2
<1>6. H \in Slot
  BY DEF Slot
<1>7. NoKey \in Keys \cup {NoKey}
  OBVIOUS
<1> HIDE DEF F, G, H
<1>8. \A x \in Loaded(r) : x \in Slot /\ (x.mgr => x.len > 0)
  BY <1>3, <1>5
<1>9. \A x \in LoadFailed(r) : x \in Slot
  <2>1. \A n \in 0 .. MaxCommands, l \in 0 .. MaxLoops : G(n, l) \in Slot
    BY <1>5, <1>7
  <2> QED BY <1>4, <1>6, <2>1
<1> QED BY <1>8, <1>9

\* What can be walked to is what is allocated.
LEMMA ListedIsLive == ListInv => Listed = live /\ Cardinality(Listed) \in 0 .. Size
<1> SUFFICES ASSUME ListInv PROVE Listed = live /\ Cardinality(Listed) \in 0 .. Size
  OBVIOUS
<1>1. PICK k \in 0 .. Size : \E q \in [1 .. k -> Slots] : Chain(k, q) /\ Numbered(k, q)
  BY DEF ListInv, Linked
<1>2. PICK q \in [1 .. k -> Slots] : Chain(k, q) /\ Numbered(k, q)
  BY <1>1
<1> QED BY <1>2, SizeIsNat, Places, Counted

\* A slot in memory has a place on the list.
LEMMA PlaceTyped ==
  ASSUME ListInv, NEW s \in live
  PROVE  Place(s) \in 1 .. Size
<1>1. PICK k \in 0 .. Size : \E q \in [1 .. k -> Slots] : Chain(k, q) /\ Numbered(k, q)
  BY DEF ListInv, Linked
<1>2. PICK q \in [1 .. k -> Slots] : Chain(k, q) /\ Numbered(k, q)
  BY <1>1
<1>3. PICK i \in 1 .. k : s = q[i]
  BY <1>2 DEF Chain
<1>4. Place(s) = i
  BY <1>2, <1>3, SizeIsNat, Places
<1> QED BY <1>4, SizeIsNat

\* While a slot is being loaded there is one.
LEMMA BootSelects ==
  ASSUME ListInv, mode \in {"load", "failed"}
  PROVE  live # {}
<1>1. PICK k \in 0 .. Size : \E q \in [1 .. k -> Slots] : Chain(k, q) /\ Numbered(k, q)
  BY DEF ListInv, Linked
<1>2. PICK q \in [1 .. k -> Slots] : Chain(k, q) /\ Numbered(k, q)
  BY <1>1
<1>3. k > 0
  BY <1>2 DEF Numbered
<1>4. 1 \in 1 .. k /\ live = {q[i] : i \in 1 .. k}
  BY <1>2, <1>3 DEF Chain
<1> QED BY <1>4

-----------------------------------------------------------------------------
(* What the steps do to the list. *)

\* Steps that leave the list and the selected slot alone, and may end the menu.
LEMMA ListKept ==
  ASSUME ListInv, UNCHANGED <<listVars, menuVars>>,
         mode' = mode \/ (mode # "failed" /\ mode' = "game")
  PROVE  ListInv'
<1>1. ListTyped'
  BY DEF ListInv, ListTyped, listVars, menuVars
<1>2. Linked'
  <2>1. PICK k \in 0 .. Size : \E q \in [1 .. k -> Slots] : Chain(k, q) /\ Numbered(k, q)
    BY DEF ListInv, Linked
  <2>2. PICK q \in [1 .. k -> Slots] : Chain(k, q) /\ Numbered(k, q)
    BY <2>1
  <2>3. Chain(k, q)'
    BY <2>2 DEF Chain, listVars, menuVars
  <2>4. Numbered(k, q)'
    BY <2>2 DEF Numbered, listVars, menuVars
  <2> QED BY <2>3, <2>4 DEF Linked
<1>3. Memory'
  BY DEF ListInv, Memory, listVars, menuVars
<1> QED BY <1>1, <1>2, <1>3 DEF ListInv

\* A slot changes, which keeps its neighbours.
LEMMA SlotUpdated ==
  ASSUME ListInv, NEW s \in live, NEW r \in Slot, UpdateSlot(s, r),
         UNCHANGED <<live, pool, rootData, menuVars>>, ClearsNoNeighbour,
         r.mgr => r.len > 0 \/ (mode' = "failed" /\ s = selectedData),
         mode = "failed" => mode' = "failed",
         \/ mode' = mode
         \/ mode' \in {"boot", "game"}
         \/ mode \in {"load", "failed"} /\ mode' = "failed"
  PROVE  ListInv'
<1>1. /\ slot' = [slot EXCEPT ![s] = r] /\ s \in Slots
      /\ managers' = managers + One(r.mgr) - One(slot[s].mgr) /\ managers' <= MaxManagers
      /\ \A t \in live : slot'[t].next = slot[t].next /\ slot'[t].prev = slot[t].prev
  BY DEF UpdateSlot, ListInv, ListTyped, ClearsNoNeighbour
<1>2. managers' >= Cardinality({t \in Slots : slot'[t].mgr}) /\ managers' \in 0 .. MaxManagers
  <2> DEFINE M == {t \in Slots : slot[t].mgr}
             N == {t \in Slots : slot'[t].mgr}
  <2>1. N = IF r.mgr THEN M \cup {s} ELSE M \ {s}
    BY <1>1 DEF ListInv, ListTyped
  <2>2. s \in M <=> slot[s].mgr
    BY <1>1
  <2>3. M \in SUBSET Slots /\ N \in SUBSET Slots
    OBVIOUS
  <2>4. managers \in Nat /\ MaxManagers \in Nat /\ managers >= Cardinality(M)
    BY BoundsAssumption DEF ListInv, ListTyped, Memory
  <2> HIDE DEF M, N
  <2>5. /\ Cardinality(M) \in Nat /\ Cardinality(N) \in Nat
        /\ Cardinality(M \cup {s}) = Cardinality(M) + (IF s \in M THEN 0 ELSE 1)
        /\ Cardinality(M \ {s}) = Cardinality(M) - (IF s \in M THEN 1 ELSE 0)
    BY <2>3, CountMacros
  <2>6. managers' >= Cardinality(N)
    BY <1>1, <2>1, <2>2, <2>4, <2>5 DEF One
  <2>7. managers' \in Int
    BY <1>1, <2>4 DEF One
  <2> QED BY <1>1, <2>4, <2>5, <2>6, <2>7 DEF N
<1>3. ListTyped'
  BY <1>1, <1>2 DEF ListInv, ListTyped, menuVars
<1>4. Linked'
  <2>1. PICK k \in 0 .. Size : \E q \in [1 .. k -> Slots] : Chain(k, q) /\ Numbered(k, q)
    BY DEF ListInv, Linked
  <2>2. PICK q \in [1 .. k -> Slots] : Chain(k, q) /\ Numbered(k, q)
    BY <2>1
  <2>3. Chain(k, q)'
    BY <1>1, <2>2 DEF Chain
  <2>4. Numbered(k, q)'
    BY <2>2 DEF Numbered, menuVars
  <2> QED BY <2>3, <2>4 DEF Linked
<1>5. Memory'
  BY <1>1, <1>2 DEF ListInv, ListTyped, Memory, menuVars
<1> QED BY <1>3, <1>4, <1>5 DEF ListInv

\* The list with s at its end, and without its m-th slot.
Longer(k, q, s)  == [i \in 1 .. k + 1 |-> IF i = k + 1 THEN s ELSE q[i]]
Shorter(k, q, m) == [i \in 1 .. k - 1 |-> IF i < m THEN q[i] ELSE q[i + 1]]

Grows ==
  \E k \in 0 .. Size : \E q \in [1 .. k -> Slots] : \E s \in Slots \ live :
    /\ Chain(k, q) /\ Chain(k + 1, Longer(k, q, s))' /\ k + 1 <= Size
    /\ selectedData' = s
Shrinks ==
  \E k \in 1 .. Size : \E q \in [1 .. k -> Slots] : \E m \in 1 .. k :
    /\ Chain(k, q) /\ Chain(k - 1, Shorter(k, q, m))'
    /\ q[m] = selectedData
    /\ selectedData' = IF k = 1 THEN Null ELSE IF m = k THEN q[m - 1] ELSE q[m + 1]

\* A slot keeps its macro.
Keeps(t) == t \in live' /\ slot'[t].mgr = slot[t].mgr /\ slot'[t].len = slot[t].len

\* A slot is added behind the last one, or there is no memory for it.
LEMMA Added ==
  ASSUME ListInv, AddSlot,
         \/ mode = "menu" /\ mode' = "menu"
         \/ mode = "boot" /\ mode' = IF live' # live THEN "load" ELSE "boot"
  PROVE  /\ ListInv'
         /\ Grows \/ UNCHANGED <<live, rootData>>
         /\ \A t \in live : Keeps(t)
<1>1. PICK k \in 0 .. Size : \E q \in [1 .. k -> Slots] : Chain(k, q) /\ Numbered(k, q)
  BY DEF ListInv, Linked
<1>2. PICK q \in [1 .. k -> Slots] : Chain(k, q) /\ Numbered(k, q)
  BY <1>1
<1>3. /\ Size \in Nat /\ Listed = live /\ (k > 0 => LastListed = q[k])
      /\ IsFiniteSet(live) /\ Cardinality(live) = k
  BY <1>2, SizeIsNat, Places, Counted
<1>4. CASE UNCHANGED <<slot, live, rootData, managers, menuVars>> /\ pool' \in {pool, TRUE}
  <2>1. Linked'
    <3>1. Chain(k, q)'
      BY <1>2, <1>4 DEF Chain
    <3>2. Numbered(k, q)'
      BY <1>2, <1>4 DEF Numbered, menuVars
    <3> QED BY <3>1, <3>2 DEF Linked
  <2>2. ListTyped' /\ Memory'
    BY <1>4 DEF ListInv, ListTyped, Memory, menuVars
  <2> QED BY <1>4, <2>1, <2>2 DEF ListInv, Keeps
<1>5. ASSUME NEW s \in Slots \ live,
             slot' = [t \in Slots |->
                        IF t = s THEN [EmptySlot EXCEPT !.prev = IF k = 0 THEN Null ELSE q[k]]
                        ELSE IF k > 0 /\ t = q[k] THEN [slot[t] EXCEPT !.next = s]
                        ELSE slot[t]],
             live' = live \cup {s}, pool' = TRUE,
             rootData' = IF rootData = Null THEN s ELSE rootData,
             selectedData' = s, selectedIndex' = k, managers' = managers
      PROVE  ListInv' /\ Grows /\ \A t \in live : Keeps(t)
  <2> DEFINE r == Longer(k, q, s)
  <2>1. k + 1 \in 0 .. Size
    <3>1. Cardinality(live \cup {s}) = k + 1
      BY <1>3, <1>5, FS_AddElement
    <3>2. Cardinality(live \cup {s}) <= Size
      BY <1>5, BoundsAssumption, FS_Subset DEF Size, ListInv, ListTyped
    <3> QED BY <1>3, <3>1, <3>2
  <2>2. r \in [1 .. k + 1 -> Slots]
    BY DEF Longer
  <2>3. /\ \A i \in 1 .. k : i \in 1 .. k + 1 /\ r[i] = q[i] /\ q[i] \in live /\ q[i] # s
        /\ k + 1 \in 1 .. k + 1 /\ r[k + 1] = s
        /\ \A i \in 1 .. k + 1 : i \in 1 .. k \/ i = k + 1
    BY <1>2 DEF Chain, Longer
  <2> HIDE DEF r
  <2>4. slot' \in [Slots -> Slot]
    <3>1. (IF k = 0 THEN Null ELSE q[k]) \in Pointers /\ s \in Pointers
      BY DEF Pointers
    <3>2. [EmptySlot EXCEPT !.prev = IF k = 0 THEN Null ELSE q[k]] \in Slot
      BY <3>1, EmptyTyped
    <3>3. \A t \in Slots : slot[t] \in Slot /\ [slot[t] EXCEPT !.next = s] \in Slot
      BY <3>1 DEF ListInv, ListTyped, Slot
    <3> QED BY <1>5, <3>2, <3>3
  <2>5. Chain(k + 1, r)'
    <3>1. live' = {r[i] : i \in 1 .. k + 1}
      BY <1>2, <1>5, <2>3 DEF Chain
    <3>2. \A i, j \in 1 .. k + 1 : r[i] = r[j] => i = j
      BY <1>2, <2>3 DEF Chain
    <3>3. rootData' = r[1]
      BY <1>2, <1>5, <2>3, NullAssumption DEF Chain
    <3>4. ASSUME NEW i \in 1 .. k + 1
          PROVE  /\ slot'[r[i]].next = IF i = k + 1 THEN Null ELSE r[i + 1]
                 /\ slot'[r[i]].prev = IF i = 1 THEN Null ELSE r[i - 1]
      <4>1. CASE i = k + 1
        <5>1. slot'[s] = [EmptySlot EXCEPT !.prev = IF k = 0 THEN Null ELSE q[k]]
          BY <1>5
        <5> QED BY <4>1, <5>1, <2>3 DEF EmptySlot
      <4>2. CASE i \in 1 .. k /\ i = k
        <5>1. slot'[q[k]] = [slot[q[k]] EXCEPT !.next = s]
          BY <1>5, <2>3, <4>2
        <5>2. slot'[q[k]].next = s /\ slot'[q[k]].prev = slot[q[k]].prev
          BY <5>1, <4>2 DEF ListInv, ListTyped, Slot
        <5>3. i # 1 => i - 1 \in 1 .. k
          BY <4>2
        <5> QED BY <1>2, <2>3, <4>2, <5>2, <5>3 DEF Chain
      <4>3. CASE i \in 1 .. k /\ i # k
        <5>1. q[i] # q[k] /\ slot'[q[i]] = slot[q[i]]
          BY <1>2, <1>5, <2>3, <4>3 DEF Chain
        <5>2. i + 1 \in 1 .. k /\ (i # 1 => i - 1 \in 1 .. k)
          BY <4>3
        <5> QED BY <1>2, <2>3, <4>3, <5>1, <5>2 DEF Chain
      <4> QED BY <2>3, <4>1, <4>2, <4>3
    <3> QED BY <3>1, <3>2, <3>3, <3>4 DEF Chain
  <2>6. Numbered(k + 1, r)'
    BY <1>5, <2>3 DEF Numbered
  <2>7. Linked'
    BY <2>1, <2>2, <2>5, <2>6 DEF Linked
  <2>8. ListTyped'
    BY <1>3, <1>5, <2>1, <2>4 DEF ListInv, ListTyped, Pointers
  <2>9. Memory'
    <3>1. \A t \in Slots : slot'[t].mgr = slot[t].mgr /\ slot'[t].len = slot[t].len
      BY <1>5 DEF ListInv, ListTyped, Memory, Slot, EmptySlot
    <3>2. {t \in Slots : slot'[t].mgr} = {t \in Slots : slot[t].mgr}
      BY <3>1
    <3>3. \A t \in Slots \ live' : slot'[t] = EmptySlot
      BY <1>5, <2>3 DEF ListInv, Memory
    <3>4. \A t \in live' : slot'[t].mgr => slot'[t].len > 0
      BY <1>5, <3>1 DEF ListInv, ListTyped, Memory, EmptySlot
    <3> QED BY <1>5, <3>2, <3>3, <3>4 DEF ListInv, Memory
  <2>10. Grows
    BY <1>2, <1>5, <2>1, <2>5 DEF Grows, r
  <2>11. \A t \in live : Keeps(t)
    BY <1>5 DEF ListInv, ListTyped, Slot, Keeps
  <2> QED BY <2>7, <2>8, <2>9, <2>10, <2>11 DEF ListInv
<1>6. rootData = Null <=> k = 0
  BY <1>2, NullAssumption DEF Chain
<1>7. k > 0 => q[k] # Null
  BY NullAssumption
<1>8. Null \notin Slots
  BY NullAssumption
<1>9. ASSUME ~(UNCHANGED <<slot, live, rootData, managers, menuVars>> /\ pool' \in {pool, TRUE})
      PROVE  ListInv' /\ Grows /\ \A t \in live : Keeps(t)
  <2> DEFINE last == IF rootData = Null THEN Null ELSE LastListed
  <2>1. PICK s \in Slots \ live :
          /\ slot' = [t \in Slots |-> IF t = s THEN [EmptySlot EXCEPT !.prev = last]
                                      ELSE IF t = last THEN [slot[t] EXCEPT !.next = s]
                                      ELSE slot[t]]
          /\ live' = live \cup {s} /\ pool' = TRUE
          /\ rootData' = IF rootData = Null THEN s ELSE rootData
          /\ selectedData' = s /\ selectedIndex' = Cardinality(Listed)
          /\ managers' = managers
    BY <1>9 DEF AddSlot
  <2>2. last = IF k = 0 THEN Null ELSE q[k]
    BY <1>3, <1>6
  <2>3. \A t \in Slots : t = last <=> k > 0 /\ t = q[k]
    BY <1>7, <1>8, <2>2
  <2> HIDE DEF last
  <2>4. slot' = [t \in Slots |->
                   IF t = s THEN [EmptySlot EXCEPT !.prev = IF k = 0 THEN Null ELSE q[k]]
                   ELSE IF k > 0 /\ t = q[k] THEN [slot[t] EXCEPT !.next = s]
                   ELSE slot[t]]
    BY <2>1, <2>2, <2>3
  <2> QED BY <1>3, <1>5, <2>1, <2>4
<1> QED BY <1>4, <1>9

\* The selected slot is taken out of the list, wherever it is.
LEMMA Removed ==
  ASSUME ListInv, RemoveSelected, live # {},
         \/ mode = "menu" /\ mode' = "menu"
         \/ mode = "failed" /\ mode' = "boot"
  PROVE  /\ ListInv' /\ Shrinks
         /\ \A t \in live : t # selectedData => Keeps(t)
<1>1. PICK k \in 0 .. Size : \E q \in [1 .. k -> Slots] : Chain(k, q) /\ Numbered(k, q)
  BY DEF ListInv, Linked
<1>2. PICK q \in [1 .. k -> Slots] : Chain(k, q) /\ Numbered(k, q)
  BY <1>1
<1>3. Size \in Nat /\ Null \notin Slots /\ k > 0
  BY <1>2, SizeIsNat, NullAssumption DEF Chain
<1>4. PICK m \in 1 .. k : selectedData = q[m] /\ selectedIndex = m - 1
  <2>1. CASE mode = "menu"
    <3>1. selectedIndex + 1 \in 1 .. k
      BY <1>2, <1>3, <2>1 DEF Numbered
    <3>2. q[selectedIndex + 1] = selectedData /\ selectedIndex = (selectedIndex + 1) - 1
      BY <1>2, <1>3, <2>1 DEF Numbered
    <3> QED BY <3>1, <3>2
  <2>2. CASE mode = "failed"
    BY <1>2, <1>3, <2>2 DEF Numbered
  <2> QED BY <2>1, <2>2
<1> DEFINE s == q[m]
           p == IF m = 1 THEN Null ELSE q[m - 1]
           n == IF m = k THEN Null ELSE q[m + 1]
<1>5. /\ s \in live /\ s \in Slots /\ slot[s].prev = p /\ slot[s].next = n
      /\ s = rootData <=> m = 1
      /\ n = Null <=> m = k
      /\ p = Null <=> m = 1
  <2>1. s \in live /\ slot[s].prev = p /\ slot[s].next = n /\ (s = rootData <=> m = 1)
    BY <1>2, <1>3 DEF Chain
  <2>2. (m # k => m + 1 \in 1 .. k) /\ (m # 1 => m - 1 \in 1 .. k)
    OBVIOUS
  <2> QED BY <1>3, <2>1, <2>2
<1>6. CASE s = rootData /\ n = Null
  <2>1. k = 1
    BY <1>5, <1>6
  <2>2. /\ slot' = [t \in Slots |-> EmptySlot] /\ live' = {} /\ rootData' = Null
        /\ selectedData' = Null /\ selectedIndex' = 0 /\ managers' = managers
        /\ pool' = FALSE
    BY <1>4, <1>5, <1>6 DEF RemoveSelected
  <2>3. Linked'
    <3> DEFINE r == [i \in 1 .. 0 |-> q[i]]
    <3>1. r \in [1 .. 0 -> Slots] /\ 0 \in 0 .. Size
      BY <1>3
    <3>2. Chain(0, r)'
      BY <2>2 DEF Chain
    <3>3. Numbered(0, r)'
      BY DEF Numbered
    <3> QED BY <3>1, <3>2, <3>3 DEF Linked
  <2>4. ListTyped'
    <3>1. Null \in Pointers
      BY DEF Pointers
    <3>2. EmptySlot \in Slot
      BY <3>1, EmptyTyped
    <3>3. slot' \in [Slots -> Slot]
      BY <2>2, <3>2
    <3>4. live' \subseteq Slots /\ pool' \in BOOLEAN /\ managers' \in 0 .. MaxManagers
      BY <2>2 DEF ListInv, ListTyped
    <3>5. rootData' \in Pointers /\ selectedData' \in Pointers /\ selectedIndex' \in 0 .. Size
      BY <1>3, <2>2, <3>1
    <3> QED BY <3>3, <3>4, <3>5 DEF ListTyped
  <2>5. Memory'
    <3>1. {t \in Slots : slot'[t].mgr} = {}
      BY <2>2 DEF EmptySlot
    <3>2. managers' >= 0
      BY <2>2, BoundsAssumption DEF ListInv, ListTyped
    <3>3. Cardinality({t \in Slots : slot'[t].mgr}) = 0
      BY <3>1, FS_EmptySet
    <3> QED BY <2>2, <3>2, <3>3 DEF Memory
  <2>6. Shrinks
    <3>1. Chain(k - 1, Shorter(k, q, m))'
      BY <2>1, <2>2 DEF Chain
    <3>2. q[m] = selectedData /\ k \in 1 .. Size
      BY <1>3, <1>4
    <3>3. selectedData' = IF k = 1 THEN Null ELSE IF m = k THEN q[m - 1] ELSE q[m + 1]
      BY <2>1, <2>2
    <3> HIDE DEF s, p, n
    <3> QED BY <1>2, <3>1, <3>2, <3>3 DEF Shrinks
  <2>7. live \ {selectedData} = {}
    BY <1>2, <1>4, <2>1 DEF Chain
  <2> QED BY <2>3, <2>4, <2>5, <2>6, <2>7 DEF ListInv
<1>7. CASE ~(s = rootData /\ n = Null)
  <2> DEFINE r == Shorter(k, q, m)
  <2>1. /\ slot' = Unlinked(s, p, n) /\ live' = live \ {s}
        /\ rootData' = IF s = rootData THEN n ELSE rootData
        /\ SelectBeside(p, n)
        /\ managers' = managers - One(slot[s].mgr) /\ pool' = pool
    BY <1>4, <1>5, <1>7 DEF RemoveSelected
  <2>2. k - 1 \in 0 .. Size /\ k - 1 > 0
    BY <1>3, <1>5, <1>7
  <2>3. r \in [1 .. k - 1 -> Slots]
    <3> SUFFICES ASSUME NEW i \in 1 .. k - 1 PROVE r[i] \in Slots
      BY DEF Shorter
    <3>1. i \in 1 .. k /\ i + 1 \in 1 .. k
      OBVIOUS
    <3> QED BY <3>1 DEF Shorter
  <2>4. \A i \in 1 .. k - 1 : /\ i < m => i \in 1 .. k /\ r[i] = q[i]
                              /\ i >= m => i + 1 \in 1 .. k /\ r[i] = q[i + 1]
    BY DEF Shorter
  <2> HIDE DEF r
  <2>5. \A i \in 1 .. k : /\ i < m => i \in 1 .. k - 1 /\ q[i] = r[i]
                          /\ i > m => i - 1 \in 1 .. k - 1 /\ q[i] = r[i - 1]
    <3> SUFFICES ASSUME NEW i \in 1 .. k
                 PROVE  /\ i < m => i \in 1 .. k - 1 /\ q[i] = r[i]
                        /\ i > m => i - 1 \in 1 .. k - 1 /\ q[i] = r[i - 1]
      OBVIOUS
    <3>1. i < m => i \in 1 .. k - 1
      OBVIOUS
    <3>2. i > m => i - 1 \in 1 .. k - 1 /\ i - 1 >= m /\ (i - 1) + 1 = i
      OBVIOUS
    <3> QED BY <2>4, <3>1, <3>2
  <2>6. ASSUME NEW i \in 1 .. k, i # m
        PROVE  /\ slot'[q[i]].next = IF i = m - 1 THEN n ELSE slot[q[i]].next
               /\ slot'[q[i]].prev = IF i = m + 1 THEN p ELSE slot[q[i]].prev
    <3>1. q[i] # s
      BY <1>2, <2>6 DEF Chain
    <3>2. q[i] = n <=> i = m + 1
      BY <1>2, <1>3 DEF Chain
    <3>3. q[i] = p <=> i = m - 1
      BY <1>2, <1>3 DEF Chain
    <3> HIDE DEF s, p, n
    <3>4. slot'[q[i]] = IF i = m + 1 THEN [slot[q[i]] EXCEPT !.prev = p]
                        ELSE IF i = m - 1 THEN [slot[q[i]] EXCEPT !.next = n]
                        ELSE slot[q[i]]
      BY <2>1, <3>1, <3>2, <3>3 DEF Unlinked
    <3>5. slot[q[i]] \in Slot
      BY DEF ListInv, ListTyped
    <3> QED BY <3>4, <3>5 DEF Slot
  <2>7. slot' \in [Slots -> Slot]
    <3>1. p \in Pointers /\ n \in Pointers
      BY DEF Pointers
    <3>2. EmptySlot \in Slot /\ \A t \in Slots : slot[t] \in Slot
      BY EmptyTyped DEF ListInv, ListTyped
    <3> HIDE DEF s, p, n
    <3>3. \A e \in Slot : [e EXCEPT !.prev = p] \in Slot /\ [e EXCEPT !.next = n] \in Slot
      BY <3>1 DEF Slot
    <3> QED BY <2>1, <3>2, <3>3 DEF Unlinked
  <2>8. Chain(k - 1, r)'
    <3>1. live' = {r[i] : i \in 1 .. k - 1}
      <4>1. ASSUME NEW i \in 1 .. k - 1 PROVE r[i] \in live'
        <5>1. PICK h \in 1 .. k : r[i] = q[h] /\ h # m
          <6>1. CASE i < m
            BY <2>4, <6>1
          <6>2. CASE i >= m
            BY <2>4, <6>2
          <6> QED BY <6>1, <6>2
        <5>2. q[h] \in live /\ q[h] # q[m]
          BY <1>2, <1>3, <5>1 DEF Chain
        <5> QED BY <1>3, <2>1, <5>1, <5>2
      <4>2. ASSUME NEW t \in live' PROVE \E i \in 1 .. k - 1 : r[i] = t
        <5>1. PICK i \in 1 .. k : t = q[i] /\ i # m
          BY <1>2, <2>1 DEF Chain
        <5>2. i < m \/ i > m
          BY <5>1
        <5> QED BY <2>5, <5>1, <5>2
      <4> QED BY <4>1, <4>2
    <3>2. ASSUME NEW i \in 1 .. k - 1, NEW j \in 1 .. k - 1, r[i] = r[j] PROVE i = j
      <4>1. \A h \in 1 .. k - 1 : \E a \in 1 .. k : r[h] = q[a] /\ h = IF a < m THEN a ELSE a - 1
        <5> TAKE h \in 1 .. k - 1
        <5>1. CASE h < m
          BY <2>4, <5>1
        <5>2. CASE h >= m
          <6>1. h + 1 \in 1 .. k /\ r[h] = q[h + 1] /\ ~(h + 1 < m) /\ h = (h + 1) - 1
            BY <2>4, <5>2
          <6> QED BY <6>1
        <5> QED BY <5>1, <5>2
      <4>2. PICK a \in 1 .. k : r[i] = q[a] /\ i = IF a < m THEN a ELSE a - 1
        BY <4>1
      <4>3. PICK b \in 1 .. k : r[j] = q[b] /\ j = IF b < m THEN b ELSE b - 1
        BY <4>1
      <4>4. a = b
        <5>1. \A c, d \in 1 .. k : q[c] = q[d] => c = d
          BY <1>2 DEF Chain
        <5> QED BY <3>2, <4>2, <4>3, <5>1
      <4> QED BY <4>2, <4>3, <4>4
    <3>3. rootData' = r[1]
      <4>1. CASE m = 1
        BY <1>5, <2>1, <2>2, <2>4, <4>1
      <4>2. CASE m # 1
        BY <1>2, <1>5, <2>1, <2>2, <2>4, <4>2 DEF Chain
      <4> QED BY <4>1, <4>2
    <3>4. ASSUME NEW i \in 1 .. k - 1
          PROVE  /\ slot'[r[i]].next = IF i = k - 1 THEN Null ELSE r[i + 1]
                 /\ slot'[r[i]].prev = IF i = 1 THEN Null ELSE r[i - 1]
      <4>1. \A j \in 1 .. k : /\ slot[q[j]].next = IF j = k THEN Null ELSE q[j + 1]
                              /\ slot[q[j]].prev = IF j = 1 THEN Null ELSE q[j - 1]
        BY <1>2 DEF Chain
      <4>2. CASE i < m - 1
        <5>1. i \in 1 .. k /\ i # m /\ i # m + 1 /\ i + 1 \in 1 .. k - 1 /\ r[i] = q[i] /\ r[i + 1] = q[i + 1]
          BY <2>4, <4>2
        <5>2. slot'[q[i]].next = slot[q[i]].next /\ slot'[q[i]].prev = slot[q[i]].prev
          BY <2>6, <4>2, <5>1
        <5>3. i # 1 => i - 1 \in 1 .. k - 1 /\ r[i - 1] = q[i - 1]
          BY <2>4, <4>2
        <5> QED BY <4>1, <4>2, <5>1, <5>2, <5>3
      <4>3. CASE i = m - 1
        <5>1. i \in 1 .. k /\ i # m /\ i # m + 1 /\ r[i] = q[i]
          BY <2>4, <4>3
        <5>2. slot'[q[i]].next = n /\ slot'[q[i]].prev = slot[q[i]].prev
          BY <2>6, <4>3, <5>1
        <5>3. i # 1 => i - 1 \in 1 .. k - 1 /\ r[i - 1] = q[i - 1]
          BY <2>4, <4>3
        <5>4. i # k - 1 => r[i + 1] = n
          BY <2>4, <4>3
        <5>5. i = k - 1 => n = Null
          BY <4>3
        <5> QED BY <4>1, <5>1, <5>2, <5>3, <5>4, <5>5
      <4>4. CASE i = m
        <5>1. i + 1 \in 1 .. k /\ i + 1 # m /\ i + 1 # m - 1 /\ r[i] = q[i + 1]
          BY <2>4, <4>4
        <5>2. slot'[q[i + 1]].prev = p /\ slot'[q[i + 1]].next = slot[q[i + 1]].next
          BY <2>6, <4>4, <5>1
        <5>3. IF i = 1 THEN p = Null ELSE r[i - 1] = p
          BY <2>4, <4>4
        <5>4. i # k - 1 => r[i + 1] = q[(i + 1) + 1]
          BY <2>4, <4>4
        <5> QED BY <4>1, <5>1, <5>2, <5>3, <5>4
      <4>5. CASE i > m
        <5>1. i + 1 \in 1 .. k /\ i + 1 # m /\ i + 1 # m - 1 /\ i + 1 # m + 1 /\ r[i] = q[i + 1]
          BY <2>4, <4>5
        <5>2. slot'[q[i + 1]].next = slot[q[i + 1]].next /\ slot'[q[i + 1]].prev = slot[q[i + 1]].prev
          BY <2>6, <4>5, <5>1
        <5>3. i # 1 /\ r[i - 1] = q[(i + 1) - 1]
          BY <2>4, <4>5
        <5>4. i # k - 1 => r[i + 1] = q[(i + 1) + 1]
          BY <2>4, <4>5
        <5> QED BY <4>1, <5>1, <5>2, <5>3, <5>4
      <4> QED BY <4>2, <4>3, <4>4, <4>5
    <3> QED BY <2>2, <3>1, <3>2, <3>3, <3>4 DEF Chain
  <2>9. \E j \in 1 .. k - 1 : selectedData' = r[j] /\ selectedIndex' = j - 1
    <3>1. CASE m = k
      <4>1. selectedData' = q[m - 1] /\ selectedIndex' = selectedIndex - 1
        BY <1>5, <2>1, <2>2, <3>1 DEF SelectBeside
      <4>2. m - 1 \in 1 .. k - 1 /\ r[m - 1] = q[m - 1]
        BY <2>2, <2>4, <3>1
      <4> QED BY <1>4, <4>1, <4>2
    <3>2. CASE m # k
      <4>1. selectedData' = q[m + 1] /\ selectedIndex' = selectedIndex
        BY <1>5, <2>1, <3>2 DEF SelectBeside
      <4>2. m \in 1 .. k - 1 /\ r[m] = q[m + 1]
        BY <2>4, <3>2
      <4> QED BY <1>4, <4>1, <4>2
    <3> QED BY <3>1, <3>2
  <2>10. Numbered(k - 1, r)'
    BY <2>9 DEF Numbered
  <2>11. Linked'
    BY <2>2, <2>3, <2>8, <2>10 DEF Linked
  <2>12. \A t \in Slots : t # s => slot'[t].mgr = slot[t].mgr /\ slot'[t].len = slot[t].len
    BY <2>1 DEF Unlinked, ListInv, ListTyped, Slot
  <2>13. slot'[s] = EmptySlot /\ ~slot'[s].mgr
    BY <1>5, <2>1 DEF Unlinked, EmptySlot
  <2>14. managers' >= Cardinality({t \in Slots : slot'[t].mgr}) /\ managers' \in 0 .. MaxManagers
    <3> DEFINE M == {t \in Slots : slot[t].mgr}
    <3>1. {t \in Slots : slot'[t].mgr} = M \ {s}
      BY <2>12, <2>13
    <3>2. s \in M <=> slot[s].mgr
      BY <1>5
    <3>3. M \in SUBSET Slots
      OBVIOUS
    <3>4. managers \in 0 .. MaxManagers /\ MaxManagers \in Nat /\ managers >= Cardinality(M)
      BY BoundsAssumption DEF ListInv, ListTyped, Memory
    <3> HIDE DEF M
    <3>5. /\ Cardinality(M) \in Nat /\ Cardinality(M \ {s}) \in Nat
          /\ Cardinality(M \ {s}) = Cardinality(M) - (IF s \in M THEN 1 ELSE 0)
      BY <3>3, CountMacros
    <3>6. managers' = managers - (IF s \in M THEN 1 ELSE 0)
      BY <2>1, <3>2 DEF One
    <3>7. managers' \in 0 .. MaxManagers /\ managers' >= Cardinality(M \ {s})
      BY <3>4, <3>5, <3>6
    <3> QED BY <3>1, <3>7
  <2>15. ListTyped'
    <3>1. rootData' \in Pointers /\ selectedData' \in Pointers /\ selectedIndex' \in 0 .. Size
      BY <1>3, <2>1, <2>3, <2>9 DEF ListInv, ListTyped, Pointers
    <3> QED BY <2>1, <2>7, <2>14, <3>1 DEF ListInv, ListTyped
  <2>16. Memory'
    <3>1. \A t \in Slots \ live' : slot'[t] = EmptySlot
      <4> SUFFICES ASSUME NEW t \in Slots \ live, t # s PROVE slot'[t] = EmptySlot
        BY <2>1, <2>13
      <4>1. t # p /\ t # n
        BY <1>2, <1>3 DEF Chain
      <4> QED BY <2>1, <4>1 DEF Unlinked, ListInv, Memory
    <3>2. selectedData' \in live'
      BY <2>8, <2>9 DEF Chain
    <3>3. \A t \in live' : slot'[t].mgr => slot'[t].len > 0
      BY <1>4, <2>1, <2>12 DEF ListInv, ListTyped, Memory
    <3>4. live' # {} => pool'
      BY <2>1 DEF ListInv, Memory
    <3> QED BY <2>14, <3>1, <3>2, <3>3, <3>4 DEF Memory
  <2>17. Shrinks
    <3>1. selectedData' = IF m = k THEN q[m - 1] ELSE q[m + 1]
      BY <1>5, <2>1, <2>2 DEF SelectBeside
    <3> QED BY <1>2, <1>3, <1>4, <2>2, <2>8, <3>1 DEF Shrinks, r
  <2>18. \A t \in live : t # selectedData => Keeps(t)
    BY <1>4, <2>1, <2>12 DEF ListInv, ListTyped, Keeps
  <2> QED BY <2>11, <2>15, <2>16, <2>17, <2>18 DEF ListInv
<1> QED BY <1>6, <1>7

\* Another slot is selected, by its number where the number is used.
LEMMA ListSelect ==
  ASSUME ListInv, UNCHANGED listVars, mode \in {"game", "menu"}, mode' \in {"game", "menu"},
         IF live = {} THEN selectedData' = selectedData ELSE selectedData' \in live,
         selectedIndex' \in 0 .. Size,
         mode' = "menu" /\ live # {} => selectedIndex' = Place(selectedData') - 1
  PROVE  ListInv'
<1>1. PICK k \in 0 .. Size : \E q \in [1 .. k -> Slots] : Chain(k, q) /\ Numbered(k, q)
  BY DEF ListInv, Linked
<1>2. PICK q \in [1 .. k -> Slots] : Chain(k, q) /\ Numbered(k, q)
  BY <1>1
<1>3. \A i \in 1 .. k : Place(q[i]) = i
  BY <1>2, SizeIsNat, Places
<1>4. Chain(k, q)'
  BY <1>2 DEF Chain, listVars
<1>5. Numbered(k, q)'
  <2>1. live # {} => \E i \in 1 .. k : selectedData' = q[i]
    BY <1>2 DEF Chain
  <2>2. k > 0 => live # {}
    BY <1>2 DEF Chain
  <2>3. ASSUME mode' = "menu", k > 0
        PROVE  selectedIndex' \in 0 .. k - 1 /\ q[selectedIndex' + 1] = selectedData'
    <3>1. PICK i \in 1 .. k : selectedData' = q[i]
      BY <2>1, <2>2, <2>3
    <3>2. selectedIndex' = i - 1 /\ (i - 1) + 1 = i
      BY <1>3, <2>2, <2>3, <3>1
    <3> QED BY <3>1, <3>2
  <2> QED BY <2>3 DEF Numbered
<1>6. Linked'
  BY <1>4, <1>5 DEF Linked
<1>7. ListTyped'
  <2>1. selectedData' \in Pointers
    BY DEF ListInv, ListTyped, Pointers
  <2> QED BY <2>1 DEF ListInv, ListTyped, listVars
<1>8. Memory'
  BY DEF ListInv, Memory, listVars
<1> QED BY <1>6, <1>7, <1>8 DEF ListInv

\* The user goes to the slot before the selected one, or behind it.
LEMMA MenuSlotInv ==
  ASSUME ListInv, MenuSlot
  PROVE  ListInv'
<1>1. PICK k \in 0 .. Size : \E q \in [1 .. k -> Slots] : Chain(k, q) /\ Numbered(k, q)
  BY DEF ListInv, Linked
<1>2. PICK q \in [1 .. k -> Slots] : Chain(k, q) /\ Numbered(k, q)
  BY <1>1
<1>3. mode = "menu" /\ mode' = "menu" /\ selectedData \in live /\ UNCHANGED listVars
  BY DEF MenuSlot, Selecting, Stays
<1>4. k > 0 /\ k <= Size /\ Size \in Nat
  BY <1>2, <1>3, SizeIsNat DEF Chain
<1>5. PICK m \in 1 .. k : selectedData = q[m] /\ selectedIndex = m - 1
  <2>1. selectedIndex + 1 \in 1 .. k /\ q[selectedIndex + 1] = selectedData
    BY <1>2, <1>3, <1>4 DEF Numbered
  <2>2. selectedIndex = (selectedIndex + 1) - 1
    BY <1>2, <1>3, <1>4 DEF Numbered
  <2> QED BY <2>1, <2>2
<1>6. PICK j \in 1 .. k : selectedData' = q[j] /\ selectedIndex' = j - 1
  <2>1. CASE slot[selectedData].prev # Null /\ selectedData' = slot[selectedData].prev
             /\ selectedIndex' = selectedIndex - 1
    <3>1. m - 1 \in 1 .. k /\ selectedData' = q[m - 1]
      BY <1>2, <1>5, <2>1 DEF Chain
    <3> QED BY <1>5, <2>1, <3>1
  <2>2. CASE slot[selectedData].next # Null /\ selectedData' = slot[selectedData].next
             /\ selectedIndex' = selectedIndex + 1
    <3>1. m + 1 \in 1 .. k /\ selectedData' = q[m + 1]
      BY <1>2, <1>5, <2>2 DEF Chain
    <3> QED BY <1>5, <2>2, <3>1
  <2> QED BY <2>1, <2>2 DEF MenuSlot
<1>7. selectedData' \in live /\ Place(selectedData') = j
  BY <1>2, <1>4, <1>6, Places DEF Chain
<1>8. selectedIndex' \in 0 .. Size /\ selectedIndex' = Place(selectedData') - 1
  BY <1>4, <1>6, <1>7
<1> QED BY <1>3, <1>7, <1>8, ListSelect

-----------------------------------------------------------------------------
(* What the steps do to the recording or running of a slot. *)

\* The initial state.
LEMMA InitIInv == Init => IInv
<1> SUFFICES ASSUME Init PROVE IInv
  OBVIOUS
<1>1. ListTyped
  <2>1. Null \in Pointers
    BY DEF Pointers
  <2>2. slot \in [Slots -> Slot]
    BY <2>1, EmptyTyped DEF Init
  <2>3. live \subseteq Slots /\ pool \in BOOLEAN
    BY DEF Init
  <2>4. rootData \in Pointers /\ selectedData \in Pointers
    BY <2>1 DEF Init
  <2>5. selectedIndex \in 0 .. Size /\ managers \in 0 .. MaxManagers
    BY SizeIsNat, BoundsAssumption DEF Init
  <2> QED BY <2>2, <2>3, <2>4, <2>5 DEF ListTyped
<1>2. Linked
  <2> DEFINE q == [i \in 1 .. 0 |-> Null]
  <2>1. 0 \in 0 .. Size /\ q \in [1 .. 0 -> Slots]
    BY SizeIsNat
  <2>2. Chain(0, q)
    BY DEF Chain, Init
  <2>3. Numbered(0, q)
    BY DEF Numbered, Init
  <2> QED BY <2>1, <2>2, <2>3 DEF Linked
<1>3. Memory
  <2>1. {s \in Slots : slot[s].mgr} = {}
    BY DEF Init, EmptySlot
  <2>2. Cardinality({s \in Slots : slot[s].mgr}) = 0
    BY <2>1, FS_EmptySet
  <2> QED BY <2>2 DEF Memory, Init
<1>4. WorkTyped
  <2>1. 0 \in 0 .. MaxCommands /\ 0 \in 0 .. MaxLoops
    BY BoundsAssumption
  <2> QED BY <2>1 DEF WorkTyped, Init, Pointers, Actions, Modes, Faults
<1>5. Shared
  BY DEF Shared, ActionPrepared, NoFault, Init
<1> QED BY <1>1, <1>2, <1>3, <1>4, <1>5 DEF IInv, ListInv, WorkInv

\* Steps that leave the work alone, and the slot it is about.
LEMMA WorkKept ==
  ASSUME WorkInv, UNCHANGED <<workVars, hotkeyAccept, message, game, fault>>,
         enabled' \in BOOLEAN, pressed' \in Keys \cup {NoKey},
         \/ mode' = mode
         \/ mode' \in {"load", "failed", "boot"} /\ mode \in {"load", "failed", "boot"}
         \/ mode' = "game"
         \/ mode' = "menu" /\ message = "none" /\ game = "idle",
         actionType # "none" => Keeps(actionData)
  PROVE  WorkInv'
<1>1. WorkTyped'
  BY DEF WorkInv, WorkTyped, workVars, Modes
<1>2. ActionPrepared'
  BY DEF WorkInv, Shared, ActionPrepared, workVars, Keeps
<1>3. Shared'
  BY <1>2 DEF WorkInv, Shared, NoFault, workVars
<1> QED BY <1>1, <1>3 DEF WorkInv

\* macroMain with the API hooked, on the branch that fits what is being done.
LEMMA MainWork ==
  ASSUME IInv, MacroMain(actionType), mode = "game", message # "stopping",
         HotkeysRepeat, UNCHANGED <<enabled, mode, message, pressed>>, game' = "idle"
  PROVE  WorkInv'
<1>1. /\ slot \in [Slots -> Slot] /\ live \subseteq Slots
      /\ \A s \in live : slot[s].len \in 0 .. MaxCommands /\ slot[s].loopNum \in 0 .. MaxLoops
      /\ MaxCommands \in Nat /\ MaxLoops \in Nat
  BY BoundsAssumption DEF IInv, ListInv, ListTyped, Slot
<1>2. WorkTyped /\ Shared
  BY DEF IInv, WorkInv
<1>3. /\ enabled' \in BOOLEAN /\ mode' \in Modes /\ message' \in {"none", "send", "stopping"}
      /\ game' \in Actions \cup {"idle"} /\ pressed' \in Keys \cup {NoKey}
      /\ mode' = "game" /\ message' # "stopping" /\ game' = "idle"
  BY <1>2 DEF WorkTyped
<1>4. rfUid # "freed" /\ fault = "none" /\ (~hotkeyAccept => actionData # Null)
  BY <1>2 DEF Shared, NoFault
<1>9. \A s \in live : s # Null
  BY <1>1, NullAssumption
<1>5. ASSUME actionType = "record", MainRecord PROVE WorkInv'
  <2>1. cmd # 0 /\ actionData \in live /\ slot[actionData].mgr /\ rfUid = "none"
    BY <1>1, <1>2, <1>5 DEF Shared, ActionPrepared
  <2>2. PICK n \in slot[actionData].len .. slot[actionData].len + 3 :
          /\ n <= MaxCommands
          /\ slot' = [slot EXCEPT ![actionData].len = n] /\ cmd' = n
    BY <1>5, <2>1 DEF MainRecord
  <2>3. UNCHANGED <<live, actionType, actionData, loopRest, rfUid, hotkeyAccept, fault>>
    BY <1>5, <2>1 DEF MainRecord
  <2>4. n \in 1 .. MaxCommands
    BY <1>1, <1>2, <1>5, <2>1, <2>2 DEF Shared, ActionPrepared
  <2>5. slot'[actionData].len = n /\ slot'[actionData].mgr
    BY <1>1, <2>1, <2>2 DEF Slot
  <2>6. WorkTyped'
    BY <1>2, <1>3, <2>2, <2>3, <2>4 DEF WorkTyped
  <2>7. ActionPrepared'
    BY <1>5, <2>1, <2>2, <2>3, <2>4, <2>5 DEF ActionPrepared
  <2>8. Shared'
    BY <1>2, <1>3, <2>3, <2>7 DEF Shared, NoFault
  <2> QED BY <2>6, <2>8 DEF WorkInv
<1>6. ASSUME actionType = "trace", MainTrace PROVE WorkInv'
  <2>1. /\ actionData \in live /\ slot[actionData].mgr /\ cmd \in 1 .. slot[actionData].len
    BY <1>2, <1>6 DEF Shared, ActionPrepared
  <2>2. UNCHANGED <<listVars, fault>> /\ hotkeyAccept' \in BOOLEAN /\ actionData' = actionData
    <3>1. UNCHANGED <<listVars, fault>>
      BY <1>4, <1>6, <2>1 DEF MainTrace
    <3>2. hotkeyAccept \in BOOLEAN
      BY <1>2 DEF WorkTyped
    <3>3. hotkeyAccept' \in BOOLEAN
      <4> DEFINE hotkey  == slot[actionData].hotkey
                 trigger == hotkey # NoKey /\ pressed = hotkey
      <4>1. \/ hotkeyAccept' = FALSE
            \/ hotkeyAccept' = (hotkeyAccept \/ (hotkey # NoKey /\ ~trigger))
        BY <1>4, <1>6, <2>1 DEF MainTrace
      <4>2. (hotkeyAccept \/ (hotkey # NoKey /\ ~trigger)) \in BOOLEAN
        OBVIOUS
      <4> HIDE DEF hotkey, trigger
      <4> QED BY <4>1, <4>2, Zenon
    <3>4. actionData' = actionData
      BY <1>4, <1>6, <2>1 DEF MainTrace, TraceStop, TraceEnd
    <3> QED BY <3>1, <3>3, <3>4
  <2>3. \/ TraceEnd
        \/ TraceAgain(actionData, cmd, loopRest) /\ UNCHANGED <<actionType, actionData, rfUid>>
    BY <1>4, <1>6, <2>1 DEF MainTrace, TraceStop
  <2>4. CASE TraceEnd
    <3>1. WorkTyped'
      BY <1>1, <1>2, <1>3, <2>2, <2>4 DEF WorkTyped, TraceEnd, Actions
    <3>2. Shared'
      BY <1>2, <1>3, <1>9, <2>1, <2>2, <2>4 DEF Shared, ActionPrepared, NoFault, TraceEnd, listVars
    <3> QED BY <3>1, <3>2 DEF WorkInv
  <2>5. CASE TraceAgain(actionData, cmd, loopRest) /\ UNCHANGED <<actionType, actionData, rfUid>>
    <3>1. cmd' \in 1 .. slot[actionData].len /\ loopRest' \in 0 .. MaxLoops
      BY <1>1, <1>2, <2>1, <2>5 DEF TraceAgain, WorkTyped
    <3>2. WorkTyped'
      BY <1>1, <1>2, <1>3, <2>1, <2>2, <2>5, <3>1 DEF WorkTyped
    <3>3. Shared'
      BY <1>2, <1>3, <1>4, <1>9, <1>6, <2>1, <2>2, <2>5, <3>1 DEF Shared, ActionPrepared, NoFault, listVars
    <3> QED BY <3>2, <3>3 DEF WorkInv
  <2> QED BY <2>3, <2>4, <2>5
<1>7. ASSUME actionType = "none", MainWait PROVE WorkInv'
  <2>1. rfUid = "none"
    BY <1>2, <1>7 DEF Shared, ActionPrepared
  <2>2. ASSUME UNCHANGED <<listVars, workVars, fault>>, hotkeyAccept' \in BOOLEAN,
               ~hotkeyAccept' => actionData # Null
        PROVE  WorkInv'
    <3>1. WorkTyped'
      BY <1>2, <1>3, <2>2 DEF WorkTyped, workVars
    <3>2. Shared'
      BY <1>2, <1>3, <1>4, <1>7, <2>1, <2>2 DEF Shared, ActionPrepared, NoFault, workVars, listVars
    <3> QED BY <3>1, <3>2 DEF WorkInv
  <2>3. CASE ~hotkeyAccept
    <3>1. /\ hotkeyAccept' \in HotkeyReleased(actionData)
          /\ UNCHANGED <<listVars, menuVars, workVars, fault>>
      BY <1>4, <1>7, <2>3 DEF MainWait
    <3>2. hotkeyAccept' \in BOOLEAN
      BY <3>1 DEF HotkeyReleased
    <3> QED BY <1>4, <2>2, <2>3, <3>1, <3>2
  <2>4. CASE hotkeyAccept /\ UNCHANGED <<listVars, menuVars, workVars, hotkeyAccept, fault>>
    BY <1>2, <2>2, <2>4 DEF WorkTyped
  <2>5. CASE hotkeyAccept /\ SearchFails
    <3>1. WorkTyped'
      <4>1. /\ UNCHANGED <<actionType, cmd, loopRest, rfUid, hotkeyAccept, fault>>
            /\ actionData' \in Pointers
        BY <2>5 DEF SearchFails, Pointers
      <4> QED BY <1>2, <1>3, <4>1 DEF WorkTyped
    <3>2. Shared'
      BY <1>2, <1>3, <1>4, <1>7, <2>1, <2>5 DEF Shared, ActionPrepared, NoFault, SearchFails
    <3> QED BY <3>1, <3>2 DEF WorkInv
  <2>6. ASSUME NEW s \in Listed, pressed # NoKey, slot[s].hotkey = pressed, HotkeyStart(s)
        PROVE  WorkInv'
    <3>1. UNCHANGED listVars
      BY <2>6 DEF HotkeyStart, Fault
    <3>2. s \in live /\ s \in Slots /\ s \in Pointers
      <4>1. Listed = live
        BY ListedIsLive DEF IInv
      <4> QED BY <1>1, <2>6, <4>1 DEF Pointers
    <3>3. slot[s].mgr /\ slot[s].loopNum # 1
      BY <2>6, <3>1, <3>2 DEF HotkeysRepeat, listVars
    <3>4. slot[s].len > 0 /\ slot[s].len \in 1 .. MaxCommands
      BY <1>1, <3>2, <3>3 DEF IInv, ListInv, Memory
    <3>5. /\ hotkeyAccept' = FALSE /\ TracePrepare(s) /\ UNCHANGED fault
          /\ TraceAgain(s, 1, slot[s].loopNum)
      BY <2>6, <3>3, <3>4 DEF HotkeyStart, TraceDone
    <3>6. cmd' \in 1 .. slot[s].len /\ loopRest' \in 0 .. MaxLoops
      BY <1>1, <3>2, <3>4, <3>5 DEF TraceAgain
    <3>7. WorkTyped'
      <4>1. hotkeyAccept' \in BOOLEAN
        BY <3>5
      <4>2. actionType' \in Actions /\ actionData' \in Pointers /\ rfUid' \in {"none", "live", "freed"}
        BY <3>2, <3>5 DEF TracePrepare, Actions
      <4>3. cmd' \in 0 .. MaxCommands
        BY <1>1, <3>4, <3>6
      <4> QED BY <1>2, <1>3, <3>5, <3>6, <4>1, <4>2, <4>3 DEF WorkTyped
    <3>8. Shared'
      BY <1>2, <1>3, <1>9, <3>1, <3>2, <3>3, <3>5, <3>6
         DEF Shared, ActionPrepared, NoFault, TracePrepare, listVars
    <3> QED BY <3>7, <3>8 DEF WorkInv
  <2> QED BY <1>7, <2>3, <2>4, <2>5, <2>6 DEF MainWait
<1> QED BY <1>5, <1>6, <1>7 DEF MacroMain

-----------------------------------------------------------------------------
(* One lemma for each part of the program. *)

\* The list gains a slot at its end, loses one, or stays.
Moves == Grows \/ Shrinks \/ UNCHANGED <<live, rootData>>

\* macroIniLoad.
LEMMA BootStep ==
  ASSUME IInv, Boot, ClearsNoNeighbour
  PROVE  IInv' /\ Moves
<1>1. ListInv /\ WorkInv /\ WorkTyped /\ Shared
  BY DEF IInv, WorkInv
<1>2. ASSUME NEW from, NEW to, from \in {"boot", "load", "failed"},
             to \in {"boot", "load", "failed"},
             Boots(from, to), UNCHANGED <<enabled, message>>
      PROVE  WorkInv'
  <2>1. actionType = "none" /\ mode = from /\ mode' = to
    BY <1>1, <1>2 DEF Boots, Shared
  <2>2. /\ UNCHANGED <<workVars, hotkeyAccept, message, game, fault>>
        /\ enabled' \in BOOLEAN /\ pressed' \in Keys \cup {NoKey}
    BY <1>1, <1>2 DEF Boots, WorkTyped
  <2> QED BY <1>1, <1>2, <2>1, <2>2, WorkKept
<1>3. ASSUME BootAdd PROVE IInv' /\ Moves
  <2>1. mode = "boot" /\ mode' = IF live' # live THEN "load" ELSE "boot"
    BY <1>3 DEF BootAdd, Boots
  <2>2. ListInv' /\ Moves
    BY <1>1, <1>3, <2>1, Added DEF BootAdd, Moves
  <2>3. WorkInv'
    BY <1>2, <1>3 DEF BootAdd
  <2> QED BY <2>2, <2>3 DEF IInv
<1>4. ASSUME BootLoad PROVE IInv' /\ Moves
  <2> DEFINE s == selectedData
  <2>1. mode = "load" /\ UNCHANGED <<live, pool, rootData, menuVars, enabled, message>>
    BY <1>4 DEF BootLoad, Boots
  <2>2. s \in live /\ s \in Slots /\ slot[s] \in Slot
    <3>1. live # {}
      BY <1>1, <2>1, BootSelects
    <3> QED BY <1>1, <3>1 DEF ListInv, ListTyped, Memory
  <2>3. ASSUME Boots("load", "boot"), NEW r \in Loaded(slot[s]), UpdateSlot(s, r)
        PROVE  ListInv' /\ WorkInv'
    <3>1. r \in Slot /\ (r.mgr => r.len > 0)
      BY <2>2, <2>3, LoadedTyped
    <3>2. mode' = "boot" /\ mode # "failed"
      BY <2>1, <2>3 DEF Boots
    <3>3. ListInv'
      BY <1>1, <2>1, <2>2, <2>3, <3>1, <3>2, SlotUpdated
    <3> QED BY <1>2, <2>1, <2>3, <3>3
  <2>4. ASSUME Boots("load", "failed"), NEW r \in LoadFailed(slot[s]), UpdateSlot(s, r)
        PROVE  ListInv' /\ WorkInv'
    <3>1. r \in Slot
      BY <2>2, <2>4, LoadedTyped
    <3>2. mode' = "failed"
      BY <2>4 DEF Boots
    <3>3. ListInv'
      BY <1>1, <2>1, <2>2, <2>4, <3>1, <3>2, SlotUpdated
    <3> QED BY <1>2, <2>1, <2>4, <3>3
  <2> QED BY <1>4, <2>1, <2>3, <2>4 DEF BootLoad, IInv, Moves
<1>5. ASSUME BootRemove PROVE IInv' /\ Moves
  <2>1. mode = "failed" /\ mode' = "boot"
    BY <1>5 DEF BootRemove, Boots
  <2>2. live # {}
    BY <1>1, <2>1, BootSelects
  <2>3. ListInv' /\ Moves
    BY <1>1, <1>5, <2>1, <2>2, Removed DEF BootRemove, Moves
  <2>4. WorkInv'
    BY <1>2, <1>5 DEF BootRemove
  <2> QED BY <2>3, <2>4 DEF IInv
<1>6. ASSUME BootDone PROVE IInv' /\ Moves
  <2>1. /\ UNCHANGED <<listVars, menuVars, workVars, hotkeyAccept, game, pressed, fault>>
        /\ mode = "boot" /\ mode' = "game"
        /\ enabled' \in BOOLEAN /\ message' \in {"none", "send"}
    BY <1>6 DEF BootDone, Boots
  <2>2. ListInv'
    BY <1>1, <2>1, ListKept
  <2>3. WorkInv'
    <3>1. WorkTyped'
      BY <1>1, <2>1 DEF WorkTyped, workVars, Modes
    <3>2. Shared'
      BY <1>1, <2>1 DEF Shared, ActionPrepared, NoFault, listVars, workVars
    <3> QED BY <3>1, <3>2 DEF WorkInv
  <2> QED BY <2>1, <2>2, <2>3 DEF IInv, Moves, listVars
<1> QED BY <1>3, <1>4, <1>5, <1>6 DEF Boot

\* The message that the engine was switched.
LEMMA ToggleStep ==
  ASSUME IInv, Undisturbed, Toggle \/ ToggleMessage \/ ToggleStop
  PROVE  IInv' /\ UNCHANGED <<live, rootData>>
<1>1. ListInv /\ WorkInv /\ WorkTyped /\ Shared
  BY DEF IInv, WorkInv
<1>2. UNCHANGED <<listVars, menuVars, actionData, hotkeyAccept, mode, game, pressed, fault>>
  BY DEF Toggle, ToggleMessage, ToggleStop, TraceEnd, workVars
<1>3. ListInv'
  BY <1>1, <1>2, ListKept
<1>4. game = "idle"
  BY <1>2 DEF Undisturbed
<1>5. ASSUME Toggle PROVE WorkInv'
  <2>1. mode = "game" /\ enabled' = ~enabled /\ message' = "send" /\ message = "none"
        /\ UNCHANGED workVars
    BY <1>5 DEF Toggle
  <2>2. enabled' \in BOOLEAN
    BY <1>1, <2>1 DEF WorkTyped
  <2>3. WorkTyped'
    BY <1>1, <1>2, <2>1, <2>2 DEF WorkTyped, workVars
  <2>4. Shared'
    BY <1>1, <1>2, <1>4, <2>1 DEF Shared, ActionPrepared, NoFault, listVars, workVars
  <2> QED BY <2>3, <2>4 DEF WorkInv
<1>6. ASSUME ToggleMessage PROVE WorkInv'
  <2>1. /\ mode = "game" /\ message = "send"
        /\ UNCHANGED <<actionType, cmd, loopRest, enabled>>
        /\ \/ actionType = "trace" /\ message' = "stopping" /\ rfUid' \in {"freed", rfUid}
           \/ actionType # "trace" /\ message' = "none" /\ rfUid' = rfUid
    BY <1>6 DEF ToggleMessage
  <2>2. WorkTyped'
    BY <1>1, <1>2, <2>1 DEF WorkTyped
  <2>3. Shared'
    BY <1>1, <1>2, <1>4, <2>1 DEF Shared, ActionPrepared, NoFault, listVars
  <2> QED BY <2>2, <2>3 DEF WorkInv
<1>7. ASSUME ToggleStop PROVE WorkInv'
  <2>1. message = "stopping" /\ message' = "none" /\ TraceEnd /\ UNCHANGED enabled
    BY <1>7 DEF ToggleStop
  <2>2. WorkTyped'
    <3>1. actionType' \in Actions /\ cmd' \in 0 .. MaxCommands /\ rfUid' \in {"none", "live", "freed"}
      BY <2>1, BoundsAssumption DEF TraceEnd, Actions
    <3> QED BY <1>1, <1>2, <2>1, <3>1 DEF WorkTyped, TraceEnd
  <2>3. Shared'
    BY <1>1, <1>2, <1>4, <2>1 DEF Shared, ActionPrepared, NoFault, TraceEnd, listVars
  <2> QED BY <2>2, <2>3 DEF WorkInv
<1> QED BY <1>2, <1>3, <1>5, <1>6, <1>7 DEF IInv, listVars

\* An entry of the menu that changes the selected slot.
LEMMA Edited ==
  ASSUME IInv, Selecting, ClearsNoNeighbour,
         NEW r \in Slot, UpdateSlot(selectedData, r),
         UNCHANGED <<live, pool, rootData, menuVars>>,
         r.mgr => r.len > 0, mode' \in {"menu", "game"}
  PROVE  /\ ListInv'
         /\ slot'[selectedData] = r
         /\ \A t \in live : t # selectedData => Keeps(t)
<1>1. /\ ListInv /\ mode = "menu" /\ selectedData \in live /\ selectedData \in Slots
      /\ live \subseteq Slots /\ slot \in [Slots -> Slot]
  BY DEF IInv, ListInv, ListTyped, Selecting
<1>2. ListInv'
  BY <1>1, SlotUpdated
<1>3. slot' = [slot EXCEPT ![selectedData] = r]
  BY DEF UpdateSlot
<1> QED BY <1>1, <1>2, <1>3 DEF Keeps

\* What the entries of the menu make of a slot.
LEMMA EditsTyped ==
  ASSUME IInv, Selecting
  PROVE  LET r == slot[selectedData] IN
         /\ r \in Slot /\ (r.mgr => r.len > 0)
         /\ \A h \in Keys \cup {NoKey} :
              LET x == [r EXCEPT !.hotkey = h] IN
              x \in Slot /\ x.mgr = r.mgr /\ x.len = r.len
         /\ \A l \in 0 .. MaxLoops :
              LET x == [r EXCEPT !.loopNum = l] IN
              x \in Slot /\ x.mgr = r.mgr /\ x.len = r.len
         /\ \A n \in 0 .. MaxCommands :
              LET x == [r EXCEPT !.len = n] IN
              x \in Slot /\ x.mgr = r.mgr /\ x.len = n
         /\ \A n \in 0 .. MaxCommands :
              LET x == [r EXCEPT !.mgr = TRUE, !.len = n] IN
              x \in Slot /\ x.mgr /\ x.len = n
<1>1. slot[selectedData] \in Slot
  BY DEF IInv, ListInv, ListTyped, Selecting
<1>2. slot[selectedData].mgr => slot[selectedData].len > 0
  BY DEF IInv, ListInv, ListTyped, Memory, Selecting
<1> QED BY <1>1, <1>2 DEF Slot

\* A slot after macro_clear.
LEMMA ClearedTyped ==
  ASSUME NEW r \in Slot
  PROVE  Cleared(r) \in Slot /\ ~Cleared(r).mgr
<1>1. Null \in Pointers
  BY DEF Pointers
<1>2. EmptySlot \in Slot /\ ~EmptySlot.mgr
  BY <1>1, EmptyTyped DEF EmptySlot
<1> QED BY <1>2 DEF Cleared

\* The entries of the menu that leave the work alone.
LEMMA MenuEditStep ==
  ASSUME IInv, ClearsNoNeighbour,
         MenuHotkey \/ MenuLoop \/ MenuLoad \/ MenuEdit \/ MenuClear
  PROVE  IInv' /\ UNCHANGED <<live, rootData>>
<1> DEFINE r == slot[selectedData]
<1>1. /\ Selecting /\ mode = "menu" /\ selectedData \in live
      /\ UNCHANGED <<live, rootData, workVars, hotkeyAccept, enabled, mode, message, game, pressed, fault>>
  BY DEF MenuHotkey, MenuLoop, MenuLoad, MenuEdit, MenuClear, Edits, Selecting, Stays
<1>2. /\ WorkInv /\ enabled \in BOOLEAN /\ pressed \in Keys \cup {NoKey}
      /\ actionType # "none" => actionData \in live
  BY <1>1 DEF IInv, WorkInv, WorkTyped, Shared, ActionPrepared
<1>3. ASSUME NEW x \in Slot, Edits(x), x.mgr => x.len > 0,
             ~Acting \/ (x.mgr = r.mgr /\ x.len = r.len)
      PROVE  IInv'
  <2>1. /\ ListInv' /\ slot'[selectedData] = x
        /\ \A t \in live : t # selectedData => Keeps(t)
    BY <1>1, <1>3, Edited DEF Edits
  <2>2. actionType # "none" => Keeps(actionData)
    <3>1. CASE actionData # selectedData
      BY <1>2, <2>1, <3>1
    <3>2. CASE actionData = selectedData
      BY <1>1, <1>2, <1>3, <2>1, <3>2 DEF Acting, Idle, Keeps
    <3> QED BY <3>1, <3>2
  <2>3. WorkInv'
    BY <1>1, <1>2, <2>2, WorkKept
  <2> QED BY <2>1, <2>3 DEF IInv
<1>4. r \in Slot
  BY <1>1, EditsTyped
<1>5. ASSUME MenuHotkey PROVE IInv'
  <2>1. PICK h \in Keys \cup {NoKey} : Edits([r EXCEPT !.hotkey = h])
    BY <1>5 DEF MenuHotkey
  <2> DEFINE x == [r EXCEPT !.hotkey = h]
  <2>2. x \in Slot /\ (x.mgr => x.len > 0) /\ x.mgr = r.mgr /\ x.len = r.len
    BY <1>1, EditsTyped
  <2> HIDE DEF x
  <2> QED BY <1>3, <2>1, <2>2 DEF x
<1>6. ASSUME MenuLoop PROVE IInv'
  <2>1. PICK l \in 0 .. MaxLoops : Edits([r EXCEPT !.loopNum = l])
    BY <1>6 DEF MenuLoop
  <2> DEFINE x == [r EXCEPT !.loopNum = l]
  <2>2. x \in Slot /\ (x.mgr => x.len > 0) /\ x.mgr = r.mgr /\ x.len = r.len
    BY <1>1, EditsTyped
  <2> HIDE DEF x
  <2> QED BY <1>3, <2>1, <2>2 DEF x
<1>7. ASSUME MenuLoad PROVE IInv'
  <2> DEFINE old == Cleared(r)
  <2>1. ~Acting /\ old \in Slot
    BY <1>4, <1>7, ClearedTyped DEF MenuLoad
  <2>2. CASE \E x \in Loaded(old) : Edits(x)
    BY <1>3, <2>1, <2>2, LoadedTyped
  <2>3. CASE \E x \in LoadFailed(old) : Edits(Cleared(x))
    <3>1. PICK x \in LoadFailed(old) : Edits(Cleared(x))
      BY <2>3
    <3>2. Cleared(x) \in Slot /\ ~Cleared(x).mgr
      BY <2>1, LoadedTyped, ClearedTyped
    <3> QED BY <1>3, <2>1, <3>1, <3>2
  <2> QED BY <1>7, <2>2, <2>3 DEF MenuLoad
<1>8. ASSUME MenuEdit PROVE IInv'
  <2>1. PICK n \in 1 .. MaxCommands : Edits([r EXCEPT !.mgr = TRUE, !.len = n])
    BY <1>8 DEF MenuEdit
  <2> DEFINE x == [r EXCEPT !.mgr = TRUE, !.len = n]
  <2>2. n \in 0 .. MaxCommands /\ n > 0
    BY BoundsAssumption
  <2>3. x \in Slot /\ x.len = n
    BY <1>1, <2>2, EditsTyped
  <2>4. ~Acting
    BY <1>8 DEF MenuEdit
  <2> HIDE DEF x
  <2> QED BY <1>3, <2>1, <2>2, <2>3, <2>4 DEF x
<1>9. ASSUME MenuClear PROVE IInv'
  <2>1. ~Acting /\ Edits(Cleared(r))
    BY <1>9 DEF MenuClear
  <2>2. Cleared(r) \in Slot /\ ~Cleared(r).mgr
    BY <1>4, ClearedTyped
  <2> QED BY <1>3, <2>1, <2>2
<1> QED BY <1>1, <1>5, <1>6, <1>7, <1>8, <1>9

\* The entries of the menu that begin or end a recording or a run.
LEMMA MenuWorkStep ==
  ASSUME IInv, ClearsNoNeighbour,
         MenuRecord \/ MenuAppend \/ MenuRecordStop \/ MenuRun \/ MenuStop
  PROVE  IInv' /\ UNCHANGED <<live, rootData>>
<1> DEFINE s == selectedData
           r == slot[selectedData]
<1>1. Selecting /\ mode = "menu" /\ s \in live /\ s \in Slots /\ s \in Pointers
      /\ mode' \in {"menu", "game"}
  BY DEF IInv, ListInv, ListTyped, Pointers, MenuRecord, MenuAppend, MenuRecordStop, MenuRun,
         MenuStop, Selecting, Stays, Quits
<1>2. /\ WorkTyped /\ Shared /\ s # Null /\ message = "none" /\ game = "idle" /\ fault = "none"
      /\ rfUid # "freed" /\ (actionType # "trace" => rfUid = "none")
  BY <1>1, NullAssumption DEF IInv, WorkInv, Shared, NoFault, ActionPrepared
<1>3. UNCHANGED <<live, rootData, hotkeyAccept, enabled, message, game, pressed, fault>>
  BY DEF MenuRecord, MenuAppend, MenuRecordStop, MenuRun, MenuStop, RecordStop, Stays, Quits, listVars
<1>4. /\ r \in Slot /\ r.len \in 0 .. MaxCommands /\ r.loopNum \in 0 .. MaxLoops
      /\ r.mgr => r.len > 0
      /\ MaxCommands \in Nat \ {0} /\ MaxLoops \in Nat
  BY <1>1, EditsTyped, BoundsAssumption DEF Slot
<1>5. ASSUME actionType' = "none", cmd' = 0, rfUid' = "none", actionData' = actionData,
             loopRest' = loopRest
      PROVE  WorkInv'
  <2>1. actionType' \in Actions /\ cmd' \in 0 .. MaxCommands /\ rfUid' \in {"none", "live", "freed"}
    BY <1>4, <1>5 DEF Actions
  <2>2. mode' \in Modes
    BY <1>1 DEF Modes
  <2>3. WorkTyped'
    BY <1>2, <1>3, <1>5, <2>1, <2>2 DEF WorkTyped
  <2>4. Shared'
    BY <1>1, <1>2, <1>3, <1>5 DEF Shared, ActionPrepared, NoFault
  <2> QED BY <2>3, <2>4 DEF WorkInv
<1>6. ASSUME actionType' \in {"record", "trace"}, actionData' = s, mode' = "game",
             s \in live', slot'[s].mgr, slot'[s].len \in 1 .. MaxCommands,
             cmd' \in 1 .. slot'[s].len, loopRest' \in 0 .. MaxLoops,
             actionType' = "record" => cmd' = slot'[s].len /\ rfUid' = "none",
             rfUid' \in {"none", "live"}
      PROVE  WorkInv'
  <2>1. actionType' \in Actions /\ cmd' \in 0 .. MaxCommands /\ rfUid' \in {"none", "live", "freed"}
    BY <1>4, <1>6 DEF Actions
  <2>2. mode' \in Modes
    BY <1>1 DEF Modes
  <2>3. WorkTyped'
    BY <1>1, <1>2, <1>3, <1>6, <2>1, <2>2 DEF WorkTyped
  <2>4. ActionPrepared'
    BY <1>6 DEF ActionPrepared
  <2>5. Shared'
    BY <1>2, <1>3, <1>6, <2>4 DEF Shared, NoFault
  <2> QED BY <2>3, <2>5 DEF WorkInv
<1>7. ASSUME MenuRecord PROVE IInv'
  <2> DEFINE x == [r EXCEPT !.mgr = TRUE, !.len = 1]
  <2>1. /\ UpdateSlot(s, x) /\ UNCHANGED <<live, pool, rootData, menuVars>>
        /\ actionType = "none" /\ mode' = "game"
        /\ actionData' = s /\ actionType' = "record" /\ cmd' = 1 /\ UNCHANGED <<loopRest, rfUid>>
    BY <1>7 DEF MenuRecord, RecordPrepare, Quits, Idle
  <2>2. x \in Slot /\ x.mgr /\ x.len = 1
    <3>1. 1 \in 0 .. MaxCommands
      BY <1>4
    <3> QED BY <1>1, <3>1, EditsTyped
  <2> HIDE DEF x
  <2>3. ListInv' /\ slot'[s] = x
    BY <1>1, <2>1, <2>2, Edited
  <2>4. slot'[s].mgr /\ slot'[s].len = 1 /\ 1 \in 1 .. MaxCommands /\ cmd' \in 1 .. slot'[s].len
    BY <1>4, <2>1, <2>2, <2>3
  <2>5. loopRest' \in 0 .. MaxLoops /\ rfUid' = "none"
    BY <1>2, <2>1 DEF WorkTyped
  <2>6. WorkInv'
    BY <1>1, <1>3, <1>6, <2>1, <2>4, <2>5
  <2> QED BY <2>3, <2>6 DEF IInv
<1>8. ASSUME MenuAppend PROVE IInv'
  <2> DEFINE n == r.len + 1
             x == [r EXCEPT !.len = n]
  <2>1. /\ UpdateSlot(s, x) /\ UNCHANGED <<live, pool, rootData, menuVars>>
        /\ actionType = "none" /\ mode' = "game" /\ r.mgr /\ r.len \in 1 .. MaxCommands - 1
        /\ actionData' = s /\ actionType' = "record" /\ cmd' = n /\ UNCHANGED <<loopRest, rfUid>>
    BY <1>8 DEF MenuAppend, RecordPrepare, Quits, Idle
  <2>2. n \in 1 .. MaxCommands /\ n \in 0 .. MaxCommands
    BY <1>4, <2>1
  <2>3. x \in Slot /\ x.mgr /\ x.len = n
    BY <1>1, <2>1, <2>2, EditsTyped
  <2>4. x.len > 0
    BY <2>2, <2>3
  <2> HIDE DEF x
  <2>5. ListInv' /\ slot'[s] = x
    BY <1>1, <2>1, <2>3, <2>4, Edited
  <2>6. slot'[s].mgr /\ slot'[s].len = n /\ cmd' \in 1 .. slot'[s].len
    BY <2>1, <2>2, <2>3, <2>5
  <2>7. loopRest' \in 0 .. MaxLoops /\ rfUid' = "none"
    BY <1>2, <2>1 DEF WorkTyped
  <2>8. WorkInv'
    BY <1>1, <1>3, <1>6, <2>1, <2>2, <2>6, <2>7
  <2> QED BY <2>5, <2>8 DEF IInv
<1>9. ASSUME MenuRecordStop PROVE IInv'
  <2>1. PICK n \in 0 .. r.len :
          UpdateSlot(s, IF n = 0 THEN Cleared(r) ELSE [r EXCEPT !.len = n])
    BY <1>9 DEF MenuRecordStop, RecordStop, Acting
  <2> DEFINE x == IF n = 0 THEN Cleared(r) ELSE [r EXCEPT !.len = n]
  <2>2. UNCHANGED <<live, pool, rootData, menuVars>> /\ actionType = "record"
        /\ actionType' = "none" /\ cmd' = 0 /\ UNCHANGED <<actionData, loopRest, rfUid>>
    BY <1>9 DEF MenuRecordStop, RecordStop
  <2>3. x \in Slot /\ (x.mgr => x.len > 0)
    <3>1. n \in 0 .. MaxCommands
      BY <1>4
    <3>2. Cleared(r) \in Slot /\ ~Cleared(r).mgr
      BY <1>4, ClearedTyped
    <3>3. [r EXCEPT !.len = n] \in Slot /\ [r EXCEPT !.len = n].len = n
      BY <1>1, <3>1, EditsTyped
    <3> QED BY <3>1, <3>2, <3>3
  <2> HIDE DEF x
  <2>4. ListInv'
    BY <1>1, <2>1, <2>2, <2>3, Edited DEF x
  <2>5. WorkInv'
    BY <1>2, <1>5, <2>2
  <2> QED BY <2>4, <2>5 DEF IInv
<1>10. ASSUME MenuRun PROVE IInv'
  <2>1. /\ UNCHANGED <<listVars, menuVars>> /\ r.mgr /\ mode' = "game"
        /\ actionData' = s /\ actionType' = "trace" /\ rfUid' \in {"live", "none"}
        /\ cmd' = (IF r.len = 0 THEN 0 ELSE 1) /\ loopRest' = r.loopNum
    BY <1>10 DEF MenuRun, TracePrepare, Quits
  <2>2. ListInv'
    BY <1>1, <2>1, ListKept DEF IInv
  <2>3. slot' = slot /\ live' = live
    BY <2>1 DEF listVars
  <2>4. slot'[s].mgr /\ slot'[s].len \in 1 .. MaxCommands /\ cmd' \in 1 .. slot'[s].len
    BY <1>4, <2>1, <2>3
  <2>5. WorkInv'
    BY <1>1, <1>4, <1>6, <2>1, <2>3, <2>4
  <2> QED BY <2>2, <2>5 DEF IInv
<1>11. ASSUME MenuStop PROVE IInv'
  <2>1. UNCHANGED <<listVars, menuVars, mode>> /\ TraceEnd
    BY <1>11 DEF MenuStop, TraceStop, Stays
  <2>2. ListInv'
    BY <2>1, ListKept DEF IInv
  <2>3. WorkInv'
    BY <1>5, <2>1 DEF TraceEnd
  <2> QED BY <2>2, <2>3 DEF IInv
<1> QED BY <1>3, <1>7, <1>8, <1>9, <1>10, <1>11

\* The other steps of the menu: it is opened and closed, the engine is switched, slots
\* are added, removed and selected.
LEMMA MenuListStep ==
  ASSUME IInv, Undisturbed,
         MenuOpen \/ MenuClose \/ MenuEngine \/ MenuAdd \/ MenuRemove \/ MenuSlot
  PROVE  IInv' /\ Moves
<1>1. ListInv /\ WorkInv /\ WorkTyped /\ Shared
  BY DEF IInv, WorkInv
<1>2. /\ UNCHANGED <<workVars, hotkeyAccept, message, game, pressed, fault>>
      /\ pressed \in Keys \cup {NoKey} /\ enabled \in BOOLEAN
      /\ actionType # "none" => actionData \in live
  BY <1>1 DEF MenuOpen, MenuClose, MenuEngine, MenuAdd, MenuRemove, MenuSlot, Stays, WorkTyped,
              Shared, ActionPrepared
<1>3. mode # "game" => message = "none" /\ game = "idle"
  BY <1>1 DEF Shared
<1>4. ASSUME UNCHANGED listVars
      PROVE  actionType # "none" => Keeps(actionData)
  BY <1>2, <1>4 DEF Keeps, listVars
<1>5. ASSUME MenuOpen PROVE IInv' /\ Moves
  <2>1. /\ mode = "game" /\ mode' = "menu" /\ message = "none" /\ enabled' = enabled
        /\ UNCHANGED listVars /\ selectedData' = selectedData
        /\ selectedIndex' = IF selectedData \in Listed THEN Place(selectedData) - 1 ELSE 0
    BY <1>5 DEF MenuOpen
  <2>2. Listed = live /\ (live # {} => selectedData \in live) /\ Size \in Nat
    BY <1>1, ListedIsLive, SizeIsNat DEF ListInv, Memory
  <2>3. live # {} => Place(selectedData) \in 1 .. Size
    BY <1>1, <2>2, PlaceTyped
  <2>4. selectedIndex' \in 0 .. Size
    BY <2>1, <2>2, <2>3
  <2>5. live # {} => selectedIndex' = Place(selectedData') - 1
    BY <2>1, <2>2
  <2>6. ListInv'
    BY <1>1, <2>1, <2>2, <2>4, <2>5, ListSelect
  <2>7. game = "idle"
    BY <1>2, <2>1 DEF Undisturbed
  <2>8. WorkInv'
    BY <1>1, <1>2, <1>4, <2>1, <2>7, WorkKept
  <2> QED BY <2>1, <2>6, <2>8 DEF IInv, Moves, listVars
<1>6. ASSUME MenuClose PROVE IInv' /\ Moves
  <2>1. UNCHANGED <<listVars, menuVars, enabled>> /\ mode = "menu" /\ mode' = "game"
    BY <1>6 DEF MenuClose
  <2>2. ListInv'
    BY <1>1, <2>1, ListKept
  <2>3. WorkInv'
    BY <1>1, <1>2, <1>4, <2>1, WorkKept
  <2> QED BY <2>1, <2>2, <2>3 DEF IInv, Moves, listVars
<1>7. ASSUME MenuEngine PROVE IInv' /\ Moves
  <2>1. UNCHANGED <<listVars, menuVars, mode>> /\ enabled' \in BOOLEAN
    BY <1>2, <1>7 DEF MenuEngine
  <2>2. ListInv'
    BY <1>1, <2>1, ListKept
  <2>3. WorkInv'
    BY <1>1, <1>2, <1>4, <2>1, WorkKept
  <2> QED BY <2>1, <2>2, <2>3 DEF IInv, Moves, listVars
<1>8. ASSUME MenuAdd PROVE IInv' /\ Moves
  <2>1. AddSlot /\ mode = "menu" /\ mode' = "menu" /\ enabled' = enabled
    BY <1>8 DEF MenuAdd, Stays
  <2>2. /\ ListInv' /\ Moves
        /\ \A t \in live : Keeps(t)
    BY <1>1, <2>1, Added DEF Moves
  <2>3. WorkInv'
    BY <1>1, <1>2, <1>3, <2>1, <2>2, WorkKept
  <2> QED BY <2>2, <2>3 DEF IInv
<1>9. ASSUME MenuRemove PROVE IInv' /\ Moves
  <2>1. selectedData \in live /\ ~Acting /\ enabled' = enabled /\ mode' = mode
    BY <1>9 DEF MenuRemove, Selecting, Stays
  <2>2. RemoveSelected /\ mode = "menu" /\ mode' = "menu" /\ live # {}
    BY <1>9 DEF MenuRemove, Selecting, Stays
  <2>3. ListInv' /\ Shrinks /\ \A t \in live : t # selectedData => Keeps(t)
    BY <1>1, <2>2, Removed
  <2>4. actionType # "none" => Keeps(actionData)
    BY <1>2, <2>1, <2>3 DEF Acting, Idle
  <2>5. WorkInv'
    BY <1>1, <1>2, <2>1, <2>4, WorkKept
  <2> QED BY <2>3, <2>5 DEF IInv, Moves
<1>10. ASSUME MenuSlot PROVE IInv' /\ Moves
  <2>1. UNCHANGED listVars /\ mode' = mode /\ enabled' = enabled
    BY <1>10 DEF MenuSlot, Stays
  <2>2. ListInv'
    BY <1>1, <1>10, MenuSlotInv
  <2>3. WorkInv'
    BY <1>1, <1>2, <1>4, <2>1, WorkKept
  <2> QED BY <2>1, <2>2, <2>3 DEF IInv, Moves, listVars
<1> QED BY <1>5, <1>6, <1>7, <1>8, <1>9, <1>10

\* macroMain, in the syscon interrupt or in a game thread.
LEMMA MainStep ==
  ASSUME IInv, Undisturbed, ClearsNoNeighbour, HotkeysRepeat, Interrupt \/ GameRun
  PROVE  IInv' /\ UNCHANGED <<live, rootData>>
<1>1. ListInv /\ WorkInv /\ WorkTyped /\ Shared
  BY DEF IInv, WorkInv
<1>2. /\ MacroMain(actionType) /\ mode = "game" /\ mode' = "game" /\ message # "stopping"
      /\ UNCHANGED <<enabled, mode, message, pressed>> /\ game' = "idle"
  BY <1>1 DEF Interrupt, GameRun, Undisturbed, Shared
<1>3. WorkInv'
  BY <1>2, MainWork
<1>4. CASE actionType = "record" /\ cmd # 0 /\ actionData \in live
  <2>1. MainRecord
    BY <1>2, <1>4 DEF MacroMain
  <2>2. PICK n \in slot[actionData].len .. slot[actionData].len + 3 :
          n <= MaxCommands /\ slot' = [slot EXCEPT ![actionData].len = n]
    BY <1>4, <2>1 DEF MainRecord
  <2> DEFINE s == actionData
             x == [slot[s] EXCEPT !.len = n]
  <2>3. UNCHANGED <<live, pool, rootData, managers, menuVars>>
    BY <1>4, <2>1 DEF MainRecord
  <2>4. /\ s \in live /\ s \in Slots /\ slot[s] \in Slot /\ slot[s].len \in Nat /\ slot[s].len > 0
        /\ slot[s].mgr
    <3>1. s \in Slots /\ slot[s] \in Slot
      BY <1>1, <1>4 DEF ListInv, ListTyped
    <3>2. slot[s].mgr /\ cmd \in 1 .. slot[s].len
      BY <1>1, <1>4 DEF Shared, ActionPrepared
    <3>3. slot[s].len \in 0 .. MaxCommands
      BY <3>1 DEF Slot
    <3> QED BY <1>4, <3>1, <3>2, <3>3
  <2>5. n \in 0 .. MaxCommands /\ n > 0
    BY <2>2, <2>4, BoundsAssumption
  <2>6. x \in Slot /\ x.mgr = slot[s].mgr /\ x.len = n
    BY <2>4, <2>5 DEF Slot
  <2>7. UpdateSlot(s, x)
    <3>1. managers \in 0 .. MaxManagers /\ MaxManagers \in Nat
      BY <1>1, BoundsAssumption DEF ListInv, ListTyped
    <3>2. managers' = managers + One(x.mgr) - One(slot[s].mgr) /\ managers' <= MaxManagers
      BY <2>3, <2>6, <3>1 DEF One
    <3>3. slot' = [slot EXCEPT ![s] = x]
      BY <2>2
    <3> QED BY <3>2, <3>3 DEF UpdateSlot
  <2> HIDE DEF x
  <2>8. ListInv'
    BY <1>1, <1>2, <2>3, <2>4, <2>5, <2>6, <2>7, SlotUpdated
  <2> QED BY <1>3, <2>3, <2>8 DEF IInv
<1>5. CASE ~(actionType = "record" /\ cmd # 0 /\ actionData \in live)
  <2>1. /\ UNCHANGED listVars
        /\ \/ UNCHANGED menuVars
           \/ selectedData' = selectedData /\ selectedIndex' = Cardinality(Listed)
           \/ \E s \in Listed : selectedData' = s /\ selectedIndex' = Place(s) - 1
    <3>1. CASE MainRecord /\ actionType = "record"
      BY <1>5, <3>1 DEF MainRecord, Fault
    <3>2. CASE MainTrace
      BY <3>2 DEF MainTrace, Fault
    <3>3. CASE MainWait
      BY <3>3 DEF MainWait, SearchFails, HotkeyStart, Fault
    <3> QED BY <1>2, <3>1, <3>2, <3>3 DEF MacroMain
  <2>2. Listed = live /\ Cardinality(Listed) \in 0 .. Size /\ Size \in Nat
    BY <1>1, ListedIsLive, SizeIsNat
  <2>3. ListInv'
    <3>1. CASE UNCHANGED menuVars
      BY <1>1, <1>2, <2>1, <3>1, ListKept
    <3>2. CASE selectedData' = selectedData /\ selectedIndex' = Cardinality(Listed)
      <4>1. live # {} => selectedData \in live
        BY <1>1 DEF ListInv, Memory
      <4> QED BY <1>1, <1>2, <2>1, <2>2, <3>2, <4>1, ListSelect
    <3>3. ASSUME NEW s \in Listed, selectedData' = s, selectedIndex' = Place(s) - 1
          PROVE  ListInv'
      <4>1. s \in live /\ Place(s) \in 1 .. Size
        BY <1>1, <2>2, <3>3, PlaceTyped
      <4>2. selectedIndex' \in 0 .. Size
        BY <2>2, <3>3, <4>1
      <4> QED BY <1>1, <1>2, <2>1, <3>3, <4>1, <4>2, ListSelect
    <3> QED BY <2>1, <3>1, <3>2, <3>3
  <2> QED BY <1>3, <2>1, <2>3 DEF IInv, listVars
<1> QED BY <1>4, <1>5

\* A game thread enters macroMain; the user presses buttons.
LEMMA OtherStep ==
  ASSUME IInv, Undisturbed, GameEnter \/ \E k \in Keys \cup {NoKey} : Press(k)
  PROVE  IInv' /\ UNCHANGED <<live, rootData>>
<1>1. ListInv /\ WorkInv /\ WorkTyped /\ Shared
  BY DEF IInv, WorkInv
<1>2. UNCHANGED <<listVars, menuVars, workVars, hotkeyAccept, enabled, mode, message, fault>>
  BY DEF GameEnter, Press
<1>3. ListInv'
  BY <1>1, <1>2, ListKept
<1>4. \/ game' = game /\ pressed' \in Keys \cup {NoKey}
      \/ mode = "game" /\ game = "idle" /\ game' = actionType /\ pressed' = pressed
  BY DEF GameEnter, Press
<1>5. WorkTyped'
  BY <1>1, <1>2, <1>4 DEF WorkTyped, workVars
<1>6. game' # "idle" => message # "stopping"
  BY <1>1, <1>2, <1>4 DEF Undisturbed, Shared
<1>7. Shared'
  BY <1>1, <1>2, <1>4, <1>6 DEF Shared, ActionPrepared, NoFault, listVars, workVars
<1> QED BY <1>2, <1>3, <1>5, <1>7 DEF IInv, WorkInv, listVars

\* Every step of the program used with care.
LEMMA NextIInv ==
  ASSUME IInv, [CarefulNext]_vars
  PROVE  IInv' /\ Moves
<1>1. ASSUME CarefulNext PROVE IInv' /\ Moves
  <2>1. Undisturbed /\ ClearsNoNeighbour /\ HotkeysRepeat
    BY <1>1 DEF CarefulNext
  <2>2. CASE Boot
    BY <2>1, <2>2, BootStep
  <2>3. CASE Toggle \/ ToggleMessage \/ ToggleStop
    BY <2>1, <2>3, ToggleStep DEF Moves
  <2>4. CASE Menu
    <3>1. CASE MenuOpen \/ MenuClose \/ MenuEngine \/ MenuAdd \/ MenuRemove \/ MenuSlot
      BY <2>1, <3>1, MenuListStep
    <3>2. CASE MenuHotkey \/ MenuLoop \/ MenuLoad \/ MenuEdit \/ MenuClear
      BY <2>1, <3>2, MenuEditStep DEF Moves
    <3>3. CASE MenuRecord \/ MenuAppend \/ MenuRecordStop \/ MenuRun \/ MenuStop
      BY <2>1, <3>3, MenuWorkStep DEF Moves
    <3> QED BY <2>4, <3>1, <3>2, <3>3 DEF Menu
  <2>5. CASE Interrupt \/ GameRun
    BY <2>1, <2>5, MainStep DEF Moves
  <2>6. CASE GameEnter \/ \E k \in Keys \cup {NoKey} : Press(k)
    BY <2>1, <2>6, OtherStep DEF Moves
  <2> QED BY <1>1, <2>2, <2>3, <2>4, <2>5, <2>6 DEF CarefulNext, Next
<1>2. ASSUME UNCHANGED vars PROVE IInv' /\ Moves
  <2>1. UNCHANGED <<listVars, menuVars, workVars, hotkeyAccept, enabled, mode, message, game,
                    pressed, fault>>
    BY <1>2 DEF vars
  <2>2. ListInv'
    BY <2>1, ListKept DEF IInv
  <2>3. WorkInv'
    BY <2>1 DEF IInv, WorkInv, WorkTyped, Shared, ActionPrepared, NoFault, listVars, workVars
  <2> QED BY <2>1, <2>2, <2>3 DEF IInv, Moves, listVars
<1> QED BY <1>1, <1>2

-----------------------------------------------------------------------------
(* The theorems. *)

\* The strengthened invariant of the program used with care.
THEOREM Invariant == CarefulSpec => []IInv
<1>1. Init => IInv
  BY InitIInv
<1>2. IInv /\ [CarefulNext]_vars => IInv'
  BY NextIInv
<1> QED BY <1>1, <1>2, PTL DEF CarefulSpec

\* Every variable keeps its type; what is selected is one of the slots or none.
THEOREM TypeCorrect == CarefulSpec => []TypeOK
<1>1. IInv => TypeOK
  BY DEF IInv, ListInv, WorkInv, ListTyped, WorkTyped, TypeOK, Size
<1> QED BY <1>1, Invariant, PTL

\* The slots in memory are those on the list, which can be walked in both directions,
\* and the menu shows the selected one with its number, whatever is recorded, run, added
\* or removed meanwhile.
THEOREM ListIsWellLinked == CarefulSpec => []WellLinked
<1>1. IInv => WellLinked
  <2> SUFFICES ASSUME IInv PROVE WellLinked
    OBVIOUS
  <2>1. ListInv
    BY DEF IInv
  <2>2. PICK k \in 0 .. Size : \E q \in [1 .. k -> Slots] : Chain(k, q) /\ Numbered(k, q)
    BY <2>1 DEF ListInv, Linked
  <2>3. PICK q \in [1 .. k -> Slots] : Chain(k, q) /\ Numbered(k, q)
    BY <2>2
  <2>4. Listed = live /\ \A i \in 1 .. k : Place(q[i]) = i
    BY <2>3, SizeIsNat, Places
  <2>5. live = {} <=> k = 0
    BY <2>3 DEF Chain
  <2>6. live = {} <=> rootData = Null
    BY <2>3, <2>5, NullAssumption DEF Chain
  <2>7. rootData # Null => slot[rootData].prev = Null
    BY <2>3, <2>5, <2>6 DEF Chain
  <2>8. ASSUME NEW s \in live, slot[s].next # Null PROVE slot[slot[s].next].prev = s
    <3>1. PICK i \in 1 .. k : s = q[i]
      BY <2>3 DEF Chain
    <3>2. i # k /\ slot[s].next = q[i + 1]
      BY <2>3, <2>8, <3>1 DEF Chain
    <3>3. i + 1 \in 1 .. k /\ i + 1 # 1 /\ (i + 1) - 1 = i
      BY <3>2
    <3> QED BY <2>3, <3>1, <3>2, <3>3 DEF Chain
  <2>9. ASSUME mode = "menu", live # {} PROVE selectedIndex = Place(selectedData) - 1
    <3>1. selectedIndex \in 0 .. k - 1 /\ q[selectedIndex + 1] = selectedData
      BY <2>3, <2>5, <2>9 DEF Numbered
    <3>2. selectedIndex + 1 \in 1 .. k /\ (selectedIndex + 1) - 1 = selectedIndex
      BY <3>1
    <3> QED BY <2>4, <3>1, <3>2
  <2>10. (live # {} => pool) /\ IF live = {} THEN selectedData = Null ELSE selectedData \in live
    BY <2>1 DEF ListInv, Memory
  <2> QED BY <2>4, <2>6, <2>7, <2>8, <2>9, <2>10 DEF WellLinked
<1> QED BY <1>1, Invariant, PTL

\* What is recorded or run is a slot on the list with the command that temp->cmd is, and
\* no rapid fire outlives the run it was made for, in any order of the menu's entries,
\* toggles, hotkeys and packets that CarefulSpec has: macroMain and macro_trace_stop run to
\* their end, a slot is cleared or loaded without neighbours, hotkeys are on repeated macros.
THEOREM WorkIsPrepared == CarefulSpec => []ActionPrepared
<1>1. IInv => ActionPrepared
  BY DEF IInv, WorkInv, Shared
<1> QED BY <1>1, Invariant, PTL

\* In the same orders of steps macroMain finds the slot, the macro, the command and the
\* rapid fire that it uses; what it reads of a slot removed while its hotkey was held
\* (macro.c:231) is anything, and leads to nothing else.
THEOREM NoInvalidPointer == CarefulSpec => []NoFault
<1>1. IInv => NoFault
  BY DEF IInv, WorkInv, Shared
<1> QED BY <1>1, Invariant, PTL

-----------------------------------------------------------------------------
(* The pointers implement a sequence. *)

\* The sequence of the slots is what the pointers spell out.
LEMMA Spelled ==
  \A k \in 0 .. Size : \A q \in [1 .. k -> Slots] : Chain(k, q) => SlotSequence = q
<1> SUFFICES ASSUME NEW k \in 0 .. Size, NEW q \in [1 .. k -> Slots], Chain(k, q)
             PROVE  SlotSequence = q
  OBVIOUS
<1>1. Size \in Nat /\ Cardinality(Listed) = k
  BY SizeIsNat, Places, Counted
<1>2. \A n \in 1 .. k : Nth[n] = q[n]
  BY <1>1, Walk
<1> QED BY <1>1, <1>2 DEF SlotSequence

\* The same of the next state.
LEMMA SpelledNext ==
  \A k \in 0 .. Size : \A q \in [1 .. k -> Slots] : Chain(k, q)' => SlotSequence' = q
<1>1. (\A k \in 0 .. Size : \A q \in [1 .. k -> Slots] : Chain(k, q) => SlotSequence = q)'
  BY Spelled, PTL
<1> QED BY <1>1 DEF Size

\* A sequence with one more element, and without one of its elements.
LEMMA AsSequence ==
  ASSUME NEW k \in Nat, NEW q \in [1 .. k -> Slots]
  PROVE  /\ q \in Seq(Slots) /\ Len(q) = k
         /\ \A s \in Slots : Append(q, s) = Longer(k, q, s)
         /\ \A m \in 1 .. k : ListView!Without(q, m) = Shorter(k, q, m)
<1>1. q \in Seq(Slots) /\ Len(q) = k
  OBVIOUS
<1>2. ASSUME NEW s \in Slots PROVE Append(q, s) = Longer(k, q, s)
  <2>1. /\ Append(q, s) \in Seq(Slots) /\ Len(Append(q, s)) = k + 1
        /\ \A i \in 1 .. k + 1 : Append(q, s)[i] = IF i = k + 1 THEN s ELSE q[i]
    BY <1>1, AppendProperties
  <2>2. Longer(k, q, s) \in Seq(Slots) /\ Len(Longer(k, q, s)) = k + 1
    BY DEF Longer
  <2>3. \A i \in 1 .. k + 1 : Append(q, s)[i] = Longer(k, q, s)[i]
    BY <2>1 DEF Longer
  <2> QED BY <2>1, <2>2, <2>3, SeqEqual
<1>3. ASSUME NEW m \in 1 .. k PROVE ListView!Without(q, m) = Shorter(k, q, m)
  <2> DEFINE L == SubSeq(q, 1, m - 1)
             R == SubSeq(q, m + 1, Len(q))
  <2>1. L \in Seq(Slots) /\ Len(L) = m - 1 /\ \A i \in 1 .. m - 1 : L[i] = q[i]
    BY <1>1, SubSeqProperties
  <2>2. R \in Seq(Slots) /\ Len(R) = k - m /\ \A i \in 1 .. k - m : R[i] = q[m + i]
    BY <1>1, SubSeqProperties
  <2> HIDE DEF L, R
  <2>3. /\ L \o R \in Seq(Slots) /\ Len(L \o R) = k - 1
        /\ \A i \in 1 .. k - 1 : (L \o R)[i] = IF i <= m - 1 THEN L[i] ELSE R[i - (m - 1)]
    BY <2>1, <2>2, ConcatProperties
  <2>4. ASSUME NEW i \in 1 .. k - 1 PROVE (L \o R)[i] = Shorter(k, q, m)[i]
    <3>1. Shorter(k, q, m)[i] = IF i < m THEN q[i] ELSE q[i + 1]
      BY DEF Shorter
    <3>2. (L \o R)[i] = IF i <= m - 1 THEN L[i] ELSE R[i - (m - 1)]
      BY <2>3
    <3>3. CASE i < m
      <4>1. i \in 1 .. m - 1 /\ i <= m - 1
        BY <3>3
      <4>2. (L \o R)[i] = q[i]
        BY <2>1, <3>2, <4>1
      <4> QED BY <3>1, <3>3, <4>2
    <3>4. CASE i >= m
      <4>1. i - (m - 1) \in 1 .. k - m /\ m + (i - (m - 1)) = i + 1 /\ ~(i <= m - 1) /\ ~(i < m)
        BY <3>4
      <4>2. (L \o R)[i] = q[i + 1]
        BY <2>2, <3>2, <4>1
      <4> QED BY <3>1, <4>1, <4>2
    <3>5. i < m \/ i >= m
      OBVIOUS
    <3> QED BY <3>3, <3>4, <3>5
  <2>5. Shorter(k, q, m) \in Seq(Slots) /\ Len(Shorter(k, q, m)) = k - 1
    <3>1. \A i \in 1 .. k - 1 : i \in 1 .. k /\ i + 1 \in 1 .. k
      OBVIOUS
    <3>2. k - 1 \in Nat /\ Shorter(k, q, m) \in [1 .. k - 1 -> Slots]
      BY <3>1 DEF Shorter
    <3> QED BY <3>2
  <2>6. L \o R = Shorter(k, q, m)
    BY <2>3, <2>4, <2>5, SeqEqual
  <2> QED BY <2>6 DEF ListView!Without, L, R
<1> QED BY <1>1, <1>2, <1>3

\* The slots linked by pointers implement the sequence that the user knows: every step
\* of the program adds a slot at the end, removes the selected one, selects one or
\* changes nothing in it.
THEOREM ListRefines == CarefulSpec => ImplementsList
<1>1. Init => ListView!Init
  <2> SUFFICES ASSUME Init PROVE ListView!Init
    OBVIOUS
  <2> DEFINE q == [i \in 1 .. 0 |-> Null]
  <2>1. 0 \in 0 .. Size /\ q \in [1 .. 0 -> Slots] /\ q = <<>>
    BY SizeIsNat
  <2>2. Chain(0, q)
    BY DEF Chain, Init
  <2>3. SlotSequence = <<>>
    BY <2>1, <2>2, Spelled
  <2> QED BY <2>3 DEF ListView!Init, Init
<1>2. IInv /\ [CarefulNext]_vars => [ListView!Next]_(ListView!vars)
  <2> SUFFICES ASSUME IInv, [CarefulNext]_vars PROVE [ListView!Next]_(ListView!vars)
    OBVIOUS
  <2>1. IInv' /\ Moves /\ Size \in Nat
    BY NextIInv, SizeIsNat
  <2>2. CASE Grows
    <3>1. PICK k \in 0 .. Size : \E q \in [1 .. k -> Slots] : \E s \in Slots \ live :
            /\ Chain(k, q) /\ Chain(k + 1, Longer(k, q, s))' /\ k + 1 <= Size
            /\ selectedData' = s
      BY <2>2 DEF Grows
    <3>2. PICK q \in [1 .. k -> Slots] : \E s \in Slots \ live :
            /\ Chain(k, q) /\ Chain(k + 1, Longer(k, q, s))' /\ k + 1 <= Size
            /\ selectedData' = s
      BY <3>1
    <3>3. PICK s \in Slots \ live :
            /\ Chain(k, q) /\ Chain(k + 1, Longer(k, q, s))' /\ k + 1 <= Size
            /\ selectedData' = s
      BY <3>2
    <3>4. Longer(k, q, s) \in [1 .. k + 1 -> Slots] /\ k + 1 \in 0 .. Size
      BY <2>1, <3>3 DEF Longer
    <3>5. SlotSequence = q /\ SlotSequence' = Longer(k, q, s)
      BY <3>3, <3>4, Spelled, SpelledNext
    <3>6. Len(q) = k /\ SlotSequence' = Append(q, s)
      BY <2>1, <3>5, AsSequence
    <3>7. ~ListView!In(s, q)
      BY <3>3, <3>6 DEF ListView!In, Chain
    <3>8. ListView!Add(s)
      BY <3>3, <3>5, <3>6, <3>7 DEF ListView!Add
    <3> QED BY <3>8 DEF ListView!Next
  <2>3. CASE Shrinks
    <3>1. PICK k \in 1 .. Size : \E q \in [1 .. k -> Slots] : \E m \in 1 .. k :
            /\ Chain(k, q) /\ Chain(k - 1, Shorter(k, q, m))'
            /\ q[m] = selectedData
            /\ selectedData' = IF k = 1 THEN Null ELSE IF m = k THEN q[m - 1] ELSE q[m + 1]
      BY <2>3 DEF Shrinks
    <3>2. PICK q \in [1 .. k -> Slots] : \E m \in 1 .. k :
            /\ Chain(k, q) /\ Chain(k - 1, Shorter(k, q, m))'
            /\ q[m] = selectedData
            /\ selectedData' = IF k = 1 THEN Null ELSE IF m = k THEN q[m - 1] ELSE q[m + 1]
      BY <3>1
    <3>3. PICK m \in 1 .. k :
            /\ Chain(k, q) /\ Chain(k - 1, Shorter(k, q, m))'
            /\ q[m] = selectedData
            /\ selectedData' = IF k = 1 THEN Null ELSE IF m = k THEN q[m - 1] ELSE q[m + 1]
      BY <3>2
    <3>4. Shorter(k, q, m) \in [1 .. k - 1 -> Slots] /\ k - 1 \in 0 .. Size /\ k \in 0 .. Size
      <4>1. \A i \in 1 .. k - 1 : i \in 1 .. k /\ i + 1 \in 1 .. k
        OBVIOUS
      <4> QED BY <2>1, <4>1 DEF Shorter
    <3>5. SlotSequence = q /\ SlotSequence' = Shorter(k, q, m)
      BY <3>3, <3>4, Spelled, SpelledNext
    <3>6. Len(q) = k /\ SlotSequence' = ListView!Without(q, m)
      BY <2>1, <3>5, AsSequence
    <3>7. SlotSequence' = <<>> <=> k = 1
      <4>1. Shorter(k, q, m) \in Seq(Slots) /\ Len(Shorter(k, q, m)) = k - 1
        BY <2>1, <3>4
      <4> QED BY <3>5, <4>1
    <3>8. ListView!Remove
      BY <3>3, <3>5, <3>6, <3>7 DEF ListView!Remove
    <3> QED BY <3>8 DEF ListView!Next
  <2>4. CASE UNCHANGED <<live, rootData>>
    <3>1. PICK k \in 0 .. Size : \E q \in [1 .. k -> Slots] : Chain(k, q) /\ Numbered(k, q)
      BY DEF IInv, ListInv, Linked
    <3>2. PICK q \in [1 .. k -> Slots] : Chain(k, q) /\ Numbered(k, q)
      BY <3>1
    <3>3. Chain(k, q)'
      <4>1. \A t \in live : slot'[t].next = slot[t].next /\ slot'[t].prev = slot[t].prev
        BY <2>4 DEF CarefulNext, ClearsNoNeighbour, vars, listVars
      <4>2. \A i \in 1 .. k : q[i] \in live
        BY <3>2 DEF Chain
      <4> QED BY <2>4, <3>2, <4>1, <4>2 DEF Chain
    <3>4. SlotSequence = q /\ SlotSequence' = q /\ Len(q) = k
      BY <2>1, <3>2, <3>3, Spelled, SpelledNext, AsSequence
    <3>5. CASE live = {}
      BY <2>1, <2>4, <3>4, <3>5 DEF IInv, ListInv, Memory, ListView!vars
    <3>6. CASE live # {}
      <4>1. selectedData' \in live
        BY <2>1, <2>4, <3>6 DEF IInv, ListInv, Memory
      <4>2. ListView!In(selectedData', SlotSequence) /\ selectedData' \in Slots
        BY <3>2, <3>4, <4>1 DEF ListView!In, Chain, IInv, ListInv, ListTyped
      <4>3. ListView!Select(selectedData')
        BY <3>4, <4>2 DEF ListView!Select
      <4> QED BY <4>2, <4>3 DEF ListView!Next
    <3> QED BY <3>5, <3>6
  <2> QED BY <2>1, <2>2, <2>3, <2>4 DEF Moves
<1> QED BY <1>1, <1>2, Invariant, PTL DEF CarefulSpec, ImplementsList, ListView!Spec
=============================================================================
