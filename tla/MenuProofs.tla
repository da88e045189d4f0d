----------------------------- MODULE MenuProofs -----------------------------
(***************************************************************************)
(* Proofs about the menu, its pages and its dialogs, for any values of     *)
(* their constants, each by itself as in UnitProofs: the menu loop (Menu), *)
(* its items (Controls) and the names of buttons that they use (Names),    *)
(* the list of the remap function (Remap), the life of the dialogs         *)
(* (Dialogs), and of the dialogs the keys of the keyboard (SoskKeys), the  *)
(* choice of a file (Getfile) and of buttons (Detect).  The last section   *)
(* puts together what is said of several of them.                          *)
(***************************************************************************)
EXTENDS MenuParts, Sequences, FiniteSets, FiniteSetTheorems, SequenceTheorems,
        NaturalsInduction, WellFoundedInduction, TLAPS

-----------------------------------------------------------------------------
\* A set of numbers has a least one.
LEMMA Least ==
  ASSUME NEW Q \in SUBSET Nat, Q # {}
  PROVE  \E n \in Q : \A m \in Q : n <= m
<1> DEFINE Rel == OpToRel(<, Nat)
<1>1. IsWellFoundedOn(Rel, Nat)
  BY NatLessThanWellFounded
<1>2. \A m, n \in Nat : m < n => <<m, n>> \in Rel
  BY DEF OpToRel
<1> HIDE DEF Rel
<1>3. PICK n \in Q : \A m \in Q : <<m, n>> \notin Rel
  BY <1>1, WFMin
<1>4. \A m \in Q : ~(m < n)
  BY <1>2, <1>3
<1>5. \A m \in Q : n <= m
  BY <1>4
<1> QED BY <1>5

\* A fold over a set: c[s] is the element of s that is taken last, and G[<<s, x>>] what it makes
\* of x, which the fold of the others has made; steps that end in X when they begin in it.
Takes(c, S) == \A s \in SUBSET S : s # {} => c[s] \in s
Closed(G, S, X) == \A s \in SUBSET S, x \in X : s # {} => G[<<s, x>>] \in X
Folds(it, S, base, c, G) ==
  \A s \in SUBSET S : it[s] = IF s = {} THEN base ELSE G[<<s, it[s \ {c[s]}]>>]

IsFold(it, S, X, base, c, G) ==
  /\ IsFiniteSet(S) /\ base \in X /\ Takes(c, S)
  /\ it \in [SUBSET S -> X] /\ Folds(it, S, base, c, G)

\* What does the same as far as it is known to be in X.
FoldsIn(X, of, S, base, c, G) ==
  /\ of[{}] = base
  /\ \A s \in SUBSET S : s # {} /\ of[s \ {c[s]}] \in X => of[s] = G[<<s, of[s \ {c[s]}]>>]

\* The function that a fold over a finite set recurs on exists, and has its values in X.
LEMMA FoldExists ==
  ASSUME NEW S, IsFiniteSet(S), NEW X, NEW base \in X,
         NEW c, Takes(c, S), NEW G, Closed(G, S, X)
  PROVE  \E it \in [SUBSET S -> X] : Folds(it, S, base, c, G)
<1> USE DEF Takes, Closed, Folds
<1> DEFINE Below(n) == {s \in SUBSET S : Cardinality(s) <= n}
           Good(n)  == \E it \in [Below(n) -> X] : \A s \in Below(n) :
                         it[s] = IF s = {} THEN base ELSE G[<<s, it[s \ {c[s]}]>>]
           Bad == {n \in Nat : ~Good(n)}
<1>1. \A s \in SUBSET S : IsFiniteSet(s) /\ Cardinality(s) \in Nat
  BY FS_Subset, FS_CardinalityType
<1>2. \A s \in SUBSET S : s # {} => /\ c[s] \in s /\ s \ {c[s]} \in SUBSET S
                                    /\ Cardinality(s \ {c[s]}) = Cardinality(s) - 1
  BY <1>1, FS_RemoveElement
<1>3. \A s \in SUBSET S : Cardinality(s) = 0 <=> s = {}
  BY <1>1, FS_EmptySet
<1>4. Good(0)
  <2>1. \A s : s \in Below(0) <=> s = {}
    <3>1. \A s \in SUBSET S : Cardinality(s) <= 0 <=> Cardinality(s) = 0
      BY <1>1
    <3> QED BY <3>1, <1>3
  <2>2. [s \in Below(0) |-> base] \in [Below(0) -> X]
    OBVIOUS
  <2> QED BY <2>1, <2>2
<1>5. ASSUME NEW n \in Nat, Good(n) PROVE Good(n + 1)
  <2>1. PICK it \in [Below(n) -> X] : \A s \in Below(n) :
          it[s] = IF s = {} THEN base ELSE G[<<s, it[s \ {c[s]}]>>]
    BY <1>5
  <2> DEFINE more == [s \in Below(n + 1) |->
                        IF s \in Below(n) THEN it[s] ELSE G[<<s, it[s \ {c[s]}]>>]]
  <2>2. ASSUME NEW s \in Below(n + 1), s # {} PROVE s \ {c[s]} \in Below(n)
    <3>1. s \in SUBSET S /\ Cardinality(s) \in Nat /\ Cardinality(s) <= n + 1
      BY <1>1
    <3>2. s \ {c[s]} \in SUBSET S /\ Cardinality(s \ {c[s]}) = Cardinality(s) - 1
      BY <1>2, <2>2
    <3> QED BY <3>1, <3>2
  <2>3. {} \in Below(n) /\ Below(n) \subseteq Below(n + 1)
    <3>1. Cardinality({}) = 0
      BY <1>3
    <3>2. ASSUME NEW s \in Below(n) PROVE s \in Below(n + 1)
      <4>1. s \in SUBSET S /\ Cardinality(s) \in Nat /\ Cardinality(s) <= n
        BY <1>1
      <4> QED BY <4>1
    <3> QED BY <3>1, <3>2
  <2>4. more \in [Below(n + 1) -> X]
    <3>1. ASSUME NEW s \in Below(n + 1) PROVE more[s] \in X
      <4>1. CASE s \in Below(n)
        BY <4>1
      <4>2. CASE s \notin Below(n)
        <5>1. s # {} /\ s \in SUBSET S
          BY <4>2, <2>3
        <5> QED BY <4>2, <5>1, <2>2
      <4> QED BY <4>1, <4>2
    <3> QED BY <3>1
  <2>5. ASSUME NEW s \in Below(n + 1)
        PROVE  more[s] = IF s = {} THEN base ELSE G[<<s, more[s \ {c[s]}]>>]
    <3>1. CASE s = {}
      BY <3>1, <2>1, <2>3
    <3>2. CASE s # {}
      <4>1. s \ {c[s]} \in Below(n)
        BY <3>2, <2>2
      <4>2. more[s \ {c[s]}] = it[s \ {c[s]}]
        BY <4>1, <2>3
      <4>3. s \in Below(n) => it[s] = G[<<s, it[s \ {c[s]}]>>]
        BY <3>2, <2>1
      <4> HIDE DEF Below
      <4> QED BY <3>2, <4>2, <4>3
    <3> QED BY <3>1, <3>2
  <2> HIDE DEF more
  <2> QED BY <2>4, <2>5
<1>6. Bad = {}
  <2> SUFFICES ASSUME Bad # {} PROVE FALSE
    OBVIOUS
  <2> HIDE DEF Good
  <2>0. Bad \in SUBSET Nat
    OBVIOUS
  <2>1. PICK n \in Bad : \A m \in Bad : n <= m
    BY <2>0, Least
  <2>2. n # 0 /\ n \in Nat /\ ~Good(n)
    BY <1>4
  <2>3. n - 1 \in Nat /\ n - 1 \notin Bad
    <3>1. n \in Nat /\ n - 1 \in Nat /\ ~(n <= n - 1)
      BY <2>2
    <3> HIDE DEF Bad
    <3> QED BY <2>1, <3>1
  <2>4. Good((n - 1) + 1)
    BY <2>3, <1>5
  <2>5. (n - 1) + 1 = n
    BY <2>2
  <2> QED BY <2>2, <2>4, <2>5
<1>7. Good(Cardinality(S))
  BY <1>1, <1>6
<1>8. Below(Cardinality(S)) = SUBSET S
  <2>1. \A s \in SUBSET S : Cardinality(s) <= Cardinality(S)
    BY FS_Subset
  <2> QED BY <2>1
<1> QED BY <1>7, <1>8

\* It is the only one: what does the same in X never leaves X.
LEMMA FoldAgrees ==
  ASSUME NEW S, NEW X, NEW base, NEW c, NEW G, NEW it, IsFold(it, S, X, base, c, G),
         NEW of, FoldsIn(X, of, S, base, c, G)
  PROVE  \A s \in SUBSET S : of[s] = it[s]
<1> USE DEF IsFold, Takes, Folds, FoldsIn
<1> DEFINE Bad == {n \in Nat : \E s \in SUBSET S : Cardinality(s) = n /\ of[s] # it[s]}
<1>1. \A s \in SUBSET S : IsFiniteSet(s) /\ Cardinality(s) \in Nat
  BY FS_Subset, FS_CardinalityType
<1>2. \A s \in SUBSET S : s # {} => /\ s \ {c[s]} \in SUBSET S
                                    /\ Cardinality(s \ {c[s]}) = Cardinality(s) - 1
  BY <1>1, FS_RemoveElement
<1>3. Bad = {}
  <2> SUFFICES ASSUME Bad # {} PROVE FALSE
    OBVIOUS
  <2>1. Bad \in SUBSET Nat
    OBVIOUS
  <2>2. PICK n \in Bad : \A m \in Bad : n <= m
    BY <2>1, Least
  <2>3. PICK s \in SUBSET S : Cardinality(s) = n /\ of[s] # it[s]
    OBVIOUS
  <2>4. s # {}
    BY <2>3, <1>1
  <2>5. s \ {c[s]} \in SUBSET S /\ of[s \ {c[s]}] = it[s \ {c[s]}]
    <3>1. s \ {c[s]} \in SUBSET S /\ Cardinality(s \ {c[s]}) = n - 1
      BY <1>2, <2>3, <2>4
    <3>2. n \in Nat /\ n - 1 \in Nat /\ ~(n <= n - 1)
      BY <3>1, <1>1, <2>1
    <3>3. n - 1 \notin Bad
      <4> HIDE DEF Bad
      <4> QED BY <2>2, <3>2
    <3> QED BY <3>1, <3>2, <3>3
  <2>6. it[s] = G[<<s, it[s \ {c[s]}]>>] /\ of[s] = G[<<s, of[s \ {c[s]}]>>]
    BY <2>4, <2>5
  <2> QED BY <2>3, <2>5, <2>6
<1> QED BY <1>1, <1>3

\* Some of the first n numbers have a greatest one.
LEMMA Greatest ==
  ASSUME NEW n \in Nat, NEW s \in SUBSET (1 .. n), s # {}
  PROVE  \E i \in s : \A j \in s : i >= j
<1> DEFINE Q == {n - i : i \in s}
<1>1. Q \in SUBSET Nat /\ Q # {}
  <2>1. \A i \in s : i \in 1 .. n
    OBVIOUS
  <2>2. \A i \in 1 .. n : n - i \in Nat
    OBVIOUS
  <2> QED BY <2>1, <2>2
<1>2. PICK m \in Q : \A k \in Q : m <= k
  BY <1>1, Least
<1>3. PICK i \in s : m = n - i
  OBVIOUS
<1>4. ASSUME NEW j \in s PROVE i >= j
  <2>1. n - j \in Q
    OBVIOUS
  <2>2. n - i <= n - j
    BY <2>1, <1>2, <1>3
  <2>3. i \in 1 .. n /\ j \in 1 .. n
    OBVIOUS
  <2> QED BY <2>2, <2>3
<1> QED BY <1>4

\* As many numbers as one counts to.
LEMMA Counted == \A n \in Nat : IsFiniteSet(1 .. n) /\ Cardinality(1 .. n) = n
<1> SUFFICES ASSUME NEW n \in Nat PROVE IsFiniteSet(1 .. n) /\ Cardinality(1 .. n) = n
  OBVIOUS
<1>1. IsFiniteSet(1 .. n) /\ Cardinality(1 .. n) = IF 1 > n THEN 0 ELSE n - 1 + 1
  BY FS_Interval
<1> QED BY <1>1

-----------------------------------------------------------------------------
(* SoskKeys: the keys of the keyboard. *)

\* A sequence of tables of keys, with the types that are allowed.
KeysLaid ==
  /\ KeyTypes \in SUBSET Nat /\ KeyTypes # {}
  /\ \A t \in KeyTypes : SoskKeys!Count(t) \in Nat /\ SoskKeys!RowOf(t) \in Nat

\* The key that is remembered, or else the one in focus, is the one last moved to.
KeysInv ==
  /\ type \in KeyTypes /\ home.type \in KeyTypes
  /\ pos \in Nat /\ pos <= SoskKeys!Count(type) /\ lastPos \in Nat
  /\ home.pos \in Nat /\ home.pos <= SoskKeys!Count(home.type)
  /\ SoskKeys!Remembered = home.pos
  /\ SoskKeys!KeyComesBack

\* The lowest of some numbers is one of them.
LEMMA LowestOf ==
  ASSUME NEW S \in SUBSET Nat, S # {}
  PROVE  SoskKeys!Min(S) \in S
<1>1. PICK n \in S : \A m \in S : n <= m
  BY Least
<1> QED BY <1>1 DEF SoskKeys!Min

\* The lower of two numbers.
LEMMA LowerOfTwo ==
  ASSUME NEW a \in Nat, NEW b \in Nat
  PROVE  SoskKeys!Min({a, b}) = IF a <= b THEN a ELSE b
<1>1. (CHOOSE x \in {a, b} : \A y \in {a, b} : x <= y) = IF a <= b THEN a ELSE b
  OBVIOUS
<1> QED BY <1>1 DEF SoskKeys!Min

\* The keyboard is opened with its first key in focus.
LEMMA KeysInitInv == ASSUME KeysLaid, SoskKeys!Init PROVE KeysInv
<1>1. SoskKeys!Min(KeyTypes) \in KeyTypes
  BY LowestOf DEF KeysLaid
<1>2. /\ type = SoskKeys!Min(KeyTypes) /\ pos = 0 /\ lastPos = 0
      /\ home = [type |-> type, pos |-> pos]
  BY DEF SoskKeys!Init
<1>3. home.type = type /\ home.pos = 0 /\ SoskKeys!Count(type) \in Nat
  BY <1>1, <1>2 DEF KeysLaid
<1> QED BY <1>1, <1>2, <1>3 DEF KeysInv, SoskKeys!Remembered, SoskKeys!KeyComesBack

\* The focus moves, and nothing is remembered.
LEMMA FocusStep ==
  ASSUME KeysLaid, KeysInv, NEW p \in Nat, SoskKeys!Focus(p)
  PROVE  KeysInv'
<1>1. /\ pos' = SoskKeys!Min({p, SoskKeys!Count(type)}) /\ lastPos' = 0 /\ type' = type
      /\ home' = [type |-> type, pos |-> pos']
  BY DEF SoskKeys!Focus
<1>2. SoskKeys!Count(type) \in Nat /\ type \in KeyTypes
  BY DEF KeysLaid, KeysInv
<1>3. pos' = (IF p <= SoskKeys!Count(type) THEN p ELSE SoskKeys!Count(type))
  BY <1>1, <1>2, LowerOfTwo
<1>4. pos' \in Nat /\ pos' <= SoskKeys!Count(type) /\ home'.type = type /\ home'.pos = pos'
  BY <1>1, <1>2, <1>3
<1>5. SoskKeys!Remembered' = pos'
  BY <1>1 DEF SoskKeys!Remembered
<1>6. SoskKeys!Count(type)' = SoskKeys!Count(type) /\ SoskKeys!Count(home.type)' = SoskKeys!Count(type)
  BY <1>1, <1>4 DEF SoskKeys!Count
<1> QED BY <1>1, <1>2, <1>4, <1>5, <1>6 DEF KeysInv, SoskKeys!KeyComesBack

\* The next table: the key that is remembered has its place in it, or not.
LEMMA TableStep ==
  ASSUME KeysLaid, KeysInv, SoskKeys!SelectNextTable
  PROVE  KeysInv'
<1>1. /\ type' = SoskKeys!NextType(type) /\ lastPos' = home.pos
      /\ pos' = SoskKeys!Placed(type', pos, lastPos') /\ home' = home
  BY DEF SoskKeys!SelectNextTable, KeysInv
<1>2. type' \in KeyTypes
  <2>1. DEFINE higher == {u \in KeyTypes : u > type}
  <2>2. SoskKeys!NextType(type) = SoskKeys!Min(IF higher = {} THEN KeyTypes ELSE higher)
    BY DEF SoskKeys!NextType
  <2>3. (IF higher = {} THEN KeyTypes ELSE higher) \in SUBSET KeyTypes
    OBVIOUS
  <2>4. (IF higher = {} THEN KeyTypes ELSE higher) # {} /\ KeyTypes \in SUBSET Nat
    BY DEF KeysLaid
  <2> HIDE DEF higher
  <2> QED BY <1>1, <2>2, <2>3, <2>4, LowestOf
<1>3. SoskKeys!Count(type') \in Nat
  BY <1>2 DEF KeysLaid
<1>4. home.pos \in Nat /\ pos \in Nat
  BY DEF KeysInv
<1>5. pos' = IF home.pos <= SoskKeys!Count(type') THEN home.pos
             ELSE IF pos <= SoskKeys!Count(type') THEN pos ELSE SoskKeys!Count(type')
  BY <1>1, <1>3, <1>4, LowerOfTwo DEF SoskKeys!Placed
<1>6. pos' \in Nat /\ pos' <= SoskKeys!Count(type')
  BY <1>3, <1>4, <1>5
<1>7. SoskKeys!Remembered' = home.pos
  <2>1. CASE home.pos = 0
    BY <1>1, <1>3, <1>5, <2>1 DEF SoskKeys!Remembered
  <2>2. CASE home.pos # 0
    BY <1>1, <2>2 DEF SoskKeys!Remembered
  <2> QED BY <2>1, <2>2
<1>8. type' = home.type => pos' = home.pos
  BY <1>5 DEF KeysInv
<1>9. /\ SoskKeys!Count(type)' = SoskKeys!Count(type')
      /\ SoskKeys!Count(home.type)' = SoskKeys!Count(home.type)
  BY <1>1 DEF SoskKeys!Count
<1> QED BY <1>1, <1>2, <1>4, <1>6, <1>7, <1>8, <1>9 DEF KeysInv, SoskKeys!KeyComesBack

\* Keys and changes of the table keep the invariant.
LEMMA KeysStep ==
  ASSUME KeysLaid, KeysInv, SoskKeys!Next \/ UNCHANGED SoskKeys!keysVars
  PROVE  KeysInv'
<1> DEFINE count == SoskKeys!Count(type)
           across   == SoskKeys!RowOf(type)
<1>1. count \in Nat /\ across \in Nat /\ pos \in Nat /\ pos <= count
  BY DEF KeysLaid, KeysInv
<1>2. SoskKeys!InRows <=> across > 0
  BY DEF SoskKeys!InRows
<1> HIDE DEF count, across
<1>3. across > 0 => /\ pos % across \in 0 .. across - 1 /\ count % across \in 0 .. across - 1
                 /\ (pos + 1) \div across \in Nat
  BY <1>1
<1>4. across > 0 => across * ((pos + 1) \div across) \in Nat
  <2>1. \A a, b \in Nat : a * b \in Nat
    OBVIOUS
  <2> QED BY <1>1, <1>3, <2>1
<1>5. CASE SoskKeys!SelectNextTable
  BY <1>5, TableStep
<1>6. CASE SoskKeys!FocusLeft
  <2>1. SoskKeys!LeftOf = IF across > 0 /\ pos % across = 0 THEN pos + across - 1
                          ELSE IF pos = 0 THEN count ELSE pos - 1
    BY <1>2 DEF SoskKeys!LeftOf, across, count
  <2>2. SoskKeys!LeftOf \in Nat
    BY <1>1, <2>1
  <2> QED BY <1>6, <2>2, FocusStep DEF SoskKeys!FocusLeft
<1>7. CASE SoskKeys!FocusRight
  <2>1. SoskKeys!RightOf = IF across > 0 /\ (pos + 1) % across = 0 THEN pos + 1 - across
                           ELSE IF pos + 1 <= count THEN pos + 1
                           ELSE IF across > 0 THEN across * ((pos + 1) \div across) ELSE 0
    BY <1>2 DEF SoskKeys!RightOf, across, count
  <2>2. across > 0 /\ (pos + 1) % across = 0 => pos + 1 >= across
    BY <1>1
  <2> DEFINE q == across * ((pos + 1) \div across)
             r == (pos + 1) % across
  <2>3. (across > 0 => q \in Nat) /\ SoskKeys!RightOf = IF across > 0 /\ r = 0 THEN pos + 1 - across
                           ELSE IF pos + 1 <= count THEN pos + 1
                           ELSE IF across > 0 THEN q ELSE 0
    BY <1>4, <2>1
  <2> HIDE DEF q, r
  <2>4. SoskKeys!RightOf \in Nat
    BY <1>1, <2>2, <2>3 DEF r
  <2> QED BY <1>7, <2>4, FocusStep DEF SoskKeys!FocusRight
<1>8. CASE SoskKeys!FocusUp
  <2> DEFINE p == pos % across
             c == count % across
             bottom == (count - c) + p
  <2>1. SoskKeys!Above = IF pos >= across THEN pos - across
                         ELSE IF bottom > count THEN bottom - across ELSE bottom
    BY DEF SoskKeys!Above, across, count
  <2>2. across > 0
    BY <1>2, <1>8 DEF SoskKeys!FocusUp
  <2>3. p \in 0 .. across - 1 /\ c \in 0 .. across - 1 /\ c <= count
    BY <1>1, <1>3, <2>2
  <2>4. bottom > count => bottom >= across
    <3>1. count - c >= across \/ count = c
      BY <1>1, <2>2
    <3>2. pos < across => p = pos
      BY <1>1, <2>2
    <3> HIDE DEF p, c
    <3> QED BY <1>1, <2>3, <3>1, <3>2
  <2> HIDE DEF p, c
  <2>5. SoskKeys!Above \in Nat
    BY <1>1, <2>1, <2>2, <2>3, <2>4
  <2> QED BY <1>8, <2>5, FocusStep DEF SoskKeys!FocusUp
<1>9. CASE SoskKeys!FocusDown
  <2>1. SoskKeys!Below = IF count - pos >= across THEN pos + across ELSE pos % across
    BY DEF SoskKeys!Below, across, count
  <2>2. across > 0
    BY <1>2, <1>9 DEF SoskKeys!FocusDown
  <2>3. SoskKeys!Below \in Nat
    BY <1>1, <1>3, <2>1, <2>2
  <2> QED BY <1>9, <2>3, FocusStep DEF SoskKeys!FocusDown
<1>10. CASE UNCHANGED SoskKeys!keysVars
  <2>1. UNCHANGED <<type, pos, lastPos, home>>
    BY <1>10 DEF SoskKeys!keysVars
  <2> QED BY <2>1 DEF KeysInv, SoskKeys!Count, SoskKeys!Remembered, SoskKeys!KeyComesBack
<1> QED BY <1>5, <1>6, <1>7, <1>8, <1>9, <1>10 DEF SoskKeys!Next

\* The key to come back to is remembered.
LEMMA KeysInvariant == ASSUME KeysLaid PROVE SoskKeys!Spec => []KeysInv
<1> QED BY KeysInitInv, KeysStep, PTL DEF SoskKeys!Spec

\* The key in focus (sosk.c) is one of a table that is allowed, for any tables.
THEOREM KeysTypeCorrect == ASSUME KeysLaid PROVE SoskKeys!Spec => []SoskKeys!TypeOK
<1>1. KeysInv => SoskKeys!TypeOK
  <2> SUFFICES ASSUME KeysInv PROVE SoskKeys!TypeOK
    OBVIOUS
  <2>1. SoskKeys!Count(type) \in Nat /\ type \in KeyTypes
    BY DEF KeysInv, KeysLaid
  <2> QED BY <2>1 DEF KeysInv, SoskKeys!TypeOK
<1> QED BY <1>1, KeysInvariant, PTL

\* The key comes back with its table.
LEMMA KeyComesBackCorrect == ASSUME KeysLaid PROVE SoskKeys!Spec => []SoskKeys!KeyComesBack
<1>1. KeysInv => SoskKeys!KeyComesBack
  BY DEF KeysInv
<1> QED BY <1>1, KeysInvariant, PTL

-----------------------------------------------------------------------------
(* Getfile: the dialog for names of files. *)

\* A sequence of names, with the root and a room for it.
Placed ==
  /\ NameLengths \in [DOMAIN NameLengths -> Nat] /\ NameLengths[""] = 0
  /\ RootPath \in DOMAIN NameLengths /\ "" \in DOMAIN NameLengths
  /\ DirNames \subseteq DOMAIN NameLengths
  /\ PathMax \in Nat /\ PathMax >= NameLengths[RootPath] + 2
  /\ EntryCounts # {} /\ \E most \in Nat : EntryCounts \subseteq 0 .. most
  /\ ListLines \in Nat \ {0}

\* The length of a path, as the fold of it has it, name by name.
LEMMA LengthFold ==
  ASSUME NEW p \in Seq(DOMAIN NameLengths), NameLengths \in [DOMAIN NameLengths -> Nat]
  PROVE  \E it \in [SUBSET (1 .. Len(p)) -> Int] :
           /\ \A s \in SUBSET (1 .. Len(p)) :
                it[s] = IF s = {} THEN -1
                        ELSE it[s \ {Getfile!Max(s)}] + 1 + NameLengths[p[Getfile!Max(s)]]
           /\ Getfile!Length(p) = it[1 .. Len(p)] /\ it[1 .. Len(p)] >= -1
<1> DEFINE S == 1 .. Len(p)
           X == {x \in Int : x >= -1}
           c == [s \in SUBSET S |-> Getfile!Max(s)]
           G == [z \in (SUBSET S) \X Int |-> z[2] + 1 + NameLengths[p[Getfile!Max(z[1])]]]
           Iter == CHOOSE f : f = [s \in SUBSET S |-> IF s = {} THEN -1
                     ELSE f[s \ {Getfile!Max(s)}] + 1 + NameLengths[p[Getfile!Max(s)]]]
<1>1. DOMAIN p = S /\ Len(p) \in Nat /\ IsFiniteSet(S) /\ -1 \in X
  <2>1. DOMAIN p = S /\ Len(p) \in Nat
    OBVIOUS
  <2> QED BY <2>1, Counted
<1>2. \A s \in SUBSET S : s # {} => Getfile!Max(s) \in s
  BY <1>1, Greatest DEF Getfile!Max
<1>3. Closed(G, S, X)
  <2>1. ASSUME NEW s \in SUBSET S, s # {}, NEW x \in X
        PROVE  G[<<s, x>>] \in X
    <3>1. NameLengths[p[Getfile!Max(s)]] \in Nat
      BY <1>1, <1>2, <2>1
    <3>2. G[<<s, x>>] = x + 1 + NameLengths[p[Getfile!Max(s)]]
      BY <2>1
    <3>3. x \in Int /\ x >= -1
      OBVIOUS
    <3> HIDE DEF G
    <3> QED BY <3>1, <3>2, <3>3
  <2> HIDE DEF G, S, X
  <2> QED BY <2>1 DEF Closed
<1>4. \A s \in SUBSET S, x \in Int : G[<<s, x>>] = x + 1 + NameLengths[p[Getfile!Max(s)]]
  OBVIOUS
<1>5. \A s \in SUBSET S : c[s] = Getfile!Max(s)
  OBVIOUS
<1>6. Takes(c, S)
  BY <1>2, <1>5 DEF Takes
<1>7. Getfile!Length(p) = Iter[S]
  BY <1>1 DEF Getfile!Length, Getfile!FoldLeft, Getfile!MapThenFoldSet
<1> HIDE DEF S, c, G
<1>8. PICK it \in [SUBSET S -> X] : Folds(it, S, -1, c, G)
  BY <1>1, <1>3, <1>6, FoldExists
<1>9. \A s \in SUBSET S : it[s] = IF s = {} THEN -1
        ELSE it[s \ {Getfile!Max(s)}] + 1 + NameLengths[p[Getfile!Max(s)]]
  <2>1. ASSUME NEW s \in SUBSET S, s # {}
        PROVE  it[s] = it[s \ {c[s]}] + 1 + NameLengths[p[Getfile!Max(s)]]
    <3>1. it[s] = G[<<s, it[s \ {c[s]}]>>] /\ it[s \ {c[s]}] \in Int
      BY <1>8, <2>1 DEF Folds
    <3> QED BY <1>4, <3>1
  <2>2. {} \in SUBSET S => it[{}] = -1
    BY <1>8 DEF Folds
  <2> QED BY <1>5, <2>1, <2>2
<1>10. it = [s \in SUBSET S |-> it[s]]
  OBVIOUS
<1>11. Iter = [s \in SUBSET S |-> IF s = {} THEN -1
                 ELSE Iter[s \ {Getfile!Max(s)}] + 1 + NameLengths[p[Getfile!Max(s)]]]
  <2>1. it = [s \in SUBSET S |-> IF s = {} THEN -1
                ELSE it[s \ {Getfile!Max(s)}] + 1 + NameLengths[p[Getfile!Max(s)]]]
    BY <1>9, <1>10, Zenon
  <2> QED BY <2>1, Zenon
<1> HIDE DEF Iter
<1>12. FoldsIn(X, Iter, S, -1, c, G)
  <2>1. ASSUME NEW s \in SUBSET S, s # {}, Iter[s \ {c[s]}] \in X
        PROVE  Iter[s] = G[<<s, Iter[s \ {c[s]}]>>]
    <3>1. Iter[s] = Iter[s \ {Getfile!Max(s)}] + 1 + NameLengths[p[Getfile!Max(s)]]
      BY <1>11, <2>1
    <3>2. G[<<s, Iter[s \ {c[s]}]>>] = Iter[s \ {c[s]}] + 1 + NameLengths[p[Getfile!Max(s)]]
      BY <1>4, <2>1
    <3> QED BY <3>1, <3>2, <1>5
  <2>2. Iter[{}] = -1
    BY <1>11
  <2> QED BY <2>1, <2>2 DEF FoldsIn
<1>13. \A s \in SUBSET S : Iter[s] = it[s]
  <2>1. IsFold(it, S, X, -1, c, G)
    BY <1>1, <1>6, <1>8 DEF IsFold
  <2> QED BY <1>12, <2>1, FoldAgrees
<1>14. S \in SUBSET S
  OBVIOUS
<1>15. it \in [SUBSET S -> Int] /\ it[S] >= -1
  BY <1>14
<1> HIDE DEF X
<1> QED BY <1>7, <1>9, <1>13, <1>14, <1>15, Zenon DEF S

\* A longer path: a slash and the name.
LEMMA LengthAppended ==
  ASSUME NEW p \in Seq(DOMAIN NameLengths), NameLengths \in [DOMAIN NameLengths -> Nat],
         NEW d \in DOMAIN NameLengths
  PROVE  /\ Getfile!Length(p) \in Int /\ Getfile!Length(p) >= -1
         /\ Getfile!Length(Append(p, d)) = Getfile!Length(p) + 1 + NameLengths[d]
<1> DEFINE S == 1 .. Len(p)
           q == Append(p, d)
           c == [s \in SUBSET S |-> Getfile!Max(s)]
           G == [z \in (SUBSET S) \X Int |-> z[2] + 1 + NameLengths[p[Getfile!Max(z[1])]]]
<1>1. PICK it :
        /\ it \in [SUBSET S -> Int]
        /\ \A s \in SUBSET S : it[s] = IF s = {} THEN -1
             ELSE it[s \ {Getfile!Max(s)}] + 1 + NameLengths[p[Getfile!Max(s)]]
        /\ Getfile!Length(p) = it[S] /\ it[S] >= -1
  BY LengthFold
<1>2. /\ q \in Seq(DOMAIN NameLengths) /\ Len(q) = Len(p) + 1 /\ q[Len(q)] = d
      /\ \A i \in S : q[i] = p[i]
  OBVIOUS
<1>3. PICK of :
        /\ of \in [SUBSET (1 .. Len(q)) -> Int]
        /\ \A s \in SUBSET (1 .. Len(q)) : of[s] = IF s = {} THEN -1
             ELSE of[s \ {Getfile!Max(s)}] + 1 + NameLengths[q[Getfile!Max(s)]]
        /\ Getfile!Length(q) = of[1 .. Len(q)]
  <2> HIDE DEF q
  <2> QED BY <1>2, LengthFold
<1>4. Len(p) \in Nat
  OBVIOUS
<1>5. \A s \in SUBSET S : s # {} => Getfile!Max(s) \in s
  BY <1>4, Greatest DEF Getfile!Max
<1>6. Getfile!Max(1 .. Len(q)) = Len(q) /\ (1 .. Len(q)) \ {Len(q)} = S /\ 1 .. Len(q) # {}
  <2>1. Len(q) \in 1 .. Len(q) /\ (1 .. Len(q)) \ {Len(q)} = S /\ 1 .. Len(q) # {}
    <3>1. \A n \in Nat : n + 1 \in 1 .. n + 1 /\ (1 .. n + 1) \ {n + 1} = 1 .. n
      OBVIOUS
    <3> HIDE DEF q
    <3> QED BY <1>2, <1>4, <3>1
  <2>2. \A i \in 1 .. Len(q) : i \in Int /\ Len(q) >= i
    BY <1>2, <1>4
  <2> HIDE DEF q, S
  <2>3. \A i \in 1 .. Len(q) : (\A j \in 1 .. Len(q) : i >= j) => i = Len(q)
    BY <2>1, <2>2, <1>2, <1>4
  <2>4. Getfile!Max(1 .. Len(q)) = Len(q)
    BY <2>1, <2>2, <2>3 DEF Getfile!Max
  <2> QED BY <2>1, <2>4
<1>7. of[1 .. Len(q)] = of[S] + 1 + NameLengths[d]
  <2>1. 1 .. Len(q) \in SUBSET (1 .. Len(q))
    OBVIOUS
  <2> HIDE DEF q, S
  <2> QED BY <1>2, <1>3, <1>6, <2>1
<1>8. of[S] = it[S]
  <2>1. SUBSET S \subseteq SUBSET (1 .. Len(q))
    BY <1>2, <1>4
  <2>2. \A s \in SUBSET S, x \in Int : G[<<s, x>>] = x + 1 + NameLengths[p[Getfile!Max(s)]]
    OBVIOUS
  <2>3. \A s \in SUBSET S : c[s] = Getfile!Max(s)
    OBVIOUS
  <2>4. IsFiniteSet(S) /\ -1 \in Int /\ S \in SUBSET S /\ {} \in SUBSET S
    BY <1>4, Counted
  <2> HIDE DEF c, G, S, q
  <2>5. Takes(c, S)
    BY <1>5, <2>3 DEF Takes
  <2>6. Folds(it, S, -1, c, G)
    <3>1. ASSUME NEW s \in SUBSET S, s # {} PROVE it[s] = G[<<s, it[s \ {c[s]}]>>]
      <4>1. it[s] = it[s \ {c[s]}] + 1 + NameLengths[p[Getfile!Max(s)]]
        BY <1>1, <2>3, <3>1
      <4>2. it[s \ {c[s]}] \in Int
        BY <1>1
      <4> QED BY <4>1, <4>2, <2>2
    <3>2. it[{}] = -1
      BY <1>1, <2>4
    <3> QED BY <3>1, <3>2 DEF Folds
  <2>7. FoldsIn(Int, of, S, -1, c, G)
    <3>1. ASSUME NEW s \in SUBSET S, s # {}, of[s \ {c[s]}] \in Int
          PROVE  of[s] = G[<<s, of[s \ {c[s]}]>>]
      <4>1. of[s] = of[s \ {c[s]}] + 1 + NameLengths[q[Getfile!Max(s)]]
        BY <1>3, <2>1, <2>3, <3>1
      <4>2. q[Getfile!Max(s)] = p[Getfile!Max(s)]
        BY <1>2, <1>5, <3>1
      <4> QED BY <4>1, <4>2, <2>2, <3>1
    <3>2. of[{}] = -1
      BY <1>3, <2>1, <2>4
    <3> QED BY <3>1, <3>2 DEF FoldsIn
  <2>8. \A s \in SUBSET S : of[s] = it[s]
    <3>1. IsFold(it, S, Int, -1, c, G)
      BY <1>1, <2>4, <2>5, <2>6 DEF IsFold
    <3> QED BY <2>7, <3>1, FoldAgrees
  <2> QED BY <2>4, <2>8
<1>9. it[S] \in Int
  BY <1>1
<1> HIDE DEF S, q
<1> QED BY <1>1, <1>3, <1>7, <1>8, <1>9 DEF q

\* The path and the name, and where the name is.
PathInv ==
  /\ dirPath \in Seq(DOMAIN NameLengths) /\ fileName \in DOMAIN NameLengths /\ nameAt \in Nat
  /\ fileResult = "unknown" =>
       /\ dirPath # <<>> /\ nameAt = Getfile!Length(dirPath) + 1
       /\ nameAt + NameLengths[fileName] + 1 <= PathMax
  /\ fileResult = "accept" =>
       /\ dirPath # <<>> /\ nameAt = Getfile!Length(Getfile!Front(dirPath)) + 1
       /\ nameAt + NameLengths[fileName] + 1 <= PathMax

\* What was found by that name, and whether the user was asked.
AskedTyped ==
  /\ asks \in {"save", "open"} /\ showing \in {"none", "help", "message", "confirm", "keyboard"}
  /\ fileResult \in {"closed", "unknown", "accept", "cancel", "overrun"}
  /\ kind \in {"unasked", "file", "dir", "other"} /\ area \in {"list", "input"}
  /\ shutdown \in BOOLEAN /\ confirmed \in BOOLEAN /\ starved \in BOOLEAN
NameTaken ==
  /\ fileName \notin IllegalNames \cup {""} /\ kind # "dir"
  /\ asks = "save" /\ kind = "file" => confirmed
  /\ asks = "open" => kind = "file"

AskedInv ==
  /\ AskedTyped
  /\ showing = "confirm" =>
       fileName \notin IllegalNames \cup {""} /\ kind = "file" /\ asks = "save"
  /\ shutdown => showing = "none"
  /\ (fileResult = "unknown" /\ shutdown) \/ fileResult = "accept" => starved \/ NameTaken

\* The selection is of an entry, when there are any.
SelectionInv ==
  /\ allEntries \in EntryCounts \cup {0} /\ selectPos \in Int /\ -1 <= selectPos
  /\ selectPos <= Getfile!Max(EntryCounts)
  /\ allEntries > 0 => selectPos \in 0 .. allEntries - 1

GetfileInv == PathInv /\ AskedInv /\ SelectionInv

-----------------------------------------------------------------------------
\* Where a path is left: what is in front of its last name.
LEMMA LengthFront ==
  ASSUME Placed, NEW p \in Seq(DOMAIN NameLengths), p # <<>>
  PROVE  /\ Getfile!Front(p) \in Seq(DOMAIN NameLengths)
         /\ Getfile!Length(Getfile!Front(p)) \in Int /\ Getfile!Length(Getfile!Front(p)) >= -1
         /\ Getfile!Length(Getfile!Front(p)) < Getfile!Length(p)
         /\ Len(p) > 1 => Getfile!Front(p) # <<>>
<1> DEFINE q == Getfile!Front(p)
           d == p[Len(p)]
<1>1. q \in Seq(DOMAIN NameLengths) /\ d \in DOMAIN NameLengths /\ p = Append(q, d)
      /\ (Len(p) > 1 => q # <<>>)
  <2>1. Len(p) \in Nat \ {0} /\ d \in DOMAIN NameLengths
    OBVIOUS
  <2>2. q = SubSeq(p, 1, Len(p) - 1)
    BY DEF Getfile!Front
  <2>3. /\ q \in Seq(DOMAIN NameLengths) /\ Len(q) = Len(p) - 1
        /\ \A i \in 1 .. Len(p) - 1 : q[i] = p[i]
    <3> HIDE DEF q
    <3> DEFINE n == Len(p) - 1
    <3>1. n \in Nat /\ \A m \in 1 .. n : p[m] \in DOMAIN NameLengths
      BY <2>1
    <3> HIDE DEF n
    <3>2. /\ SubSeq(p, 1, n) \in Seq(DOMAIN NameLengths)
          /\ Len(SubSeq(p, 1, n)) = IF 1 <= n THEN n - 1 + 1 ELSE 0
          /\ \A i \in 1 .. n - 1 + 1 : SubSeq(p, 1, n)[i] = p[1 + i - 1]
      BY <3>1, SubSeqProperties
    <3>3. Len(SubSeq(p, 1, n)) = n /\ \A i \in 1 .. n : SubSeq(p, 1, n)[i] = p[i]
      BY <3>1, <3>2
    <3> QED BY <2>2, <3>2, <3>3 DEF n
  <2> HIDE DEF q
  <2>4. p = Append(q, d)
    <3>1. Append(q, d) \in Seq(DOMAIN NameLengths) /\ Len(Append(q, d)) = Len(p)
      BY <2>1, <2>3
    <3>2. \A i \in 1 .. Len(p) : Append(q, d)[i] = p[i]
      BY <2>1, <2>3
    <3> QED BY <3>1, <3>2, SeqEqual
  <2>5. Len(p) > 1 => q # <<>>
    BY <2>1, <2>3
  <2> QED BY <2>1, <2>3, <2>4, <2>5
<1> HIDE DEF q, d
<1>2. NameLengths \in [DOMAIN NameLengths -> Nat]
  BY DEF Placed
<1>3. /\ Getfile!Length(q) \in Int /\ Getfile!Length(q) >= -1
      /\ Getfile!Length(p) = Getfile!Length(q) + 1 + NameLengths[d]
  BY <1>1, <1>2, LengthAppended
<1>4. NameLengths[d] \in Nat
  BY <1>1, <1>2
<1>5. Getfile!Length(q) < Getfile!Length(p)
  BY <1>3, <1>4
<1> QED BY <1>1, <1>3, <1>5 DEF q

\* The empty path.
LEMMA LengthRoot ==
  ASSUME Placed
  PROVE  /\ <<RootPath>> \in Seq(DOMAIN NameLengths)
         /\ Getfile!Length(<<RootPath>>) = NameLengths[RootPath]
<1>1. <<>> \in Seq(DOMAIN NameLengths) /\ Append(<<>>, RootPath) = <<RootPath>>
  OBVIOUS
<1>2. NameLengths \in [DOMAIN NameLengths -> Nat] /\ RootPath \in DOMAIN NameLengths
  BY DEF Placed
<1>3. Getfile!Length(<<>>) = -1
  <2>1. PICK it \in [SUBSET (1 .. 0) -> Int] :
          /\ \A s \in SUBSET (1 .. 0) :
               it[s] = IF s = {} THEN -1
                       ELSE it[s \ {Getfile!Max(s)}] + 1 + NameLengths[<<>>[Getfile!Max(s)]]
          /\ Getfile!Length(<<>>) = it[1 .. 0]
    <3>1. Len(<<>>) = 0
      OBVIOUS
    <3> QED BY <1>1, <1>2, <3>1, LengthFold, Zenon
  <2>2. 1 .. 0 = {} /\ {} \in SUBSET (1 .. 0)
    OBVIOUS
  <2> QED BY <2>1, <2>2
<1>4. Getfile!Length(<<RootPath>>) = -1 + 1 + NameLengths[RootPath]
  BY <1>1, <1>2, <1>3, LengthAppended
<1>5. NameLengths[RootPath] \in Nat
  BY <1>2
<1> QED BY <1>1, <1>2, <1>4, <1>5

\* The most entries of a directory.
LEMMA MostEntries ==
  ASSUME Placed
  PROVE  /\ Getfile!Max(EntryCounts) \in Nat
         /\ \A n \in EntryCounts : n \in Nat /\ n <= Getfile!Max(EntryCounts)
<1>1. PICK most \in Nat : EntryCounts \subseteq 0 .. most
  BY DEF Placed
<1> DEFINE Q == {most - n : n \in EntryCounts}
<1>2. EntryCounts # {} /\ \A n \in EntryCounts : n \in Nat /\ n <= most
  <2>1. EntryCounts # {}
    BY DEF Placed
  <2> QED BY <1>1, <2>1
<1>3. Q \in SUBSET Nat /\ Q # {}
  BY <1>2
<1>4. PICK q \in Q : \A r \in Q : q <= r
  <2> HIDE DEF Q
  <2> QED BY <1>3, Least
<1>5. PICK top \in EntryCounts : q = most - top
  OBVIOUS
<1>6. \A n \in EntryCounts : top >= n
  <2>1. \A n \in EntryCounts : most - n \in Q
    OBVIOUS
  <2>2. \A n \in EntryCounts : most - top <= most - n
    BY <1>4, <1>5, <2>1
  <2> HIDE DEF Q
  <2> QED BY <1>2, <2>2
<1> HIDE DEF Q
<1>7. Getfile!Max(EntryCounts) \in EntryCounts
      /\ \A n \in EntryCounts : Getfile!Max(EntryCounts) >= n
  BY <1>6 DEF Getfile!Max
<1> QED BY <1>2, <1>7

\* At first no dialog is open.
LEMMA GetfileInitInv == ASSUME Placed, Getfile!Init PROVE GetfileInv
<1>1. PathInv
  <2>1. /\ dirPath = <<RootPath>> /\ nameAt = NameLengths[RootPath] + 1 /\ fileName = ""
        /\ fileResult = "closed"
    BY DEF Getfile!Init
  <2>2. RootPath \in DOMAIN NameLengths /\ "" \in DOMAIN NameLengths
        /\ \A n \in DOMAIN NameLengths : NameLengths[n] \in Nat
    BY DEF Placed
  <2>3. NameLengths[RootPath] + 1 \in Nat
    <3>1. NameLengths[RootPath] \in Nat
      BY <2>2
    <3> QED BY <3>1
  <2>4. <<RootPath>> \in Seq(DOMAIN NameLengths)
    BY LengthRoot
  <2> QED BY <2>1, <2>2, <2>3, <2>4 DEF PathInv
<1>2. AskedInv
  BY DEF Getfile!Init, AskedInv, AskedTyped
<1>3. SelectionInv
  <2>1. Getfile!Max(EntryCounts) \in Nat /\ allEntries = 0 /\ selectPos = 0
    BY MostEntries DEF Getfile!Init
  <2> QED BY <2>1 DEF SelectionInv
<1> QED BY <1>1, <1>2, <1>3 DEF GetfileInv

\* The name goes along with the path.
LEMMA PathStep ==
  ASSUME Placed, PathInv, Getfile!Next \/ UNCHANGED Getfile!vars
  PROVE  PathInv'
<1>f. \A n \in DOMAIN NameLengths : NameLengths[n] \in Nat
  BY DEF Placed
<1>r. /\ RootPath \in DOMAIN NameLengths /\ "" \in DOMAIN NameLengths
      /\ DirNames \subseteq DOMAIN NameLengths
  BY DEF Placed
<1>m. PathMax \in Nat /\ PathMax >= NameLengths[RootPath] + 2
  BY DEF Placed
<1>z. NameLengths[""] = 0
  BY DEF Placed
<1>n. NameLengths \in [DOMAIN NameLengths -> Nat]
  BY DEF Placed
<1>i. /\ dirPath \in Seq(DOMAIN NameLengths) /\ fileName \in DOMAIN NameLengths /\ nameAt \in Nat
      /\ fileResult = "unknown" =>
           /\ dirPath # <<>> /\ nameAt = Getfile!Length(dirPath) + 1
           /\ nameAt + NameLengths[fileName] + 1 <= PathMax
  BY DEF PathInv
<1>l. NameLengths[RootPath] \in Nat /\ NameLengths[fileName] \in Nat
  BY <1>f, <1>r, <1>i
<1>a. /\ \A m, a, b \in Int : m - a > b => a + b + 1 <= m
      /\ \A m, a, b, c \in Int : m - (1 + a + c + 1) > b + 1 => a + b + 1 + c + 1 <= m
      /\ \A m, a, b, c, d \in Int : a + c + 1 <= m /\ a = d + 1 /\ b < d => b + 1 + c + 1 <= m
  OBVIOUS
<1>1. CASE Getfile!Start
  <2>1. /\ dirPath' = <<RootPath>> /\ nameAt' = NameLengths[RootPath] + 1 /\ fileResult' = "unknown"
        /\ \E initial \in DOMAIN NameLengths :
             fileName' = (IF Getfile!Fits(initial, nameAt') THEN initial ELSE "")
    BY <1>1 DEF Getfile!Start, Getfile!Names
  <2>2. fileName' \in DOMAIN NameLengths /\ nameAt' + NameLengths[fileName'] + 1 <= PathMax
    <3>1. PICK initial \in DOMAIN NameLengths :
            fileName' = (IF Getfile!Fits(initial, nameAt') THEN initial ELSE "")
      BY <2>1
    <3>2. CASE Getfile!Fits(initial, nameAt')
      <4>1. NameLengths[initial] \in Nat /\ PathMax - nameAt' > NameLengths[initial]
        BY <1>f, <3>2 DEF Getfile!Fits
      <4>2. nameAt' + NameLengths[initial] + 1 <= PathMax
        <5>1. nameAt' \in Int /\ PathMax \in Int
          <6>1. NameLengths[RootPath] + 1 \in Nat
            BY <1>l
          <6>2. nameAt' = NameLengths[RootPath] + 1
            BY <2>1
          <6> QED BY <1>m, <6>1, <6>2
        <5> QED BY <1>a, <4>1, <5>1
      <4> QED BY <3>1, <3>2, <4>2
    <3>3. CASE ~Getfile!Fits(initial, nameAt')
      <4>1. fileName' = ""
        BY <3>1, <3>3
      <4>2. NameLengths[RootPath] + 1 + 0 + 1 <= PathMax
        BY <1>m, <1>l
      <4> QED BY <1>r, <1>z, <2>1, <4>1, <4>2
    <3> QED BY <3>2, <3>3
  <2>3. <<RootPath>> \in Seq(DOMAIN NameLengths) /\ <<RootPath>> # <<>>
        /\ Getfile!Length(<<RootPath>>) = NameLengths[RootPath]
    BY LengthRoot
  <2>4. NameLengths[RootPath] + 1 \in Nat
    BY <1>l
  <2> QED BY <2>1, <2>2, <2>3, <2>4 DEF PathInv
<1>2. CASE Getfile!Entered
  <2>1. fileResult = "unknown"
    BY <1>2 DEF Getfile!Entered
  <2>2. \/ Getfile!Boxed \/ Getfile!Cancelled \/ Getfile!EnterDir \/ Getfile!Leave
        \/ Getfile!TakeFile \/ UNCHANGED <<dirPath, nameAt, fileName, fileResult>>
    BY <1>2 DEF Getfile!Entered, Getfile!Keys, Getfile!Accept, Getfile!Opens, Getfile!OtherArea,
                Getfile!Select
  <2>3. CASE Getfile!Boxed
    <3>1. UNCHANGED <<dirPath, nameAt, fileResult>>
      BY <2>3 DEF Getfile!Boxed
    <3>2. fileName' = fileName \/ fileName' \in {n \in DOMAIN NameLengths : Getfile!Fits(n, nameAt)}
      BY <2>3 DEF Getfile!Boxed, Getfile!Names
    <3>3. CASE fileName' = fileName
      BY <1>i, <2>1, <3>1, <3>3 DEF PathInv
    <3>4. CASE fileName' \in {n \in DOMAIN NameLengths : Getfile!Fits(n, nameAt)}
      <4>1. fileName' \in DOMAIN NameLengths /\ PathMax - nameAt > NameLengths[fileName']
        BY <3>4 DEF Getfile!Fits
      <4>2. NameLengths[fileName'] \in Nat
        BY <1>f, <4>1
      <4>3. nameAt + NameLengths[fileName'] + 1 <= PathMax
        BY <1>a, <1>m, <1>i, <4>1, <4>2
      <4> QED BY <1>i, <2>1, <3>1, <4>1, <4>3 DEF PathInv
    <3> QED BY <3>2, <3>3, <3>4
  <2>4. CASE Getfile!Cancelled
    <3>1. fileResult' = "cancel" /\ dirPath' = <<"">> /\ UNCHANGED <<nameAt, fileName>>
      BY <2>4 DEF Getfile!Cancelled
    <3>2. \A d \in DOMAIN NameLengths : <<d>> \in Seq(DOMAIN NameLengths)
      OBVIOUS
    <3>3. <<"">> \in Seq(DOMAIN NameLengths)
      BY <1>r, <3>2
    <3> QED BY <1>i, <3>1, <3>3 DEF PathInv
  <2>5. CASE Getfile!EnterDir
    <3>1. PICK dir \in DirNames : Getfile!Forward(dir)
      BY <2>5 DEF Getfile!EnterDir
    <3>2. dir \in DOMAIN NameLengths /\ NameLengths[dir] \in Nat
      BY <1>r, <1>f
    <3>3. CASE Getfile!Room > NameLengths[dir] + 1
      <4>1. /\ dirPath' = Append(dirPath, dir) /\ nameAt' = nameAt + NameLengths[dir] + 1
            /\ fileName' = fileName
        BY <3>1, <3>3 DEF Getfile!Forward
      <4>2. nameAt' = Getfile!Length(dirPath') + 1 /\ nameAt' \in Nat
        <5>1. /\ Getfile!Length(dirPath) \in Int
              /\ Getfile!Length(Append(dirPath, dir)) = Getfile!Length(dirPath) + 1 + NameLengths[dir]
          BY <1>i, <1>n, <3>2, LengthAppended
        <5> QED BY <1>i, <2>1, <3>2, <4>1, <5>1
      <4>3. nameAt' + NameLengths[fileName] + 1 <= PathMax
        BY <1>a, <1>i, <1>l, <1>m, <3>2, <3>3, <4>1 DEF Getfile!Room
      <4>4. dirPath' \in Seq(DOMAIN NameLengths) /\ dirPath' # <<>>
        BY <1>i, <3>2, <4>1
      <4>5. fileResult' # "accept"
        BY <2>1, <3>1 DEF Getfile!Forward
      <4> QED BY <1>i, <4>1, <4>2, <4>3, <4>4, <4>5 DEF PathInv
    <3>4. CASE ~(Getfile!Room > NameLengths[dir] + 1)
      <4>1. UNCHANGED <<dirPath, nameAt, fileName>> /\ fileResult' # "accept"
        BY <2>1, <3>1, <3>4 DEF Getfile!Forward
      <4> QED BY <1>i, <2>1, <4>1 DEF PathInv
    <3> QED BY <3>3, <3>4
  <2>6. CASE Getfile!Leave
    <3>1. UNCHANGED <<fileName, fileResult>>
      BY <2>6 DEF Getfile!Leave, Getfile!Back
    <3>2. CASE Len(dirPath) > 1
      <4>1. dirPath' = Getfile!Front(dirPath) /\ nameAt' = Getfile!Length(Getfile!Front(dirPath)) + 1
        BY <2>6, <3>2 DEF Getfile!Leave, Getfile!Back
      <4>2. /\ dirPath' \in Seq(DOMAIN NameLengths) /\ dirPath' # <<>>
            /\ Getfile!Length(dirPath') \in Int /\ Getfile!Length(dirPath') >= -1
            /\ Getfile!Length(dirPath') < Getfile!Length(dirPath)
        BY <1>i, <2>1, <3>2, <4>1, LengthFront
      <4>3. Getfile!Length(dirPath) \in Int
        BY <1>i, <1>n, LengthAppended
      <4>4. nameAt' + NameLengths[fileName] + 1 <= PathMax /\ nameAt' \in Nat
        <5> DEFINE p == Getfile!Length(dirPath)
                   q == Getfile!Length(dirPath')
                   k == NameLengths[fileName]
        <5>1. p \in Int /\ q \in Int /\ k \in Nat /\ q >= -1 /\ q < p
          BY <1>l, <4>2, <4>3
        <5>2. nameAt' = q + 1
          BY <4>1
        <5>3. nameAt = p + 1 /\ nameAt + k + 1 <= PathMax
          BY <1>i, <2>1
        <5> HIDE DEF p, q, k
        <5>4. (p + 1) + k + 1 <= PathMax
          BY <5>3
        <5>5. (q + 1) + k + 1 <= PathMax /\ q + 1 \in Nat
          BY <1>m, <5>1, <5>4
        <5> QED BY <5>2, <5>5 DEF k
      <4> QED BY <1>i, <2>1, <3>1, <4>1, <4>2, <4>4 DEF PathInv
    <3>3. CASE ~(Len(dirPath) > 1)
      <4>1. UNCHANGED <<dirPath, nameAt>>
        BY <2>6, <3>3 DEF Getfile!Leave, Getfile!Back
      <4> QED BY <1>i, <2>1, <3>1, <4>1 DEF PathInv
    <3> QED BY <3>2, <3>3
  <2>7. CASE Getfile!TakeFile
    <3>1. PICK entered \in DOMAIN NameLengths :
            /\ fileName' = (IF Getfile!Fits(entered, nameAt) THEN entered ELSE fileName)
            /\ UNCHANGED <<dirPath, nameAt, fileResult>>
      BY <2>7 DEF Getfile!TakeFile, Getfile!Names
    <3>2. CASE Getfile!Fits(entered, nameAt)
      <4>1. PathMax - nameAt > NameLengths[entered] /\ NameLengths[entered] \in Nat
        BY <1>f, <3>2 DEF Getfile!Fits
      <4>2. nameAt + NameLengths[entered] + 1 <= PathMax
        BY <1>a, <1>i, <1>m, <4>1
      <4> QED BY <1>i, <2>1, <3>1, <3>2, <4>2 DEF PathInv
    <3>3. CASE ~Getfile!Fits(entered, nameAt)
      BY <1>i, <2>1, <3>1, <3>3 DEF PathInv
    <3> QED BY <3>2, <3>3
  <2>8. CASE UNCHANGED <<dirPath, nameAt, fileName, fileResult>>
    BY <1>i, <2>1, <2>8 DEF PathInv
  <2> QED BY <2>2, <2>3, <2>4, <2>5, <2>6, <2>7, <2>8
<1>3. CASE Getfile!Joined
  <2>1. /\ fileResult = "unknown" /\ fileResult' = "accept" /\ dirPath' = Append(dirPath, fileName)
        /\ UNCHANGED <<nameAt, fileName>>
    BY <1>3 DEF Getfile!Joined
  <2>2. Getfile!Front(Append(dirPath, fileName)) = dirPath
    <3>1. Len(Append(dirPath, fileName)) - 1 = Len(dirPath)
      BY <1>i
    <3>2. SubSeq(Append(dirPath, fileName), 1, Len(dirPath)) = dirPath
      BY <1>i, SubSeqFull
    <3> QED BY <3>1, <3>2, Zenon DEF Getfile!Front
  <2>3. Append(dirPath, fileName) \in Seq(DOMAIN NameLengths) /\ Append(dirPath, fileName) # <<>>
    BY <1>i
  <2> QED BY <1>i, <2>1, <2>2, <2>3 DEF PathInv
<1>4. CASE Getfile!Failed \/ Getfile!Close
  <2>1. fileResult' \in {"cancel", "closed"} /\ UNCHANGED <<dirPath, nameAt, fileName>>
    BY <1>4 DEF Getfile!Failed, Getfile!Close
  <2> QED BY <1>i, <2>1 DEF PathInv
<1>5. CASE UNCHANGED Getfile!vars
  BY <1>5 DEF Getfile!vars, PathInv
<1> QED BY <1>1, <1>2, <1>3, <1>4, <1>5 DEF Getfile!Next

\* A name is taken when nothing is to be said about it, or the user has said yes.
LEMMA AskedStep ==
  ASSUME AskedInv, Getfile!Next \/ UNCHANGED Getfile!vars
  PROVE  AskedInv'
<1>1. CASE Getfile!Start
  BY <1>1 DEF Getfile!Start, AskedInv, AskedTyped, NameTaken
<1>2. CASE Getfile!Entered
  <2>1. fileResult = "unknown" /\ shutdown = FALSE /\ UNCHANGED asks
    BY <1>2 DEF Getfile!Entered, AskedInv, AskedTyped, NameTaken
  <2>2. \/ showing # "none" /\ Getfile!Boxed
        \/ showing = "none" /\ \E n, p : Getfile!Keys(n, p)
    BY <1>2 DEF Getfile!Entered
  <2>3. CASE showing # "none" /\ Getfile!Boxed
    <3>1. CASE UNCHANGED <<dirPath, nameAt, fileName, area, showing, shutdown, fileResult,
                           Getfile!history>>
      <4>1. UNCHANGED <<asks, fileName, area, showing, shutdown, fileResult, kind, confirmed, starved>>
        BY <2>1, <3>1 DEF Getfile!history
      <4>2. AskedTyped' /\ NameTaken' = NameTaken
        BY <4>1 DEF AskedInv, AskedTyped, NameTaken
      <4> QED BY <4>1, <4>2 DEF AskedInv
    <3>2. ASSUME NEW yes_ \in BOOLEAN,
                 showing' = "none",
                 shutdown' = (IF showing = "confirm" THEN yes_ ELSE shutdown),
                 confirmed' = (showing = "confirm" /\ yes_),
                 showing # "keyboard" => fileName' = fileName,
                 kind' = (IF confirmed' THEN kind ELSE "unasked"),
                 UNCHANGED <<area, fileResult, starved>>
          PROVE  AskedInv'
      <4>1. CASE showing = "confirm" /\ yes_
        BY <2>1, <3>2, <4>1 DEF AskedInv, AskedTyped, NameTaken
      <4>2. CASE showing = "confirm" /\ ~yes_
        BY <2>1, <3>2, <4>2 DEF AskedInv, AskedTyped, NameTaken
      <4>3. CASE showing # "confirm"
        BY <2>1, <3>2, <4>3 DEF AskedInv, AskedTyped, NameTaken
      <4> QED BY <4>1, <4>2, <4>3
    <3> QED BY <2>3, <3>1, <3>2 DEF Getfile!Boxed
  <2>4. CASE showing = "none" /\ \E n, p : Getfile!Keys(n, p)
    <3>1. CASE Getfile!Accept
      <4>1. PICK found \in {"file", "dir", "other"}, memory \in BOOLEAN :
              /\ showing' = (IF memory THEN Getfile!Complaint(found) ELSE "none")
              /\ shutdown' = (showing' = "none")
              /\ starved' = (Getfile!Complaint(found) # "none" /\ ~memory)
              /\ kind' = found /\ confirmed' = FALSE
        BY <3>1 DEF Getfile!Accept
      <4>2. UNCHANGED <<fileName, area, fileResult>>
        BY <3>1 DEF Getfile!Accept
      <4>3. Getfile!Complaint(found) \in {"none", "message", "confirm"}
        BY DEF Getfile!Complaint
      <4>4. Getfile!Complaint(found) = "confirm" =>
              fileName \notin IllegalNames \cup {""} /\ found = "file" /\ asks = "save"
        BY DEF Getfile!Complaint
      <4>5. Getfile!Complaint(found) = "none" =>
              /\ fileName \notin IllegalNames \cup {""} /\ found # "dir"
              /\ ~(asks = "save" /\ found = "file")
              /\ asks = "open" => found = "file"
        BY DEF Getfile!Complaint
      <4>6. CASE memory
        BY <2>1, <4>1, <4>2, <4>3, <4>4, <4>5, <4>6 DEF AskedInv, AskedTyped, NameTaken
      <4>7. CASE ~memory
        BY <2>1, <4>1, <4>2, <4>3, <4>4, <4>5, <4>7 DEF AskedInv, AskedTyped, NameTaken
      <4> QED BY <4>6, <4>7
    <3>2. CASE Getfile!Opens("help") \/ Getfile!Opens("message") \/ Getfile!Opens("keyboard")
      BY <2>1, <3>2 DEF Getfile!Opens, Getfile!history, AskedInv, AskedTyped, NameTaken
    <3>3. CASE Getfile!Cancelled \/ Getfile!OtherArea
      <4>1. /\ UNCHANGED <<asks, fileName, showing, shutdown, kind, confirmed, starved>>
            /\ area' \in {"list", "input"} /\ fileResult' \in {"unknown", "cancel"}
        BY <2>1, <3>3 DEF Getfile!Cancelled, Getfile!OtherArea, Getfile!history, AskedInv, AskedTyped
      <4>2. AskedTyped' /\ NameTaken' = NameTaken
        BY <4>1 DEF AskedInv, AskedTyped, NameTaken
      <4> QED BY <2>1, <4>1, <4>2 DEF AskedInv
    <3>4. CASE Getfile!Unmoved /\ fileResult' \in {"unknown", "overrun"}
      <4>1. UNCHANGED <<asks, area, showing, shutdown, kind, confirmed, starved>>
        BY <2>1, <3>4 DEF Getfile!Unmoved, Getfile!history
      <4>2. AskedTyped'
        BY <3>4, <4>1 DEF AskedInv, AskedTyped
      <4> QED BY <2>1, <2>4, <3>4, <4>1, <4>2 DEF AskedInv
    <3>5. (\E n, p : Getfile!Select(n, p)) \/ Getfile!Leave \/ Getfile!TakeFile \/ Getfile!EnterDir
            => Getfile!Unmoved /\ fileResult' \in {"unknown", "overrun"}
      BY <2>1 DEF Getfile!Select, Getfile!Leave, Getfile!Back, Getfile!TakeFile, Getfile!EnterDir,
                  Getfile!Forward
    <3> QED BY <2>4, <3>1, <3>2, <3>3, <3>4, <3>5 DEF Getfile!Keys
  <2> QED BY <2>2, <2>3, <2>4
<1>3. CASE Getfile!Joined
  <2>1. /\ fileResult = "unknown" /\ shutdown /\ fileResult' = "accept"
        /\ UNCHANGED <<asks, fileName, area, showing, shutdown, kind, confirmed, starved>>
    BY <1>3 DEF Getfile!Joined, Getfile!history
  <2>2. AskedTyped' /\ NameTaken' = NameTaken
    BY <2>1 DEF AskedInv, AskedTyped, NameTaken
  <2> QED BY <2>1, <2>2 DEF AskedInv
<1>4. CASE Getfile!Failed \/ Getfile!Close
  <2>1. /\ fileResult' \in {"cancel", "closed"}
        /\ UNCHANGED <<asks, fileName, area, showing, shutdown, kind, confirmed, starved>>
    BY <1>4 DEF Getfile!Failed, Getfile!Close, Getfile!history
  <2>2. AskedTyped'
    BY <2>1 DEF AskedInv, AskedTyped
  <2> QED BY <2>1, <2>2 DEF AskedInv
<1>5. CASE UNCHANGED Getfile!vars
  <2>1. UNCHANGED <<asks, fileName, area, showing, shutdown, fileResult, kind, confirmed, starved>>
    BY <1>5 DEF Getfile!vars
  <2>2. AskedTyped' /\ NameTaken' = NameTaken
    BY <2>1 DEF AskedInv, AskedTyped, NameTaken
  <2> QED BY <2>1, <2>2 DEF AskedInv
<1> QED BY <1>1, <1>2, <1>3, <1>4, <1>5 DEF Getfile!Next

\* The selection stays among the entries.
LEMMA SelectionStep ==
  ASSUME Placed, SelectionInv, Getfile!Next \/ UNCHANGED Getfile!vars
  PROVE  SelectionInv'
<1>1. /\ Getfile!Max(EntryCounts) \in Nat /\ ListLines \in Nat \ {0}
      /\ \A n \in EntryCounts : n \in Nat /\ n <= Getfile!Max(EntryCounts)
  BY MostEntries DEF Placed
<1>2. CASE Getfile!Start
  <2>1. allEntries' = 0 /\ selectPos' = 0
    BY <1>2 DEF Getfile!Start
  <2> QED BY <1>1, <2>1 DEF SelectionInv
<1>3. CASE Getfile!Entered
  <2> DEFINE N == IF allEntries = 0 THEN EntryCounts ELSE {allEntries}
             p == IF allEntries = 0 THEN 0 ELSE selectPos
  <2>1. PICK n \in N : IF showing # "none" THEN Getfile!Boxed /\ allEntries' = n /\ selectPos' = p
                                           ELSE Getfile!Keys(n, p)
    BY <1>3 DEF Getfile!Entered
  <2>2. n \in EntryCounts /\ p \in Int /\ (n > 0 => p \in 0 .. n - 1) /\ (n = 0 => p = 0)
    BY <1>1 DEF SelectionInv
  <2>3. n \in Nat /\ n <= Getfile!Max(EntryCounts)
    BY <1>1, <2>2
  <2> HIDE DEF N, p
  <2>4. (allEntries' = n /\ selectPos' = p) \/ (allEntries' = 0 /\ selectPos' = p)
          \/ (Getfile!Select(n, p) /\ allEntries' = n)
    BY <2>1 DEF Getfile!Keys
  <2>5. CASE allEntries' = n /\ selectPos' = p
    BY <1>1, <2>2, <2>3, <2>5 DEF SelectionInv
  <2>6. CASE allEntries' = 0 /\ selectPos' = p
    BY <1>1, <2>2, <2>3, <2>6 DEF SelectionInv
  <2>7. CASE Getfile!Select(n, p) /\ allEntries' = n
    <3>1. Getfile!Max({p - ListLines, 0}) = IF p - ListLines > 0 THEN p - ListLines ELSE 0
      <4>1. \A a \in Int : (CHOOSE x \in {a, 0} : \A y \in {a, 0} : x >= y) = IF a > 0 THEN a ELSE 0
        OBVIOUS
      <4>2. p - ListLines \in Int
        BY <1>1, <2>2
      <4> QED BY <4>1, <4>2 DEF Getfile!Max
    <3>2. selectPos' \in { IF p = 0 THEN n - 1 ELSE p - 1, IF p + 1 >= n THEN 0 ELSE p + 1,
                           IF p - ListLines > 0 THEN p - ListLines ELSE 0,
                           IF p + ListLines >= n THEN n - 1 ELSE p + ListLines }
      BY <2>7, <3>1 DEF Getfile!Select
    <3>3. /\ selectPos' \in Int /\ -1 <= selectPos' /\ selectPos' <= n
          /\ n > 0 => selectPos' \in 0 .. n - 1
      BY <1>1, <2>2, <2>3, <3>2
    <3> QED BY <1>1, <2>2, <2>3, <2>7, <3>3 DEF SelectionInv
  <2> QED BY <2>4, <2>5, <2>6, <2>7
<1>4. CASE Getfile!Joined \/ Getfile!Failed \/ Getfile!Close
  BY <1>4 DEF Getfile!Joined, Getfile!Failed, Getfile!Close, SelectionInv
<1>5. CASE UNCHANGED Getfile!vars
  BY <1>5 DEF Getfile!vars, SelectionInv
<1> QED BY <1>2, <1>3, <1>4, <1>5 DEF Getfile!Next

\* The name stays behind the path, what was accepted is allowed, and the selection is of the list.
LEMMA GetfileInvariant == ASSUME Placed PROVE Getfile!Spec => []GetfileInv
<1>1. GetfileInv /\ [Getfile!Next]_(Getfile!vars) => GetfileInv'
  BY PathStep, AskedStep, SelectionStep DEF GetfileInv
<1> QED BY <1>1, GetfileInitInv, PTL DEF Getfile!Spec

\* The dialog for a file's name (getfilename.c) keeps to its states.
THEOREM GetfileTypeCorrect == ASSUME Placed PROVE Getfile!Spec => []Getfile!TypeOK
<1>1. GetfileInv => Getfile!TypeOK
  <2>1. Getfile!Max(EntryCounts) \in Nat
    BY MostEntries
  <2>2. SelectionInv => selectPos \in -1 .. Getfile!Max(EntryCounts)
    BY <2>1 DEF SelectionInv
  <2> QED BY <2>2 DEF GetfileInv, PathInv, AskedInv, AskedTyped, SelectionInv, Getfile!TypeOK,
                      Getfile!Names
<1> QED BY <1>1, GetfileInvariant, PTL

\* The name is right behind the path, and the two fit, for any names and any buffer.
LEMMA NameBehindPathCorrect == ASSUME Placed PROVE Getfile!Spec => []Getfile!NameBehindPath
<1>1. GetfileInv => Getfile!NameBehindPath
  BY DEF GetfileInv, PathInv, Getfile!NameBehindPath
<1> QED BY <1>1, GetfileInvariant, PTL

\* What is accepted may be: the user was asked, and the file is there.
LEMMA AcceptedAllowedCorrect == ASSUME Placed PROVE Getfile!Spec => []Getfile!AcceptedAllowed
<1>1. GetfileInv => Getfile!AcceptedAllowed
  BY DEF GetfileInv, AskedInv, NameTaken, Getfile!AcceptedAllowed
<1> QED BY <1>1, GetfileInvariant, PTL

\* The selected entry is on the screen, for any number of lines.
LEMMA SelectionShownCorrect == ASSUME Placed PROVE Getfile!Spec => []Getfile!SelectionShown
<1>1. GetfileInv => Getfile!SelectionShown
  <2> SUFFICES ASSUME SelectionInv, allEntries > 0
               PROVE  /\ selectPos \in 0 .. allEntries - 1
                      /\ selectPos \in Getfile!FirstLine .. Getfile!FirstLine + ListLines - 1
    BY DEF GetfileInv, Getfile!SelectionShown
  <2>1. allEntries \in Nat /\ selectPos \in 0 .. allEntries - 1 /\ ListLines \in Nat \ {0}
    BY MostEntries DEF SelectionInv, Placed
  <2> DEFINE half == ListLines \div 2
  <2>2. half \in Int /\ 0 <= half /\ half <= ListLines - 1 /\ 2 * half <= ListLines
    BY <2>1
  <2>3. Getfile!FirstLine = IF allEntries < ListLines \/ selectPos < half THEN 0
                            ELSE IF selectPos > allEntries - half THEN allEntries - ListLines
                            ELSE selectPos - half
    BY DEF Getfile!FirstLine
  <2> HIDE DEF half
  <2>4. CASE allEntries < ListLines \/ selectPos < half
    BY <2>1, <2>2, <2>3, <2>4
  <2>5. CASE ~(allEntries < ListLines \/ selectPos < half) /\ selectPos > allEntries - half
    <3>1. Getfile!FirstLine = allEntries - ListLines
      BY <2>3, <2>5
    <3> QED BY <2>1, <2>2, <2>5, <3>1
  <2>6. CASE ~(allEntries < ListLines \/ selectPos < half) /\ ~(selectPos > allEntries - half)
    <3>1. Getfile!FirstLine = selectPos - half
      BY <2>3, <2>6
    <3> QED BY <2>1, <2>2, <3>1
  <2> QED BY <2>4, <2>5, <2>6
<1> QED BY <1>1, GetfileInvariant, PTL

-----------------------------------------------------------------------------
(* Remap: the list of the remap function, and its files. *)

\* A fold over a sequence of n elements, from the first on: H[<<i, x>>] is what its i-th step makes
\* of x, and a step ends in X when it begins there.
StepsIn(H, n, X) == \A i \in 1 .. n, x \in X : H[<<i, x>>] \in X
StepsBy(of, n, base, H) ==
  \A s \in SUBSET (1 .. n) :
    of[s] = IF s = {} THEN base ELSE H[<<Remap!Max(s), of[s \ {Remap!Max(s)}]>>]
StepsByIn(X, of, n, base, H) ==
  /\ of[{}] = base
  /\ \A s \in SUBSET (1 .. n) : s # {} /\ of[s \ {Remap!Max(s)}] \in X
       => of[s] = H[<<Remap!Max(s), of[s \ {Remap!Max(s)}]>>]

\* Such a fold has values in X, and what steps as it does ends there.
LEMMA StepsExist ==
  ASSUME NEW n \in Nat, NEW X, NEW base \in X, NEW H, StepsIn(H, n, X)
  PROVE  /\ \E it \in [SUBSET (1 .. n) -> X] : StepsBy(it, n, base, H)
         /\ \A s \in SUBSET (1 .. n) : s # {} => Remap!Max(s) \in s
         /\ \A of : StepsByIn(X, of, n, base, H) => of[1 .. n] \in X
<1> DEFINE S == 1 .. n
           c == [s \in SUBSET S |-> Remap!Max(s)]
           G == [z \in (SUBSET S) \X X |-> H[<<Remap!Max(z[1]), z[2]>>]]
<1>1. IsFiniteSet(S)
  BY Counted
<1>2. \A s \in SUBSET S : s # {} => Remap!Max(s) \in s
  BY <1>1, Greatest DEF Remap!Max
<1>3. \A s \in SUBSET S : c[s] = Remap!Max(s)
  OBVIOUS
<1> HIDE DEF c
<1>4. \A s \in SUBSET S, x \in X : G[<<s, x>>] = H[<<Remap!Max(s), x>>]
  <2> HIDE DEF S
  <2>1. TAKE s \in SUBSET S, x \in X
  <2>2. <<s, x>> \in (SUBSET S) \X X /\ <<s, x>>[1] = s /\ <<s, x>>[2] = x
    BY <2>1
  <2> QED BY <2>2
<1> HIDE DEF G
<1>5. Takes(c, S) /\ Closed(G, S, X)
  BY <1>2, <1>3, <1>4 DEF Takes, Closed, StepsIn
<1>6. PICK it \in [SUBSET S -> X] : Folds(it, S, base, c, G)
  BY <1>1, <1>5, FoldExists
<1>7. StepsBy(it, n, base, H)
  <2>1. ASSUME NEW s \in SUBSET S
        PROVE  it[s] = IF s = {} THEN base ELSE H[<<Remap!Max(s), it[s \ {Remap!Max(s)}]>>]
    <3>1. it[s \ {Remap!Max(s)}] \in X
      OBVIOUS
    <3>2. it[s] = IF s = {} THEN base ELSE G[<<s, it[s \ {Remap!Max(s)}]>>]
      BY <1>3, <1>6 DEF Folds
    <3> QED BY <1>4, <3>1, <3>2
  <2> QED BY <2>1 DEF StepsBy
<1>8. ASSUME NEW of, StepsByIn(X, of, n, base, H) PROVE of[S] \in X
  <2>1. ASSUME NEW s \in SUBSET S, s # {}, of[s \ {c[s]}] \in X
        PROVE  of[s] = G[<<s, of[s \ {c[s]}]>>]
    <3>1. of[s \ {Remap!Max(s)}] \in X
      BY <1>3, <2>1
    <3>2. of[s] = H[<<Remap!Max(s), of[s \ {Remap!Max(s)}]>>]
      BY <1>8, <2>1, <3>1 DEF StepsByIn
    <3> QED BY <1>3, <1>4, <3>1, <3>2
  <2>2. of[{}] = base
    BY <1>8 DEF StepsByIn
  <2>3. FoldsIn(X, of, S, base, c, G)
    BY <2>1, <2>2 DEF FoldsIn
  <2>4. IsFold(it, S, X, base, c, G)
    BY <1>1, <1>5, <1>6 DEF IsFold
  <2>5. \A s \in SUBSET S : of[s] = it[s]
    <3> HIDE DEF S
    <3> QED BY <2>3, <2>4, FoldAgrees
  <2> QED BY <2>5
<1> QED BY <1>2, <1>6, <1>7, <1>8

RemapEntries == [real : Remap!Values, remap : Remap!Values]

\* One entry of the list is selected if there is one.
Chosen(p) == IF p.list = <<>> THEN p.selected = 0 ELSE p.selected \in 1 .. Len(p.list)
RemapParams == {p \in [list : Seq(RemapEntries), selected : Nat] : Chosen(p)}

\* What the scan of a file and the load of its sections have at hand.
Sections(N) == [name : N, start : Nat, end : Nat]
Scans(N)    == {f \in [at : Nat, sections : Seq(Sections(N))] : f.sections # <<>>}
Loads(n)    == [params : RemapParams, last : 1 .. n, at : Nat]

\* The list as a pair (remap_add, remap_delete): what is selected stays in it.
LEMMA AddedTo ==
  ASSUME NEW p \in RemapParams
  PROVE  /\ Remap!Added(p) \in RemapParams
         /\ Remap!Added(p).selected = Len(p.list) + 1 /\ Len(Remap!Added(p).list) = Len(p.list) + 1
<1>1. Remap!Unset \in RemapEntries
  BY DEF Remap!Unset, RemapEntries, Remap!Values
<1>2. p.list \in Seq(RemapEntries) /\ Len(p.list) \in Nat
  BY DEF RemapParams
<1>3. /\ Append(p.list, Remap!Unset) \in Seq(RemapEntries) /\ Append(p.list, Remap!Unset) # <<>>
      /\ Len(Append(p.list, Remap!Unset)) = Len(p.list) + 1
  BY <1>1, <1>2, AppendProperties
<1> HIDE DEF RemapEntries
<1> QED BY <1>2, <1>3 DEF Remap!Added, RemapParams, Chosen

\* remap_delete leaves a list with an entry selected, if any is left.
LEMMA DeletedFrom ==
  ASSUME NEW p \in RemapParams
  PROVE  Remap!Deleted(p) \in RemapParams
<1>1. p.list \in Seq(RemapEntries) /\ Len(p.list) \in Nat /\ p.selected \in Nat /\ Chosen(p)
  BY DEF RemapParams
<1>2. CASE p.selected = 0
  BY <1>2 DEF Remap!Deleted
<1>3. CASE p.selected # 0
  <2>1. p.list # <<>> /\ p.selected \in 1 .. Len(p.list)
    BY <1>1, <1>3 DEF Chosen
  <2> DEFINE l == SubSeq(p.list, 1, p.selected - 1)
             r == SubSeq(p.list, p.selected + 1, Len(p.list))
             rest == Remap!RemoveAt(p.list, p.selected)
  <2>2. /\ \A i \in 1 .. p.selected - 1 : p.list[i] \in RemapEntries
        /\ \A i \in p.selected + 1 .. Len(p.list) : p.list[i] \in RemapEntries
    BY <1>1, <2>1
  <2>3. l \in Seq(RemapEntries) /\ Len(l) = p.selected - 1
    <3>1. p.selected - 1 \in Int /\ 1 \in Int
      BY <1>1
    <3> QED BY <1>1, <2>1, <2>2, <3>1, SubSeqProperties
  <2>4. r \in Seq(RemapEntries) /\ Len(r) = Len(p.list) - p.selected
    <3>1. p.selected + 1 \in Int /\ Len(p.list) \in Int
      BY <1>1
    <3>2. /\ r \in Seq(RemapEntries)
          /\ Len(r) = IF p.selected + 1 <= Len(p.list) THEN Len(p.list) - (p.selected + 1) + 1 ELSE 0
      BY <2>2, <3>1, SubSeqProperties
    <3> HIDE DEF r
    <3> QED BY <1>1, <2>1, <3>2
  <2>5. rest = l \o r
    BY DEF Remap!RemoveAt
  <2> HIDE DEF l, r, rest
  <2>6. rest \in Seq(RemapEntries) /\ Len(rest) = Len(p.list) - 1
    <3>1. l \o r \in Seq(RemapEntries) /\ Len(l \o r) = Len(l) + Len(r)
      BY <2>3, <2>4, ConcatProperties
    <3>2. Len(p.list) \in Nat /\ p.selected \in Nat
      BY <1>1
    <3> HIDE DEF RemapEntries
    <3> QED BY <2>3, <2>4, <2>5, <3>1, <3>2
  <2>7. rest = <<>> <=> Len(rest) = 0
    BY <2>6, EmptySeq
  <2>8. Remap!Deleted(p) = [list |-> rest, selected |-> Remap!Neighbour(p)]
    BY <1>3 DEF Remap!Deleted, rest
  <2>9. /\ Remap!Neighbour(p) \in Nat
        /\ IF Len(rest) = 0 THEN Remap!Neighbour(p) = 0 ELSE Remap!Neighbour(p) \in 1 .. Len(rest)
    <3> DEFINE n == Len(p.list)
               m == Len(rest)
               s == p.selected
    <3>1. n \in Nat /\ s \in 1 .. n /\ m = n - 1
      BY <1>1, <2>1, <2>6
    <3>2. Remap!Neighbour(p) = IF s < n THEN s ELSE s - 1
      BY DEF Remap!Neighbour
    <3> HIDE DEF n, m, s
    <3>3. /\ Remap!Neighbour(p) \in Nat
          /\ IF m = 0 THEN Remap!Neighbour(p) = 0 ELSE Remap!Neighbour(p) \in 1 .. m
      BY <3>1, <3>2
    <3> QED BY <3>3 DEF m
  <2> HIDE DEF RemapEntries
  <2> QED BY <2>6, <2>7, <2>8, <2>9 DEF RemapParams, Chosen
<1> QED BY <1>2, <1>3

\* The value of a field is one of the buttons, or none.
LEMMA FirstIsValue == ASSUME NEW entries, NEW key PROVE Remap!FirstOf(entries, key) \in Remap!Values
<1> DEFINE Found == {i \in 1 .. Len(entries) :
                       entries[i].key = key /\ entries[i].value \in RemapButtons}
           at == IF Found # {} THEN Remap!Min(Found) ELSE 0
<1>1. Remap!FirstOf(entries, key) = IF at = 0 THEN 0 ELSE entries[at].value
  BY DEF Remap!FirstOf, Remap!SelectInSeq
<1>2. at # 0 => at \in Found
  <2>1. ASSUME Found # {} PROVE Remap!Min(Found) \in Found
    <3>1. Found \in SUBSET Nat
      OBVIOUS
    <3>2. PICK n \in Found : \A m \in Found : n <= m
      BY <2>1, <3>1, Least
    <3> HIDE DEF Found
    <3> QED BY <3>2 DEF Remap!Min
  <2> HIDE DEF Found
  <2> QED BY <2>1
<1> HIDE DEF at
<1> QED BY <1>1, <1>2 DEF Remap!Values

\* The scan of a file (inimgrLoad) finds sections, the one before the first heading at least.
LEMMA Scanned ==
  ASSUME NEW N, NEW l, l.kind = "heading" => l.name \in N, NEW found \in Scans(N)
  PROVE  Remap!ScanLine(found, l) \in Scans(N)
<1> DEFINE s == found.sections
           at == found.at + 1
           same == [s EXCEPT ![Len(s)].end = at]
           more == Append(s, Remap!NewSection(l.name, at))
<1>1. s \in Seq(Sections(N)) /\ s # <<>> /\ at \in Nat
  BY DEF Scans
<1>2. same \in Seq(Sections(N)) /\ same # <<>>
  <2> HIDE DEF s, at
  <2>1. Len(s) \in 1 .. Len(s) /\ s \in [1 .. Len(s) -> Sections(N)] /\ Len(s) \in Nat
    <3>1. s[Len(s)] = s[Len(s)] /\ Len(s) \in Nat /\ Len(s) # 0
      BY <1>1, EmptySeq
    <3> QED BY <1>1, <3>1
  <2>2. [s[Len(s)] EXCEPT !.end = at] \in Sections(N)
    <3>1. s[Len(s)] \in Sections(N)
      BY <2>1
    <3> QED BY <1>1, <3>1 DEF Sections
  <2>3. same = [s EXCEPT ![Len(s)] = [s[Len(s)] EXCEPT !.end = at]]
    OBVIOUS
  <2> HIDE DEF Sections
  <2>4. same \in [1 .. Len(s) -> Sections(N)]
    BY <2>1, <2>2, <2>3
  <2> HIDE DEF same
  <2>5. Len(same) = Len(s) /\ same \in Seq(Sections(N))
    BY <2>1, <2>4
  <2> QED BY <2>1, <2>5, EmptySeq
<1>3. ASSUME l.kind = "heading" PROVE more \in Seq(Sections(N)) /\ more # <<>>
  <2>1. Remap!NewSection(l.name, at) \in Sections(N)
    BY <1>1, <1>3 DEF Remap!NewSection, Sections
  <2> HIDE DEF s, at
  <2> QED BY <1>1, <2>1, AppendProperties
<1>4. Remap!ScanLine(found, l) = [at |-> at, sections |-> IF l.kind = "heading" THEN more ELSE same]
  BY DEF Remap!ScanLine
<1> HIDE DEF s, at, same, more, Sections
<1> QED BY <1>1, <1>2, <1>3, <1>4 DEF Scans

NamesOf(text) == {Remap!Default} \cup {text[i].name : i \in 1 .. Len(text)}

\* A file has sections, whatever its lines are.
LEMMA SectionsFound ==
  ASSUME NEW V, NEW text \in Seq(V)
  PROVE  Remap!SectionsOf(text) \in Seq(Sections(NamesOf(text))) /\ Remap!SectionsOf(text) # <<>>
<1> DEFINE N == NamesOf(text)
           X == Scans(N)
           Signs == {i \in 1 .. Len(text) : text[i].kind = "signature"}
           sign == IF Signs # {} THEN Remap!Min(Signs) ELSE 0
           rest == SubSeq(text, sign + 1, Len(text))
           n == Len(rest)
           base == [at |-> sign, sections |-> <<Remap!NewSection(Remap!Default, sign)>>]
           H == [z \in (1 .. n) \X X |-> Remap!ScanLine(z[2], rest[z[1]])]
           Iter == CHOOSE f : f = [s \in SUBSET (1 .. n) |-> IF s = {} THEN base
                     ELSE Remap!ScanLine(f[s \ {Remap!Max(s)}], rest[Remap!Max(s)])]
<1>1. sign \in 0 .. Len(text) /\ Len(text) \in Nat
  <2>1. ASSUME Signs # {} PROVE Remap!Min(Signs) \in Signs
    <3>1. Signs \in SUBSET Nat
      OBVIOUS
    <3>2. PICK i \in Signs : \A m \in Signs : i <= m
      BY <2>1, <3>1, Least
    <3> HIDE DEF Signs
    <3> QED BY <3>2 DEF Remap!Min
  <2>2. Signs \subseteq 1 .. Len(text) /\ Len(text) \in Nat
    OBVIOUS
  <2> DEFINE first == Remap!Min(Signs)
  <2>3. sign = IF Signs # {} THEN first ELSE 0
    OBVIOUS
  <2>4. Signs # {} => first \in 1 .. Len(text)
    BY <2>1, <2>2
  <2> HIDE DEF Signs, first, sign
  <2> QED BY <2>2, <2>3, <2>4
<1>2. Remap!SectionsOf(text) =
        Remap!FoldLeft(Remap!ScanLine, base, rest).sections
  BY DEF Remap!SectionsOf, Remap!SelectInSeq
<1> HIDE DEF sign
<1>3. rest \in Seq(V) /\ DOMAIN rest = 1 .. n /\ n \in Nat /\ \A i \in 1 .. n : rest[i] = text[sign + i]
      /\ n <= Len(text) - sign
  <2>1. \A i \in sign + 1 .. Len(text) : text[i] \in V
    BY <1>1
  <2>2. sign + 1 \in Int /\ Len(text) \in Int
    BY <1>1
  <2>3. rest \in Seq(V) /\ n = (IF sign + 1 <= Len(text) THEN Len(text) - (sign + 1) + 1 ELSE 0)
        /\ \A i \in 1 .. Len(text) - (sign + 1) + 1 : rest[i] = text[(sign + 1) + i - 1]
    BY <2>1, <2>2, SubSeqProperties
  <2> HIDE DEF rest
  <2>4. n \in Nat /\ DOMAIN rest = 1 .. n
    BY <2>3
  <2> HIDE DEF n
  <2>5. n <= Len(text) - sign
    BY <1>1, <2>3
  <2>6. ASSUME NEW i \in 1 .. n PROVE rest[i] = text[sign + i]
    <3>1. i \in 1 .. Len(text) - (sign + 1) + 1 /\ (sign + 1) + i - 1 = sign + i
      BY <1>1, <2>4, <2>5
    <3> QED BY <2>3, <3>1
  <2> QED BY <2>3, <2>4, <2>5, <2>6
<1> HIDE DEF rest, n
<1>4. \A i \in 1 .. n, x \in X : Remap!ScanLine(x, rest[i]) \in X
  <2>1. ASSUME NEW i \in 1 .. n PROVE rest[i].name \in N
    <3>1. sign + i \in 1 .. Len(text)
      BY <1>1, <1>3
    <3> QED BY <1>3, <3>1 DEF NamesOf
  <2> HIDE DEF N
  <2> QED BY <2>1, Scanned
<1>5. \A i \in 1 .. n, x \in X : H[<<i, x>>] = Remap!ScanLine(x, rest[i])
  OBVIOUS
<1> HIDE DEF H
<1>6. base \in X
  <2>1. Remap!NewSection(Remap!Default, sign) \in Sections(N)
    BY <1>1 DEF Remap!NewSection, Sections, NamesOf
  <2> HIDE DEF N
  <2> DEFINE first == <<Remap!NewSection(Remap!Default, sign)>>
  <2>2. first \in Seq(Sections(N)) /\ first # <<>>
    BY <2>1
  <2>3. base = [at |-> sign, sections |-> first] /\ sign \in Nat
    BY <1>1
  <2> HIDE DEF first, base
  <2> QED BY <2>2, <2>3 DEF Scans
<1>7. Remap!FoldLeft(Remap!ScanLine, base, rest) = Iter[1 .. n]
  BY <1>3 DEF Remap!FoldLeft, Remap!MapThenFoldSet
<1> HIDE DEF base, X
<1>8. StepsIn(H, n, X)
  BY <1>4, <1>5 DEF StepsIn
<1>9. PICK it \in [SUBSET (1 .. n) -> X] : StepsBy(it, n, base, H)
  BY <1>3, <1>6, <1>8, StepsExist
<1>10. \A s \in SUBSET (1 .. n) : s # {} => Remap!Max(s) \in s
  BY <1>3, <1>6, <1>8, StepsExist
<1>11. it = [s \in SUBSET (1 .. n) |-> IF s = {} THEN base
               ELSE Remap!ScanLine(it[s \ {Remap!Max(s)}], rest[Remap!Max(s)])]
  <2>1. ASSUME NEW s \in SUBSET (1 .. n)
        PROVE  it[s] = IF s = {} THEN base
                       ELSE Remap!ScanLine(it[s \ {Remap!Max(s)}], rest[Remap!Max(s)])
    <3>1. it[s \ {Remap!Max(s)}] \in X
      OBVIOUS
    <3> QED BY <1>5, <1>9, <1>10, <3>1 DEF StepsBy
  <2>2. it = [s \in SUBSET (1 .. n) |-> it[s]]
    OBVIOUS
  <2> QED BY <2>1, <2>2, Zenon
<1>12. Iter = [s \in SUBSET (1 .. n) |-> IF s = {} THEN base
                 ELSE Remap!ScanLine(Iter[s \ {Remap!Max(s)}], rest[Remap!Max(s)])]
  BY <1>11, Zenon
<1> HIDE DEF Iter
<1>13. StepsByIn(X, Iter, n, base, H)
  <2>1. ASSUME NEW s \in SUBSET (1 .. n), s # {}, Iter[s \ {Remap!Max(s)}] \in X
        PROVE  Iter[s] = H[<<Remap!Max(s), Iter[s \ {Remap!Max(s)}]>>]
    <3>1. Iter[s] = Remap!ScanLine(Iter[s \ {Remap!Max(s)}], rest[Remap!Max(s)])
      BY <1>12, <2>1
    <3>2. Remap!Max(s) \in 1 .. n
      BY <1>10, <2>1
    <3> QED BY <1>5, <2>1, <3>1, <3>2
  <2>2. Iter[{}] = base
    BY <1>12
  <2> QED BY <2>1, <2>2 DEF StepsByIn
<1>14. Iter[1 .. n] \in X
  BY <1>3, <1>6, <1>8, <1>13, StepsExist
<1> QED BY <1>2, <1>7, <1>14 DEF X, Scans

\* One section of a file is loaded (remap_inicb_load): an entry more, or the list as it was.
LEMMA EntryLoaded ==
  ASSUME NEW n, NEW state \in Loads(n), NEW text, NEW N, NEW section \in Sections(N),
         NEW memory \in BOOLEAN
  PROVE  Remap!LoadEntry(text, state, section, memory) \in Loads(n)
<1> DEFINE p    == Remap!Added(state.params)
           read == Remap!ReadEntries(text, state.at, section)
           real == \E i \in DOMAIN read.entries : read.entries[i].key = "RealButtons"
           gives == [real  |-> Remap!FirstOf(read.entries, "RealButtons"),
                     remap |-> Remap!FirstOf(read.entries, "RemapButtons")]
           set  == [p EXCEPT !.list[p.selected] = gives]
           loaded == Remap!LoadEntry(text, state, section, memory)
<1>1. state.params \in RemapParams /\ state.last \in 1 .. n /\ state.at \in Nat
  BY DEF Loads
<1>2. p \in RemapParams
  BY <1>1, AddedTo
<1>3. Remap!Deleted(p) \in RemapParams
  BY <1>2, DeletedFrom
<1>4. p.list \in Seq(RemapEntries) /\ p.selected \in 1 .. Len(p.list)
  <2>1. p.selected = Len(p.list) /\ Len(state.params.list) \in Nat
    BY <1>1, AddedTo DEF RemapParams
  <2>2. p.list \in Seq(RemapEntries) /\ Chosen(p) /\ p.selected # 0
    BY <1>1, <1>2, <2>1, AddedTo DEF RemapParams
  <2> HIDE DEF p
  <2> QED BY <2>2 DEF Chosen
<1>5. gives \in RemapEntries
  BY FirstIsValue DEF RemapEntries
<1>6. read.at \in Nat
  BY <1>1 DEF Remap!ReadEntries, Sections
<1>7. set \in RemapParams
  <2> DEFINE list1 == [p.list EXCEPT ![p.selected] = gives]
  <2>1. set = [p EXCEPT !.list = list1]
    OBVIOUS
  <2> HIDE DEF p, gives, set
  <2>2. p.list \in [1 .. Len(p.list) -> RemapEntries] /\ Len(p.list) \in Nat
    BY <1>4
  <2>3. list1 \in [1 .. Len(p.list) -> RemapEntries]
    BY <1>5, <2>2
  <2>4. list1 \in Seq(RemapEntries) /\ Len(list1) = Len(p.list)
    <3> HIDE DEF list1
    <3> QED BY <2>2, <2>3
  <2> HIDE DEF list1
  <2>5. list1 # <<>>
    BY <1>4, <2>2, <2>4, EmptySeq
  <2>6. set.list = list1 /\ set.selected = p.selected /\ set = [list |-> list1, selected |-> p.selected]
    BY <1>2, <2>1 DEF RemapParams
  <2> HIDE DEF RemapEntries
  <2> QED BY <1>4, <2>2, <2>4, <2>5, <2>6 DEF RemapParams, Chosen
<1>8. loaded = IF ~memory THEN state
               ELSE [state EXCEPT !.params = IF real THEN set ELSE Remap!Deleted(p), !.at = read.at]
  BY DEF Remap!LoadEntry
<1> DEFINE q  == IF real THEN set ELSE Remap!Deleted(p)
           to == read.at
<1>9. q \in RemapParams /\ to \in Nat
  BY <1>3, <1>6, <1>7
<1>10. loaded = IF ~memory THEN state ELSE [state EXCEPT !.params = q, !.at = to]
  BY <1>8
<1> HIDE DEF p, read, real, set, loaded, q, to
<1>11. [state EXCEPT !.params = q, !.at = to] \in Loads(n)
  BY <1>9 DEF Loads
<1> QED BY <1>10, <1>11 DEF loaded

\* Loading a section leaves lists of remaps, each with an entry selected.
LEMMA SectionLoaded ==
  ASSUME NEW N, NEW sections \in Seq(Sections(N)), NEW i \in 1 .. Len(sections),
         NEW state \in Loads(Len(sections)), NEW text, NEW memory \in BOOLEAN
  PROVE  Remap!LoadSection(text, sections, state, i, memory) \in Loads(Len(sections))
<1> DEFINE n == Len(sections)
           name == sections[i].name
           Same == {j \in 1 .. n : sections[j].name = name}
           first == IF Same # {} THEN Remap!Min(Same) ELSE 0
           found == Remap!FindSection(sections, state.last, name)
           section == sections[found]
           here == [state EXCEPT !.last = found]
<1>1. found = IF sections[state.last].name = name THEN state.last ELSE first
  BY DEF Remap!FindSection, Remap!SelectInSeq
<1>2. state.last \in 1 .. n /\ state.at \in Nat
  BY DEF Loads
<1>3. first \in 1 .. n
  <2>1. i \in Same /\ Same \in SUBSET Nat /\ Same \subseteq 1 .. n
    OBVIOUS
  <2> HIDE DEF Same
  <2>2. PICK j \in Same : \A m \in Same : j <= m
    BY <2>1, Least
  <2>3. Remap!Min(Same) \in Same
    BY <2>2 DEF Remap!Min
  <2> QED BY <2>1, <2>3
<1> HIDE DEF first
<1>4. found \in 1 .. n
  BY <1>1, <1>2, <1>3
<1> HIDE DEF found
<1>5. section \in Sections(N) /\ here \in Loads(n)
  BY <1>4 DEF Loads
<1>6. Remap!LoadEntry(text, here, section, memory) \in Loads(n)
  BY <1>5, EntryLoaded
<1>7. Remap!ReadEntries(text, section.start, section).at \in Nat
  BY <1>5 DEF Remap!ReadEntries, Sections
<1>8. [here EXCEPT !.at = Remap!ReadEntries(text, section.start, section).at] \in Loads(n)
  <2> HIDE DEF here, section
  <2> QED BY <1>5, <1>7 DEF Loads
<1>9. Remap!LoadSection(text, sections, state, i, memory) =
        IF Remap!Numbered(section.name) THEN Remap!LoadEntry(text, here, section, memory)
        ELSE [here EXCEPT !.at = Remap!ReadEntries(text, section.start, section).at]
  BY DEF Remap!LoadSection, found
<1> QED BY <1>6, <1>8, <1>9

\* All sections of a file are loaded into a list: what is selected in the end is in the list.
LEMMA LoadedInto ==
  ASSUME NEW V, NEW text \in Seq(V), NEW p \in RemapParams, NEW failing
  PROVE  Remap!LoadInto(p, text, failing) \in RemapParams
<1> DEFINE sections == Remap!SectionsOf(text)
           n == Len(sections)
           X == Loads(n)
           base == [params |-> p, last |-> 1, at |-> Len(text)]
           places == [i \in DOMAIN sections |-> i]
           Next(x, i) == Remap!LoadSection(text, sections, x, i, i \notin failing)
           H == [z \in (1 .. n) \X X |-> Next(z[2], z[1])]
           Iter == CHOOSE f : f = [s \in SUBSET (1 .. n) |-> IF s = {} THEN base
                     ELSE Next(f[s \ {Remap!Max(s)}], places[Remap!Max(s)])]
           N == NamesOf(text)
<1>1. sections \in Seq(Sections(N)) /\ sections # <<>> /\ Len(text) \in Nat
  BY SectionsFound
<1> HIDE DEF sections, N
<1>2. n \in Nat /\ 1 \in 1 .. n /\ DOMAIN sections = 1 .. n
  BY <1>1, EmptySeq
<1>3. DOMAIN places = 1 .. n /\ \A i \in 1 .. n : places[i] = i
  BY <1>2
<1>4. \A i \in 1 .. n, x \in X : Next(x, i) \in X
  BY <1>1, SectionLoaded
<1>5. \A i \in 1 .. n, x \in X : H[<<i, x>>] = Next(x, i)
  OBVIOUS
<1>6. base \in X
  BY <1>1, <1>2 DEF Loads
<1>7. Remap!LoadInto(p, text, failing) = Iter[1 .. n].params
  BY <1>3 DEF Remap!LoadInto, Remap!FoldLeft, Remap!MapThenFoldSet, sections
<1> HIDE DEF H, base, places, Next, X
<1>8. StepsIn(H, n, X)
  BY <1>4, <1>5 DEF StepsIn
<1>9. PICK it \in [SUBSET (1 .. n) -> X] : StepsBy(it, n, base, H)
  BY <1>2, <1>6, <1>8, StepsExist
<1>10. \A s \in SUBSET (1 .. n) : s # {} => Remap!Max(s) \in s
  BY <1>2, <1>6, <1>8, StepsExist
<1>11. it = [s \in SUBSET (1 .. n) |-> IF s = {} THEN base
               ELSE Next(it[s \ {Remap!Max(s)}], places[Remap!Max(s)])]
  <2>1. ASSUME NEW s \in SUBSET (1 .. n)
        PROVE  it[s] = IF s = {} THEN base ELSE Next(it[s \ {Remap!Max(s)}], places[Remap!Max(s)])
    <3>1. it[s \ {Remap!Max(s)}] \in X
      OBVIOUS
    <3> QED BY <1>3, <1>5, <1>9, <1>10, <3>1 DEF StepsBy
  <2>2. it = [s \in SUBSET (1 .. n) |-> it[s]]
    OBVIOUS
  <2> QED BY <2>1, <2>2, Zenon
<1>12. Iter = [s \in SUBSET (1 .. n) |-> IF s = {} THEN base
                 ELSE Next(Iter[s \ {Remap!Max(s)}], places[Remap!Max(s)])]
  BY <1>11, Zenon
<1> HIDE DEF Iter
<1>13. StepsByIn(X, Iter, n, base, H)
  <2>1. ASSUME NEW s \in SUBSET (1 .. n), s # {}, Iter[s \ {Remap!Max(s)}] \in X
        PROVE  Iter[s] = H[<<Remap!Max(s), Iter[s \ {Remap!Max(s)}]>>]
    <3>1. Iter[s] = Next(Iter[s \ {Remap!Max(s)}], places[Remap!Max(s)])
      BY <1>12, <2>1
    <3>2. Remap!Max(s) \in 1 .. n /\ places[Remap!Max(s)] = Remap!Max(s)
      BY <1>3, <1>10, <2>1
    <3> QED BY <1>5, <2>1, <3>1, <3>2
  <2>2. Iter[{}] = base
    BY <1>12
  <2> QED BY <2>1, <2>2 DEF StepsByIn
<1>14. Iter[1 .. n] \in X
  BY <1>2, <1>6, <1>8, <1>13, StepsExist
<1> QED BY <1>7, <1>14 DEF X, Loads

FileLines ==
  [kind : {"signature"}, good : {TRUE}] \cup [kind : {"other"}]
  \cup [kind : {"heading"}, name : {<<"Remap", i>> : i \in Nat}]
  \cup [kind : {"entry"}, key : {"RealButtons", "RemapButtons"}, value : Remap!Values]
FileSections == [name : {Remap!Default} \cup {<<"Remap", i>> : i \in Nat}, entries : Seq(FileLines)]

\* A section that is saved adds lines to a file.
LEMMA SectionSaved ==
  ASSUME NEW written \in Seq(FileLines), NEW s \in FileSections
  PROVE  Remap!SaveSection(written, s.name, s.entries) \in Seq(FileLines)
<1>1. s.entries \in Seq(FileLines) /\ Remap!Other \in FileLines /\ <<>> \in Seq(FileLines)
  BY DEF FileSections, FileLines, Remap!Other
<1>2. CASE s.name = Remap!Default
  BY <1>1, <1>2, ConcatProperties DEF Remap!SaveSection
<1>3. CASE s.name # Remap!Default
  <2> DEFINE begun == IF written = <<>> THEN <<>> ELSE written \o <<Remap!Other>>
             head  == <<Remap!Heading(s.name)>>
  <2>1. Remap!Heading(s.name) \in FileLines
    BY <1>3 DEF FileSections, FileLines, Remap!Heading
  <2>2. <<Remap!Other>> \in Seq(FileLines) /\ head \in Seq(FileLines)
    <3> HIDE DEF FileLines
    <3> QED BY <1>1, <2>1
  <2>3. begun \in Seq(FileLines)
    BY <1>1, <2>2, ConcatProperties
  <2>4. Remap!SaveSection(written, s.name, s.entries) = begun \o head \o s.entries
    BY <1>3 DEF Remap!SaveSection
  <2> HIDE DEF begun, head
  <2> QED BY <1>1, <2>2, <2>3, <2>4, ConcatProperties
<1> QED BY <1>2, <1>3

\* What remap_save writes is a file.
LEMMA ListSaved ==
  ASSUME NEW entries \in Seq(RemapEntries), NEW k \in 1 .. Len(entries)
  PROVE  Remap!SaveLines(entries, k) \in Seq(FileLines)
<1> DEFINE head == <<[name |-> Remap!Default, entries |-> <<>>]>>
           parts == [i \in 1 .. k |-> [name |-> <<"Remap", i>>,
                       entries |-> <<Remap!Entry("RealButtons", entries[i].real),
                                     Remap!Entry("RemapButtons", entries[i].remap)>>]]
           sections == head \o parts
           n == Len(sections)
           base == <<Remap!Signature(TRUE)>>
           X == Seq(FileLines)
           Next(x, s) == Remap!SaveSection(x, s.name, s.entries)
           H == [z \in (1 .. n) \X X |-> Next(z[2], sections[z[1]])]
           Iter == CHOOSE f : f = [s \in SUBSET (1 .. n) |-> IF s = {} THEN base
                     ELSE Next(f[s \ {Remap!Max(s)}], sections[Remap!Max(s)])]
<1>1. parts \in Seq(FileSections)
  <2>1. k \in Nat
    OBVIOUS
  <2>2. ASSUME NEW i \in 1 .. k PROVE parts[i] \in FileSections
    <3> DEFINE a == Remap!Entry("RealButtons", entries[i].real)
               b == Remap!Entry("RemapButtons", entries[i].remap)
    <3>1. entries[i] \in RemapEntries
      OBVIOUS
    <3>2. a \in FileLines /\ b \in FileLines
      BY <3>1 DEF FileLines, RemapEntries, Remap!Entry
    <3> DEFINE two == <<a, b>>
    <3>3. parts[i] = [name |-> <<"Remap", i>>, entries |-> two]
      OBVIOUS
    <3> HIDE DEF a, b, FileLines, parts
    <3>4. two \in Seq(FileLines)
      BY <3>2
    <3>5. <<"Remap", i>> \in {Remap!Default} \cup {<<"Remap", j>> : j \in Nat}
      OBVIOUS
    <3> HIDE DEF two
    <3> QED BY <3>3, <3>4, <3>5 DEF FileSections
  <2> DEFINE F(i) == [name |-> <<"Remap", i>>,
                      entries |-> <<Remap!Entry("RealButtons", entries[i].real),
                                    Remap!Entry("RemapButtons", entries[i].remap)>>]
  <2>3. parts \in [1 .. k -> FileSections]
    <3>1. parts = [i \in 1 .. k |-> F(i)]
      OBVIOUS
    <3>2. \A i \in 1 .. k : F(i) \in FileSections
      BY <2>2
    <3> HIDE DEF F, parts, FileSections
    <3> QED BY <3>1, <3>2
  <2> HIDE DEF parts, FileSections
  <2> QED BY <2>1, <2>3
<1>2. head \in Seq(FileSections)
  <2> DEFINE one == [name |-> Remap!Default, entries |-> <<>>]
  <2>1. one \in FileSections
    <3>1. <<>> \in Seq(FileLines)
      OBVIOUS
    <3> QED BY <3>1 DEF FileSections
  <2>2. head = <<one>>
    OBVIOUS
  <2> HIDE DEF one, FileSections, head
  <2> QED BY <2>1, <2>2
<1>3. Remap!SaveLines(entries, k) = Remap!FoldLeft(LAMBDA x, s : Next(x, s), base, sections)
  BY DEF Remap!SaveLines, Remap!Save, Remap!SaveSections
<1> HIDE DEF head, parts
<1>4. sections \in Seq(FileSections)
  BY <1>1, <1>2, ConcatProperties
<1> HIDE DEF sections, FileSections
<1>5. n \in Nat /\ DOMAIN sections = 1 .. n /\ \A i \in 1 .. n : sections[i] \in FileSections
  BY <1>4
<1>6. base \in X
  <2> DEFINE one == Remap!Signature(TRUE)
  <2>1. one \in FileLines
    BY DEF FileLines, Remap!Signature
  <2>2. base = <<one>>
    OBVIOUS
  <2> HIDE DEF one, base, FileLines
  <2> QED BY <2>1, <2>2
<1>7. Remap!SaveLines(entries, k) = Iter[1 .. n]
  BY <1>3, <1>5 DEF Remap!FoldLeft, Remap!MapThenFoldSet
<1>8. \A i \in 1 .. n, x \in X : H[<<i, x>>] = Next(x, sections[i]) /\ Next(x, sections[i]) \in X
  BY <1>5, SectionSaved
<1> HIDE DEF H, base, Next, X
<1>9. StepsIn(H, n, X)
  BY <1>8 DEF StepsIn
<1>10. PICK it \in [SUBSET (1 .. n) -> X] : StepsBy(it, n, base, H)
  BY <1>5, <1>6, <1>9, StepsExist
<1>11. \A s \in SUBSET (1 .. n) : s # {} => Remap!Max(s) \in s
  BY <1>5, <1>6, <1>9, StepsExist
<1>12. it = [s \in SUBSET (1 .. n) |-> IF s = {} THEN base
               ELSE Next(it[s \ {Remap!Max(s)}], sections[Remap!Max(s)])]
  <2>1. ASSUME NEW s \in SUBSET (1 .. n)
        PROVE  it[s] = IF s = {} THEN base ELSE Next(it[s \ {Remap!Max(s)}], sections[Remap!Max(s)])
    <3>1. it[s \ {Remap!Max(s)}] \in X
      OBVIOUS
    <3> QED BY <1>8, <1>10, <1>11, <3>1 DEF StepsBy
  <2>2. it = [s \in SUBSET (1 .. n) |-> it[s]]
    OBVIOUS
  <2> QED BY <2>1, <2>2, Zenon
<1>13. Iter = [s \in SUBSET (1 .. n) |-> IF s = {} THEN base
                 ELSE Next(Iter[s \ {Remap!Max(s)}], sections[Remap!Max(s)])]
  BY <1>12, Zenon
<1> HIDE DEF Iter
<1>14. StepsByIn(X, Iter, n, base, H)
  <2>1. ASSUME NEW s \in SUBSET (1 .. n), s # {}, Iter[s \ {Remap!Max(s)}] \in X
        PROVE  Iter[s] = H[<<Remap!Max(s), Iter[s \ {Remap!Max(s)}]>>]
    <3>1. Iter[s] = Next(Iter[s \ {Remap!Max(s)}], sections[Remap!Max(s)])
      BY <1>13, <2>1
    <3>2. Remap!Max(s) \in 1 .. n
      BY <1>11, <2>1
    <3> QED BY <1>8, <2>1, <3>1, <3>2
  <2>2. Iter[{}] = base
    BY <1>13
  <2> QED BY <2>1, <2>2 DEF StepsByIn
<1>15. Iter[1 .. n] \in X
  BY <1>5, <1>6, <1>9, <1>14, StepsExist
<1> QED BY <1>7, <1>15 DEF X

\* PageLines is a number of lines.
Paged == PageLines \in Nat

\* The dialogs for buttons write to the entry that is selected: there is one.
RemapInv ==
  /\ list \in Seq(RemapEntries) /\ selected \in Nat /\ Remap!SelectedInList
  /\ dialog \in {"real", "remap"} => list # <<>>
  /\ file \in Seq(FileLines)

\* At first the list is empty.
LEMMA RemapStarts == Remap!Init => RemapInv
BY DEF Remap!Init, RemapInv, Remap!SelectedInList

\* The menu, its dialogs, loading and saving keep the invariant.
LEMMA RemapStep ==
  ASSUME Paged, RemapInv, [Remap!Next]_(Remap!vars)
  PROVE  RemapInv'
<1> USE DEF Paged
<1>1. /\ list \in Seq(RemapEntries) /\ selected \in Nat /\ file \in Seq(FileLines)
      /\ dialog \in {"real", "remap"} => list # <<>>
      /\ IF list = <<>> THEN selected = 0 ELSE selected \in 1 .. Len(list)
      /\ Len(list) \in Nat
  BY DEF RemapInv, Remap!SelectedInList
<1>2. Remap!Params \in RemapParams
  BY <1>1 DEF Remap!Params, RemapParams, Chosen
<1>3. <<>> \in Seq(RemapEntries) /\ [list |-> <<>>, selected |-> 0] \in RemapParams
  <2>1. <<>> \in Seq(RemapEntries)
    OBVIOUS
  <2> HIDE DEF RemapEntries
  <2> QED BY <2>1 DEF RemapParams, Chosen
\* What a list and its selection become, with the dialog closed or another one open.
<1>4. ASSUME NEW p \in RemapParams, Remap!Become(p), file' \in Seq(FileLines),
             dialog' \in {"real", "remap"} => p.list # <<>>
      PROVE  RemapInv'
  <2>1. list' = p.list /\ selected' = p.selected /\ DOMAIN p.list = 1 .. Len(p.list)
    BY <1>4 DEF Remap!Become, RemapParams
  <2> QED BY <1>4, <2>1 DEF RemapInv, RemapParams, Chosen, Remap!SelectedInList
<1>5. ASSUME UNCHANGED <<list, selected>>, file' \in Seq(FileLines),
             dialog' \in {"real", "remap"} => list # <<>>
      PROVE  RemapInv'
  BY <1>1, <1>5 DEF RemapInv, Remap!SelectedInList
<1>6. CASE Remap!Add
  <2>1. Remap!Added(Remap!Params) \in RemapParams /\ Remap!Added(Remap!Params).selected # 0
    <3>1. Remap!Added(Remap!Params).selected = Len(list) + 1
      BY <1>2, AddedTo DEF Remap!Params
    <3> QED BY <1>1, <1>2, <3>1, AddedTo
  <2>2. Remap!Added(Remap!Params).list # <<>>
    BY <2>1 DEF RemapParams, Chosen
  <2> QED BY <1>1, <1>4, <1>6, <2>1, <2>2 DEF Remap!Add
<1>7. CASE Remap!EditRemap
  BY <1>1, <1>5, <1>7 DEF Remap!EditRemap
<1>8. CASE Remap!Accepted
  <2>1. PICK b \in Remap!Values :
          list' = IF dialog = "real" THEN [list EXCEPT ![selected].real = b]
                  ELSE [list EXCEPT ![selected].remap = b]
    BY <1>8 DEF Remap!Accepted
  <2>2. selected \in 1 .. Len(list) /\ list # <<>>
    BY <1>1, <1>8 DEF Remap!Accepted
  <2> DEFINE l == list[selected]
             e == IF dialog = "real" THEN [l EXCEPT !.real = b] ELSE [l EXCEPT !.remap = b]
  <2>3. e \in RemapEntries
    <3>1. l \in RemapEntries
      BY <1>1, <2>2
    <3> QED BY <3>1 DEF RemapEntries
  <2>4. list' = [list EXCEPT ![selected] = e]
    BY <2>1
  <2> HIDE DEF e, RemapEntries
  <2>5. list' \in Seq(RemapEntries) /\ Len(list') = Len(list)
    <3>1. list \in [1 .. Len(list) -> RemapEntries]
      BY <1>1
    <3>2. list' \in [1 .. Len(list) -> RemapEntries]
      BY <2>2, <2>3, <2>4, <3>1
    <3> QED BY <1>1, <3>2
  <2>6. list' # <<>> /\ DOMAIN list' = 1 .. Len(list)
    BY <1>1, <2>2, <2>5, EmptySeq
  <2>7. selected' = selected /\ file' = file /\ dialog' = "none"
    BY <1>8 DEF Remap!Accepted
  <2> QED BY <1>1, <2>2, <2>5, <2>6, <2>7 DEF RemapInv, Remap!SelectedInList
<1>9. CASE Remap!Cancelled
  <2> DEFINE p == IF list[selected].real = 0 THEN Remap!Deleted(Remap!Params) ELSE Remap!Params
  <2>1. p \in RemapParams /\ Remap!Become(p) /\ file' = file /\ dialog' = "none"
    BY <1>2, <1>9, DeletedFrom DEF Remap!Cancelled
  <2> HIDE DEF p
  <2> QED BY <1>1, <1>4, <2>1
<1>10. CASE Remap!Delete
  <2>1. Remap!Deleted(Remap!Params) \in RemapParams
    BY <1>2, DeletedFrom
  <2> QED BY <1>1, <1>4, <1>10, <2>1 DEF Remap!Delete, Remap!InList
<1>11. CASE Remap!Select
  <2>1. selected \in 1 .. Len(list) /\ list # <<>> /\ selected' \in Remap!Moves(selected)
        /\ UNCHANGED <<list, dialog, file>>
    BY <1>1, <1>11 DEF Remap!Select
  <2>2. selected' \in 1 .. Len(list)
    BY <1>1, <2>1 DEF Remap!Moves
  <2> QED BY <1>1, <2>1, <2>2 DEF RemapInv, Remap!SelectedInList
<1>12. CASE Remap!SwitchColumn
  BY <1>1, <1>5, <1>12 DEF Remap!SwitchColumn
<1>13. CASE Remap!AskClear
  BY <1>1, <1>5, <1>13 DEF Remap!AskClear
<1>14. CASE Remap!AnswerClear
  <2>1. PICK yes1 \in BOOLEAN : Remap!Become(IF yes1 /\ selected # 0 THEN [list |-> <<>>, selected |-> 0]
                                             ELSE Remap!Params)
    BY <1>14 DEF Remap!AnswerClear
  <2> QED BY <1>1, <1>2, <1>3, <1>4, <1>14, <2>1 DEF Remap!AnswerClear
<1>15. CASE Remap!SaveFile
  <2>1. PICK k \in 1 .. Len(list) : file' = Remap!SaveLines(list, k)
    BY <1>15 DEF Remap!SaveFile
  <2>2. file' \in Seq(FileLines)
    BY <1>1, <2>1, ListSaved
  <2> QED BY <1>1, <1>5, <1>15, <2>2 DEF Remap!SaveFile
<1>16. ASSUME NEW failing, Remap!LoadFile(failing) PROVE RemapInv'
  <2>1. Remap!LoadInto([list |-> <<>>, selected |-> 0], file, failing) \in RemapParams
    BY <1>1, <1>3, LoadedInto
  <2> QED BY <1>1, <1>4, <1>16, <2>1 DEF Remap!LoadFile
<1>17. CASE Remap!Restart
  <2>1. Remap!LoadInto([list |-> <<>>, selected |-> 0], file, {}) \in RemapParams
    BY <1>1, <1>3, LoadedInto
  <2> QED BY <1>1, <1>3, <1>4, <1>17, <2>1 DEF Remap!Restart
<1>18. CASE UNCHANGED Remap!vars
  BY <1>1, <1>5, <1>18 DEF Remap!vars
<1> QED BY <1>6, <1>7, <1>8, <1>9, <1>10, <1>11, <1>12, <1>13, <1>14, <1>15, <1>16, <1>17, <1>18
        DEF Remap!Next

\* remapMenu draws st_params.selected, and its dialogs write to it: it is in the list (remap.c).
LEMMA RemapSelectedCorrect ==
  ASSUME Paged
  PROVE  Remap!Spec => []Remap!SelectedInList
<1>1. RemapInv /\ [Remap!Next]_(Remap!vars) => RemapInv'
  BY RemapStep
<1>2. RemapInv => Remap!SelectedInList
  BY DEF RemapInv
<1> QED BY RemapStarts, <1>1, <1>2, PTL DEF Remap!Spec

-----------------------------------------------------------------------------
(* Detect: the buttons that are pressed, and the list of them. *)

\* What is left when the remainder is taken off divides.
LEMMA Divides ==
  ASSUME NEW n \in Nat, NEW k \in Nat \ {0}
  PROVE  /\ n % k \in 0 .. k - 1 /\ n % k <= n /\ (n - (n % k)) % k = 0
<1> DEFINE q == n \div k
           r == n % k
           m == k * q
           p == m \div k
           s == m % k
<1>1. q \in Nat /\ r \in 0 .. k - 1 /\ n = k * q + r
  OBVIOUS
<1>2. m \in Nat
  <2>1. \A a, b \in Nat : a * b \in Nat
    OBVIOUS
  <2> HIDE DEF q
  <2> QED BY <1>1, <2>1
<1> HIDE DEF m
<1>3. p \in Nat /\ s \in 0 .. k - 1 /\ m = k * p + s
  BY <1>2
<1> HIDE DEF q, r, p, s
<1>4. k * q = k * p + s
  BY <1>3 DEF m
<1>5. p = q
  <2>1. CASE p >= q + 1
    <3>1. k * p >= k * (q + 1)
      BY <1>1, <1>3, <2>1
    <3>2. k * (q + 1) = k * q + k
      BY <1>1
    <3> QED BY <1>1, <1>3, <1>4, <3>1, <3>2
  <2>2. CASE q >= p + 1
    <3>1. k * q >= k * (p + 1)
      BY <1>1, <1>3, <2>2
    <3>2. k * (p + 1) = k * p + k
      BY <1>1, <1>3
    <3> QED BY <1>1, <1>3, <1>4, <3>1, <3>2
  <2> QED BY <1>1, <1>3, <2>1, <2>2
<1>6. s = 0
  BY <1>1, <1>3, <1>4, <1>5
<1>7. m = n - r /\ r <= n
  BY <1>1, <1>2 DEF m
<1> QED BY <1>1, <1>6, <1>7 DEF s, r

\* Lists of buttons, in columns of which the last is not full but for one place; and users who
\* press the buttons of the list, which has the one that accepts.
Listed ==
  /\ ListRow \in Nat \ {0}
  /\ \A l \in ButtonLists :
       /\ Len(l) \in 1 .. 256 /\ DOMAIN l = 1 .. Len(l) /\ Len(l) % ListRow # ListRow - 1
       /\ AcceptButton \in Detect!Range(l) /\ PressedKeys \subseteq Detect!Range(l)
       /\ \A c \in Combinations : c \subseteq Detect!Range(l)

\* What is shown of what was pressed, while buttons are detected.
DetectInv ==
  /\ avail \in ButtonLists /\ index \in Nat /\ index < Detect!Count
  /\ given \subseteq Detect!Range(avail) /\ buttons \subseteq Detect!Range(avail)
  /\ downLast \subseteq Detect!Range(avail) /\ pressed \subseteq Detect!Range(avail)
  /\ detectMode \in {"plain", "detecting", "choosing"} /\ result \in {"unknown", "accept", "cancel"}
  /\ waiting \in BOOLEAN /\ released \in BOOLEAN
  /\ result # "unknown" => detectMode = "plain"
  /\ detectMode = "detecting" =>
       /\ waiting <=> downLast # {}
       /\ buttons = pressed
       /\ released => downLast \subseteq pressed
       /\ ~released => pressed = {} /\ downLast # {}

\* The dialog is opened with the first button of its list.
LEMMA DetectInitInv == ASSUME Listed, Detect!Init PROVE DetectInv
<1>1. Len(avail) \in 1 .. 256 /\ AcceptButton \in Detect!Range(avail)
  BY DEF Detect!Init, Listed
<1>2. /\ avail \in ButtonLists /\ given \in {{}, {AcceptButton}} /\ buttons = given
      /\ detectMode = "plain" /\ waiting = FALSE /\ index = 0 /\ result = "unknown"
      /\ downLast = {} /\ released = FALSE /\ pressed = {}
  BY DEF Detect!Init
<1>3. given \subseteq Detect!Range(avail)
  BY <1>1, <1>2
<1>4. index \in Nat /\ index < Detect!Count
  <2>1. Detect!Count = Len(avail)
    BY DEF Detect!Count
  <2> QED BY <1>1, <1>2, <2>1
<1> QED BY <1>2, <1>3, <1>4 DEF DetectInv

\* Moves in the list stay in it.
LEMMA MovesInList ==
  ASSUME Listed, DetectInv
  PROVE  /\ Detect!Up(index) \in 0 .. Len(avail) - 1 /\ Detect!Down(index) \in 0 .. Len(avail) - 1
         /\ Detect!Right(index) \in 0 .. Len(avail) - 1 /\ Detect!Left(index) \in 0 .. Len(avail) - 1
<1> DEFINE n == Len(avail)
           k == ListRow
           i == index
<1>1. n \in Nat \ {0} /\ k \in Nat \ {0} /\ i \in 0 .. n - 1 /\ n % k # k - 1
  BY DEF Listed, DetectInv, Detect!Count
<1>2. i % k \in 0 .. k - 1 /\ i % k <= i
  <2> HIDE DEF n, k, i
  <2>1. i \in Nat
    BY <1>1
  <2> QED BY <1>1, <2>1, Divides
<1>3. Detect!Up(i) \in 0 .. n - 1
  <2>1. Detect!Up(i) = IF i % k = 0 THEN IF i + k - 1 > n THEN n - 1 ELSE i + k - 1 ELSE i - 1
    BY DEF Detect!Up, Detect!Count
  <2>2. i % k = 0 => i + (k - 1) # n
    <3> SUFFICES ASSUME i % k = 0, i + (k - 1) = n PROVE FALSE
      OBVIOUS
    <3> DEFINE q == i \div k
               p == n \div k
               r == n % k
    <3>1. q \in Nat /\ i = k * q + (i % k)
      BY <1>1
    <3>2. i = k * q
      BY <1>1, <3>1
    <3>3. p \in Nat /\ r \in 0 .. k - 1 /\ n = k * p + r
      BY <1>1
    <3>4. r # k - 1
      BY <1>1
    <3> HIDE DEF q, p, r
    <3>5. k * q + (k - 1) = k * p + r
      BY <1>1, <3>2, <3>3
    <3>6. CASE p >= q + 1
      <4>1. k * p >= k * (q + 1)
        BY <1>1, <3>1, <3>3, <3>6
      <4>2. k * (q + 1) = k * q + k
        BY <1>1, <3>1
      <4> QED BY <1>1, <3>1, <3>3, <3>5, <4>1, <4>2
    <3>7. CASE q >= p + 1
      <4>1. k * q >= k * (p + 1)
        BY <1>1, <3>1, <3>3, <3>7
      <4>2. k * (p + 1) = k * p + k
        BY <1>1, <3>3
      <4> QED BY <1>1, <3>1, <3>3, <3>5, <4>1, <4>2
    <3>8. CASE p = q
      BY <1>1, <3>1, <3>3, <3>4, <3>5, <3>8
    <3> QED BY <3>1, <3>3, <3>6, <3>7, <3>8
  <2> HIDE DEF n, k, i
  <2>3. i % k # 0 => i # 0
    BY <1>1, <1>2
  <2> DEFINE r == i % k
  <2>4. /\ Detect!Up(i) = IF r = 0 THEN IF i + k - 1 > n THEN n - 1 ELSE i + k - 1 ELSE i - 1
        /\ r = 0 => i + (k - 1) # n
        /\ r # 0 => i # 0
    BY <2>1, <2>2, <2>3
  <2> HIDE DEF r
  <2> QED BY <1>1, <2>4
<1>4. Detect!Down(i) \in 0 .. n - 1
  <2> DEFINE q == (i \div k) * k
             last == i = n - 1 \/ (i + 1) % k = 0
  <2>1. Detect!Down(i) = IF last THEN q ELSE i + 1
    BY DEF Detect!Down, Detect!Count
  <2>2. q \in Nat /\ q <= i
    <3>1. i \div k \in Nat /\ i = k * (i \div k) + (i % k)
      BY <1>1
    <3>2. k * (i \div k) = q /\ q \in Nat
      BY <1>1, <3>1
    <3> HIDE DEF q
    <3> QED BY <1>1, <1>2, <3>1, <3>2
  <2>3. ~last => i # n - 1
    OBVIOUS
  <2> HIDE DEF q, last
  <2> QED BY <1>1, <2>1, <2>2, <2>3
<1>5. Detect!Right(i) \in 0 .. n - 1
  <2>1. Detect!Right(i) = IF i + k > n - 1 THEN i % k ELSE i + k
    BY DEF Detect!Right, Detect!Count
  <2> DEFINE r == i % k
  <2>2. Detect!Right(i) = (IF i + k > n - 1 THEN r ELSE i + k) /\ r \in Nat /\ r <= i
    BY <1>2, <2>1
  <2> HIDE DEF r, n, k, i
  <2> QED BY <1>1, <2>2
<1>6. Detect!Left(i) \in 0 .. n - 1
  <2>1. Detect!LastColumn(i) \in i .. i + n /\ Detect!LastColumn(i) < n
    <3> DEFINE m == (n - 1) - i
               j == i + (m - (m % k))
    <3>1. m \in Nat
      BY <1>1
    <3>2. m % k \in 0 .. k - 1 /\ m % k <= m /\ (m - (m % k)) % k = 0
      <4> HIDE DEF m
      <4> QED BY <1>1, <3>1, Divides
    <3> DEFINE r == m % k
    <3> HIDE DEF r
    <3>3. j \in i .. i + n /\ j < n /\ j + k >= n /\ j - i = m - r
      <4>1. j = i + (m - r) /\ r \in 0 .. k - 1 /\ r <= m
        BY <3>2 DEF r
      <4> HIDE DEF j
      <4> QED BY <1>1, <3>1, <4>1
    <3>4. (j - i) % k = 0
      <4>1. (m - r) % k = 0
        BY <3>2 DEF r
      <4> HIDE DEF j, m
      <4> QED BY <3>3, <4>1
    <3>5. \E t \in i .. i + n : (t - i) % k = 0 /\ t < n /\ t + k >= n
      BY <3>3, <3>4
    <3> QED BY <3>5 DEF Detect!LastColumn, Detect!Count
  <2>2. Detect!Left(i) = IF i < k THEN Detect!LastColumn(i) ELSE i - k
    BY DEF Detect!Left
  <2> HIDE DEF n, k, i
  <2> QED BY <1>1, <2>1, <2>2
<1> QED BY <1>3, <1>4, <1>5, <1>6

\* A frame while buttons are detected: what was taken is what was pressed.
LEMMA DetectingStep ==
  ASSUME DetectInv, detectMode = "detecting", NEW real, real \subseteq Detect!Range(avail),
         Detect!Detecting(real), downLast' = real, released' = (released \/ real = {}),
         pressed' = (IF released' THEN pressed \cup real ELSE {}), UNCHANGED <<avail, result>>
  PROVE  DetectInv' /\ Detect!Detected
<1> DEFINE again == real # {} /\ ~waiting /\ real \cap buttons # {}
           adds  == real # {} /\ ~again /\ (buttons # {} \/ ~waiting) /\ ~(real \subseteq buttons)
<1>1. /\ detectMode' = (IF again THEN "plain" ELSE detectMode)
      /\ waiting' = ((waiting /\ real # {}) \/ adds)
      /\ buttons' = (IF adds THEN buttons \cup real ELSE buttons)
      /\ UNCHANGED <<given, index>>
  BY DEF Detect!Detecting
<1>2. /\ waiting <=> downLast # {}
      /\ buttons = pressed
      /\ released => downLast \subseteq pressed
      /\ ~released => pressed = {} /\ downLast # {}
      /\ waiting \in BOOLEAN /\ released \in BOOLEAN
  BY DEF DetectInv
<1>3. waiting' \in BOOLEAN /\ released' \in BOOLEAN
  BY <1>1, <1>2
<1>4. again => buttons' = buttons /\ pressed' = pressed \cup real
  BY <1>1, <1>2
<1>5. ~again => buttons' = pressed'
  <2> SUFFICES ASSUME ~again PROVE buttons' = pressed'
    OBVIOUS
  <2>1. CASE real = {}
    BY <1>1, <1>2, <2>1
  <2>2. CASE real # {} /\ waiting
    <3>1. CASE released
      BY <1>1, <1>2, <2>2, <3>1
    <3>2. CASE ~released
      BY <1>1, <1>2, <2>2, <3>2
    <3> QED BY <3>1, <3>2
  <2>3. CASE real # {} /\ ~waiting
    BY <1>1, <1>2, <2>3
  <2> QED BY <2>1, <2>2, <2>3
<1>6. ~again => /\ waiting' <=> real # {}
                /\ released' => real \subseteq pressed'
                /\ ~released' => pressed' = {} /\ real # {}
  <2> SUFFICES ASSUME ~again PROVE /\ waiting' <=> real # {}
                                   /\ released' => real \subseteq pressed'
                                   /\ ~released' => pressed' = {} /\ real # {}
    OBVIOUS
  <2>1. waiting' <=> real # {}
    <3>1. CASE real = {}
      BY <1>1, <3>1
    <3>2. CASE real # {} /\ waiting
      BY <1>1, <3>2
    <3>3. CASE real # {} /\ ~waiting
      BY <1>1, <1>2, <3>3
    <3> QED BY <3>1, <3>2, <3>3
  <2>2. released' => real \subseteq pressed'
    OBVIOUS
  <2>3. ~released' => pressed' = {} /\ real # {}
    OBVIOUS
  <2> QED BY <2>1, <2>2, <2>3
<1>7. /\ buttons' \subseteq Detect!Range(avail) /\ pressed' \subseteq Detect!Range(avail)
      /\ downLast' \subseteq Detect!Range(avail) /\ result = "unknown"
  BY <1>1 DEF DetectInv
<1>8. again => detectMode' = "plain"
  BY <1>1
<1>9. ~again => detectMode' = "detecting"
  BY <1>1
<1>10. again <=> downLast = {} /\ downLast' \cap pressed # {}
  BY <1>2
<1> HIDE DEF again, adds
<1>11. DetectInv'
  <2>1. CASE again
    BY <1>1, <1>3, <1>7, <1>8, <2>1 DEF DetectInv, Detect!Count
  <2>2. CASE ~again
    BY <1>1, <1>3, <1>5, <1>6, <1>7, <1>9, <2>2 DEF DetectInv, Detect!Count
  <2> QED BY <2>1, <2>2
<1>12. Detect!Detected
  BY <1>4, <1>5, <1>8, <1>9, <1>10 DEF Detect!Detected
<1> QED BY <1>11, <1>12

\* A frame without: the modes and the moves.
LEMMA DetectFrame ==
  ASSUME Listed, DetectInv, NEW real, real \subseteq Detect!Range(avail), NEW pad,
         detectMode # "detecting" => real # {}, Detect!Update(real, pad)
  PROVE  DetectInv' /\ Detect!Detected
<1>0. /\ result = "unknown" /\ UNCHANGED avail
      /\ downLast' = (IF "detecting" \in {detectMode, detectMode'} THEN real ELSE {})
      /\ released' = (detectMode = "detecting" /\ (released \/ real = {}))
      /\ pressed' = (IF released' THEN pressed \cup real ELSE {})
  BY DEF Detect!Update
<1>1. CASE detectMode = "detecting"
  <2>1. Detect!Detecting(real)
    BY <1>1 DEF Detect!Update
  <2>2. UNCHANGED <<avail, result>> /\ downLast' = real /\ released' = (released \/ real = {})
    BY <1>0, <1>1, <2>1 DEF Detect!Detecting
  <2> QED BY <1>0, <1>1, <2>1, <2>2, DetectingStep
<1>2. CASE detectMode = "choosing"
  <2>1. Detect!Choosing(pad)
    BY <1>2 DEF Detect!Update
  <2>2. /\ index' \in {index, Detect!Up(index), Detect!Down(index), Detect!Right(index),
                       Detect!Left(index)}
        /\ detectMode' \in {"plain", "choosing"} /\ UNCHANGED <<given, waiting, result>>
    BY <1>2, <2>1 DEF Detect!Choosing
  <2>3. index' \in 0 .. Len(avail) - 1
    <3>1. index \in 0 .. Len(avail) - 1
      BY DEF DetectInv, Detect!Count, Listed
    <3> QED BY <2>2, <3>1, MovesInList
  <2>4. index' \in Nat /\ index' < Detect!Count'
    <3>1. Len(avail) \in Nat /\ Detect!Count' = Len(avail)
      BY <1>0 DEF DetectInv, Listed, Detect!Count
    <3> QED BY <2>3, <3>1
  <2>5. buttons' \subseteq Detect!Range(avail)
    <3>1. avail[index + 1] \in Detect!Range(avail)
      <4>1. index + 1 \in DOMAIN avail
        BY DEF DetectInv, Detect!Count, Listed
      <4> QED BY <4>1 DEF Detect!Range
    <3>2. \A b : Detect!Toggle(b) \subseteq buttons \cup {b}
      BY DEF Detect!Toggle
    <3>3. buttons' \in {buttons, Detect!Toggle(avail[index + 1])}
      BY <2>1 DEF Detect!Choosing
    <3> QED BY <3>1, <3>2, <3>3 DEF DetectInv
  <2>6. ~released' /\ downLast' = {} /\ pressed' = {}
    BY <1>0, <1>2, <2>2
  <2> HIDE DEF Detect!Count
  <2> QED BY <1>0, <1>2, <2>2, <2>4, <2>5, <2>6 DEF DetectInv, Detect!Detected
<1>3. CASE detectMode = "plain"
  <2> DEFINE key == Detect!Tested(pad, <<AcceptButton, CancelButton, "SQUARE", "TRIANGLE", "START">>)
  <2>1. /\ detectMode' = (CASE key = 1 -> "detecting" [] key = 4 -> "choosing" [] OTHER -> detectMode)
        /\ waiting' = (waiting \/ key = 1)
        /\ buttons' = (IF key \in {1, 3} THEN {} ELSE buttons)
        /\ index' = (IF key = 4 THEN 0 ELSE index)
        /\ given' = (IF key = 5 THEN buttons ELSE given)
        /\ result' = (CASE key = 2 -> "cancel" [] key = 5 -> "accept" [] OTHER -> result)
    BY <1>3 DEF Detect!Update, Detect!Plain
  <2> HIDE DEF key
  <2>2. index' \in Nat /\ index' < Detect!Count'
    <3>1. Detect!Count' = Detect!Count /\ Detect!Count \in Nat \ {0}
      BY <1>0 DEF DetectInv, Listed, Detect!Count
    <3> HIDE DEF Detect!Count
    <3> QED BY <2>1, <3>1 DEF DetectInv
  <2>3. released' = FALSE /\ pressed' = {}
    BY <1>0, <1>3
  <2>4. /\ given' \subseteq Detect!Range(avail) /\ buttons' \subseteq Detect!Range(avail)
        /\ downLast' \subseteq Detect!Range(avail) /\ waiting' \in BOOLEAN
    BY <1>0, <2>1 DEF DetectInv
  <2>5. CASE key = 1
    <3>1. detectMode' = "detecting" /\ buttons' = {} /\ result' = "unknown"
      BY <1>0, <2>1, <2>5
    <3>2. waiting'
      BY <2>1, <2>5, Zenon
    <3>3. downLast' = real
      BY <1>0, <3>1
    <3> QED BY <3>2, <3>3, <1>0, <1>3, <2>2, <2>3, <2>4, <3>1 DEF DetectInv, Detect!Detected
  <2>6. CASE key = 4
    <3>1. detectMode' = "choosing" /\ result' = "unknown"
      BY <1>0, <2>1, <2>6
    <3> QED BY <1>0, <1>3, <2>2, <2>3, <2>4, <3>1 DEF DetectInv, Detect!Detected
  <2>7. CASE key \notin {1, 4}
    <3>1. detectMode' = "plain" /\ result' \in {"unknown", "accept", "cancel"}
      BY <1>0, <1>3, <2>1, <2>7
    <3> QED BY <1>0, <1>3, <2>2, <2>3, <2>4, <3>1 DEF DetectInv, Detect!Detected
  <2> QED BY <2>5, <2>6, <2>7
<1> QED BY <1>1, <1>2, <1>3 DEF DetectInv

\* A frame of the dialog keeps the invariant, and takes what is pressed.
LEMMA DetectStep ==
  ASSUME Listed, DetectInv, Detect!Next
  PROVE  DetectInv' /\ Detect!Detected
<1>1. CASE Detect!Reopen
  <2>1. /\ given' \in {{}, {AcceptButton}} /\ buttons' = given' /\ detectMode' = "plain"
        /\ waiting' = FALSE /\ index' = 0 /\ result' = "unknown" /\ downLast' = {}
        /\ released' = FALSE /\ pressed' = {} /\ UNCHANGED avail /\ result # "unknown"
    BY <1>1 DEF Detect!Reopen
  <2>2. avail \in ButtonLists /\ detectMode = "plain"
    BY <2>1 DEF DetectInv
  <2>3. Len(avail) \in 1 .. 256 /\ AcceptButton \in Detect!Range(avail)
    BY <2>2 DEF Listed
  <2>4. given' \subseteq Detect!Range(avail)
    BY <2>1, <2>3
  <2>5. index' \in Nat /\ index' < Detect!Count'
    <3>1. Detect!Count' = Len(avail)
      BY <2>1 DEF Detect!Count
    <3> QED BY <2>1, <2>3, <3>1
  <2> HIDE DEF Detect!Count
  <2> QED BY <2>1, <2>2, <2>4, <2>5 DEF DetectInv, Detect!Detected
<1>2. CASE Detect!Frame
  <2>1. PICK real \in (IF detectMode = "detecting" THEN Combinations ELSE {{b} : b \in PressedKeys}) :
          \E pad \in {real, {}} : Detect!Update(real, pad)
    BY <1>2 DEF Detect!Frame
  <2>2. PICK pad : Detect!Update(real, pad)
    BY <2>1
  <2>3. avail \in ButtonLists
    BY DEF DetectInv
  <2>4. /\ PressedKeys \subseteq Detect!Range(avail)
        /\ \A c \in Combinations : c \subseteq Detect!Range(avail)
    BY <2>3 DEF Listed
  <2>5. real \subseteq Detect!Range(avail) /\ (detectMode # "detecting" => real # {})
    BY <2>4
  <2> QED BY <2>2, <2>5, DetectFrame
<1> QED BY <1>1, <1>2 DEF Detect!Next

\* The index is in the list, and what is shown is what was pressed.
LEMMA DetectInvariant == ASSUME Listed PROVE Detect!Spec => []DetectInv
<1>1. ASSUME DetectInv, UNCHANGED Detect!vars PROVE DetectInv'
  BY <1>1 DEF Detect!vars, DetectInv, Detect!Count
<1> QED BY <1>1, DetectInitInv, DetectStep, PTL DEF Detect!Spec

\* The dialog for buttons (detectbuttons.c) keeps to its states, for any lists.
THEOREM DetectTypeCorrect == ASSUME Listed PROVE Detect!Spec => []Detect!TypeOK
<1>1. DetectInv => Detect!TypeOK
  <2> SUFFICES ASSUME DetectInv PROVE Detect!TypeOK
    OBVIOUS
  <2>1. index \in 0 .. 255
    <3>1. Len(avail) \in 1 .. 256
      BY DEF DetectInv, Listed
    <3>2. index \in Nat /\ index < Len(avail)
      BY DEF DetectInv, Detect!Count
    <3>3. \A n \in 1 .. 256, i \in Nat : i < n => i \in 0 .. 255
      OBVIOUS
    <3> QED BY <3>1, <3>2, <3>3, Zenon
  <2> QED BY <2>1 DEF DetectInv, Detect!TypeOK
<1> QED BY <1>1, DetectInvariant, PTL

\* What is chosen is in the list.
LEMMA IndexInListCorrect == ASSUME Listed PROVE Detect!Spec => []Detect!IndexInList
<1>1. DetectInv => Detect!IndexInList
  BY DEF DetectInv, Detect!IndexInList
<1> QED BY <1>1, DetectInvariant, PTL

\* The buttons that are taken are those that were pressed since all were up, and a press of one
\* of them ends it: for every way to press and release them.
THEOREM DetectedCorrect == ASSUME Listed PROVE Detect!Spec => [][Detect!Detected]_(Detect!vars)
<1> QED BY DetectInvariant, DetectStep, PTL DEF Detect!Spec

-----------------------------------------------------------------------------
(* Dialogs: one on top of another. *)

\* What is open belongs to the dialog that is current, or is on top of it.
DialogsLife ==
  /\ locked <=> current # "none"
  /\ current # "none" => box[current] \in {"visible", "accept", "cancel"}

OnTop(k) ==
  \/ k = "message" /\ Dialogs!MessageOnTop
  \/ k = "sosk" /\ current = "getfilename" /\ show = "keyboard"

\* The name can be accepted: it is there to load, or free to save to, or the user said yes.
NameAsked ==
  \/ mode = "load" /\ target = "file"
  \/ mode = "save" /\ (target = "none" \/ (target = "file" /\ yes))

DialogsWhole ==
  /\ popup["numedit"] => current = "numedit" /\ box["numedit"] = "visible"
  /\ popup["sosk"] => Dialogs!SoskOn
  /\ show # "none" => Dialogs!FileOn
  /\ ending => current = "getfilename" /\ show = "none"
  /\ \A k \in Dialogs!Kinds : box[k] # "none" => k = current \/ OnTop(k)
  /\ help["numedit"] = "live" => popup["numedit"]
  /\ help["sosk"] = "live" => popup["sosk"]
  /\ help["getfilename"] = "live" => show = "help"
  /\ show = "confirm" => target = "file" /\ mode = "save"
  /\ ending \/ box["getfilename"] = "accept" => NameAsked

DialogsInv == Dialogs!TypeOK /\ DialogsLife /\ (~failed => DialogsWhole)

\* A message is put on top, or it is not: memory was short, or one was there.
LEMMA MessageTried ==
  ASSUME Dialogs!TypeOK, Dialogs!Shown \/ Dialogs!NotShown
  PROVE  /\ box' \in [Dialogs!Kinds -> Dialogs!Boxes] /\ failed' \in BOOLEAN /\ (failed => failed')
         /\ \A k \in Dialogs!Kinds \ {"message"} : box'[k] = box[k]
         /\ Dialogs!Shown => box["message"] = "none" /\ box'["message"] = "visible"
         /\ Dialogs!NotShown => failed' \/ (box["message"] # "none" /\ box' = box)
<1> USE DEF Dialogs!TypeOK, Dialogs!Kinds, Dialogs!Boxes
<1>1. CASE Dialogs!Shown
  <2>1. /\ box' = [box EXCEPT !["message"] = "visible"] /\ failed' = failed
        /\ box["message"] = "none"
    BY <1>1 DEF Dialogs!Shown, Dialogs!Begun
  <2>2. ~Dialogs!NotShown
    BY <2>1 DEF Dialogs!NotShown, Dialogs!Refused, Dialogs!NoParams, Dialogs!NotStarted,
                Dialogs!LeftOver
  <2> QED BY <2>1, <2>2
<1>2. CASE Dialogs!Refused
  BY <1>2 DEF Dialogs!Refused, Dialogs!Shown, Dialogs!NotShown, Dialogs!NoParams,
              Dialogs!NotStarted
<1>3. CASE Dialogs!NoParams \/ Dialogs!NotStarted
  <2>1. failed' = TRUE /\ box["message"] = "none"
    BY <1>3 DEF Dialogs!NoParams, Dialogs!NotStarted
  <2>2. box' = box \/ box' = [box EXCEPT !["message"] = "shutdown"]
    BY <1>3 DEF Dialogs!NoParams, Dialogs!NotStarted, Dialogs!LeftOver
  <2>3. /\ box' \in [Dialogs!Kinds -> Dialogs!Boxes]
        /\ \A k \in Dialogs!Kinds \ {"message"} : box'[k] = box[k]
        /\ box'["message"] # "visible"
    BY <2>1, <2>2
  <2>4. ~Dialogs!Shown
    BY <2>3 DEF Dialogs!Shown, Dialogs!Begun
  <2> QED BY <2>1, <2>3, <2>4
<1> QED BY <1>1, <1>2, <1>3 DEF Dialogs!NotShown

\* Each step leaves dialogs and memory typed.
LEMMA DialogsTyped ==
  ASSUME Dialogs!TypeOK, Dialogs!Next PROVE Dialogs!TypeOK'
<1> USE DEF Dialogs!TypeOK, Dialogs!Kinds, Dialogs!Helped, Dialogs!Boxes, Dialogs!Targets,
            Dialogs!soskVars, Dialogs!fileVars, Dialogs!Begun, Dialogs!LeftOver, Dialogs!Answer,
            Dialogs!Gone, Dialogs!Freed, Dialogs!SoskFresh, Dialogs!Closed, Dialogs!FileOn,
            Dialogs!FileIdle
<1>1. CASE Dialogs!AnswerPlain
  BY <1>1 DEF Dialogs!AnswerPlain
<1>2. CASE Dialogs!AnswerOnTop
  BY <1>2 DEF Dialogs!AnswerOnTop
<1>3. CASE Dialogs!NumeditMessage
  BY <1>3 DEF Dialogs!NumeditMessage
<1>4. CASE Dialogs!NumeditHelp
  <2>1. box' \in [Dialogs!Kinds -> Dialogs!Boxes] /\ failed' \in BOOLEAN
    BY <1>4, MessageTried DEF Dialogs!NumeditHelp
  <2>2. popup' \in [{"sosk", "numedit"} -> BOOLEAN]
    BY <1>4 DEF Dialogs!NumeditHelp
  <2>3. help' \in [Dialogs!Helped -> {"null", "live", "freed"}]
    BY <1>4 DEF Dialogs!NumeditHelp
  <2>4. /\ UNCHANGED <<current, locked, ending, mode, target, edited, yes, badFree>>
        /\ show' \in {show, "help", "message", "keyboard"} /\ cancel' \in BOOLEAN
    BY <1>4 DEF Dialogs!NumeditHelp
  <2> QED BY <2>1, <2>2, <2>3, <2>4
<1>5. CASE Dialogs!NumeditAnswer
  BY <1>5 DEF Dialogs!NumeditAnswer
<1>6. CASE Dialogs!SoskMessage
  BY <1>6 DEF Dialogs!SoskMessage
<1>7. CASE Dialogs!SoskCancel
  <2>1. box' \in [Dialogs!Kinds -> Dialogs!Boxes] /\ failed' \in BOOLEAN
    BY <1>7, MessageTried DEF Dialogs!SoskCancel
  <2>2. popup' \in [{"sosk", "numedit"} -> BOOLEAN]
    BY <1>7 DEF Dialogs!SoskCancel
  <2>3. help' \in [Dialogs!Helped -> {"null", "live", "freed"}]
    BY <1>7 DEF Dialogs!SoskCancel
  <2>4. /\ UNCHANGED <<current, locked, ending, mode, target, edited, yes, badFree>>
        /\ show' \in {show, "help", "message", "keyboard"} /\ cancel' \in BOOLEAN
    BY <1>7 DEF Dialogs!SoskCancel
  <2> QED BY <2>1, <2>2, <2>3, <2>4
<1>8. CASE Dialogs!SoskCancelled
  BY <1>8 DEF Dialogs!SoskCancelled
<1>9. CASE Dialogs!SoskAccept
  BY <1>9 DEF Dialogs!SoskAccept
<1>10. CASE Dialogs!SoskEdit
  BY <1>10 DEF Dialogs!SoskEdit
<1>11. CASE Dialogs!SoskHelp
  <2>1. box' \in [Dialogs!Kinds -> Dialogs!Boxes] /\ failed' \in BOOLEAN
    BY <1>11, MessageTried DEF Dialogs!SoskHelp
  <2>2. popup' \in [{"sosk", "numedit"} -> BOOLEAN]
    BY <1>11 DEF Dialogs!SoskHelp
  <2>3. help' \in [Dialogs!Helped -> {"null", "live", "freed"}]
    BY <1>11 DEF Dialogs!SoskHelp
  <2>4. /\ UNCHANGED <<current, locked, ending, mode, target, edited, yes, badFree>>
        /\ show' \in {show, "help", "message", "keyboard"} /\ cancel' \in BOOLEAN
    BY <1>11 DEF Dialogs!SoskHelp
  <2> QED BY <2>1, <2>2, <2>3, <2>4
<1>12. CASE Dialogs!FileAccept
  BY <1>12 DEF Dialogs!FileAccept
<1>13. CASE Dialogs!FileMessage
  BY <1>13 DEF Dialogs!FileMessage
<1>14. CASE Dialogs!FileEnds
  BY <1>14 DEF Dialogs!FileEnds
<1>15. CASE Dialogs!FileCancel
  BY <1>15 DEF Dialogs!FileCancel
<1>16. CASE Dialogs!FileHelp
  BY <1>16, MessageTried DEF Dialogs!FileHelp
<1>17. CASE Dialogs!FileSelect
  BY <1>17 DEF Dialogs!FileSelect
<1>18. CASE Dialogs!FileKeyboard
  <2>1. box' \in [Dialogs!Kinds -> Dialogs!Boxes] /\ failed' \in BOOLEAN
    <3>1. \/ box' = [box EXCEPT !["sosk"] = "visible"] /\ failed' = failed
          \/ box' = [box EXCEPT !["sosk"] = "shutdown"] /\ failed' = TRUE
      BY <1>18 DEF Dialogs!FileKeyboard
    <3>2. failed' \in BOOLEAN
      BY <3>1
    <3>3. box' \in [Dialogs!Kinds -> Dialogs!Boxes]
      BY <3>1
    <3> QED BY <3>2, <3>3
  <2>2. popup' \in [{"sosk", "numedit"} -> BOOLEAN]
    BY <1>18 DEF Dialogs!FileKeyboard
  <2>3. help' \in [Dialogs!Helped -> {"null", "live", "freed"}]
    BY <1>18 DEF Dialogs!FileKeyboard
  <2>4. /\ UNCHANGED <<current, locked, ending, mode, target, edited, yes, badFree>>
        /\ show' \in {show, "help", "message", "keyboard"} /\ cancel' \in BOOLEAN
    BY <1>18 DEF Dialogs!FileKeyboard
  <2> QED BY <2>1, <2>2, <2>3, <2>4
<1>19. CASE Dialogs!FileTyped
  BY <1>19 DEF Dialogs!FileTyped
<1>20. CASE Dialogs!FileError
  BY <1>20 DEF Dialogs!FileError
<1>21. CASE Dialogs!End
  BY <1>21 DEF Dialogs!End
<1>22. CASE \E k \in Dialogs!Kinds : Dialogs!Open(k)
  BY <1>22 DEF Dialogs!Open
<1>23. CASE Dialogs!FileAsk("message")
  BY <1>23, MessageTried DEF Dialogs!FileAsk
<1>24. CASE Dialogs!FileAsk("confirm")
  BY <1>24, MessageTried DEF Dialogs!FileAsk
<1> QED BY <1>1, <1>2, <1>3, <1>4, <1>5, <1>6, <1>7, <1>8, <1>9, <1>10, <1>11, <1>12, <1>13, <1>14,
           <1>15, <1>16, <1>17, <1>18, <1>19, <1>20, <1>21, <1>22, <1>23, <1>24 DEF Dialogs!Next

\* Each step leaves the dialogs locked while one is current, and that one in its life.
LEMMA DialogsLifeStep ==
  ASSUME Dialogs!TypeOK, DialogsLife, Dialogs!Next PROVE DialogsLife'
<1> USE DEF Dialogs!TypeOK, Dialogs!Kinds, Dialogs!Helped, Dialogs!Boxes, Dialogs!Targets,
            Dialogs!soskVars, Dialogs!fileVars, Dialogs!Begun, Dialogs!LeftOver, Dialogs!Answer,
            Dialogs!Gone, Dialogs!Freed, Dialogs!SoskFresh, Dialogs!Closed, Dialogs!FileOn,
            Dialogs!FileIdle, DialogsLife, Dialogs!NumeditOn, Dialogs!SoskOn, Dialogs!SoskIdle
<1>1. CASE Dialogs!AnswerPlain
  BY <1>1 DEF Dialogs!AnswerPlain
<1>2. CASE Dialogs!AnswerOnTop
  BY <1>2 DEF Dialogs!AnswerOnTop
<1>3. CASE Dialogs!NumeditMessage
  BY <1>3 DEF Dialogs!NumeditMessage
<1>4. CASE Dialogs!NumeditHelp
  BY <1>4, MessageTried DEF Dialogs!NumeditHelp
<1>5. CASE Dialogs!NumeditAnswer
  BY <1>5 DEF Dialogs!NumeditAnswer
<1>6. CASE Dialogs!SoskMessage
  BY <1>6 DEF Dialogs!SoskMessage
<1>7. CASE Dialogs!SoskCancel
  BY <1>7, MessageTried DEF Dialogs!SoskCancel
<1>8. CASE Dialogs!SoskCancelled
  BY <1>8 DEF Dialogs!SoskCancelled
<1>9. CASE Dialogs!SoskAccept
  BY <1>9 DEF Dialogs!SoskAccept
<1>10. CASE Dialogs!SoskEdit
  BY <1>10 DEF Dialogs!SoskEdit
<1>11. CASE Dialogs!SoskHelp
  BY <1>11, MessageTried DEF Dialogs!SoskHelp
<1>12. CASE Dialogs!FileAccept
  BY <1>12 DEF Dialogs!FileAccept
<1>13. CASE Dialogs!FileMessage
  BY <1>13 DEF Dialogs!FileMessage
<1>14. CASE Dialogs!FileEnds
  BY <1>14 DEF Dialogs!FileEnds
<1>15. CASE Dialogs!FileCancel
  BY <1>15 DEF Dialogs!FileCancel
<1>16. CASE Dialogs!FileHelp
  BY <1>16, MessageTried DEF Dialogs!FileHelp
<1>17. CASE Dialogs!FileSelect
  BY <1>17 DEF Dialogs!FileSelect
<1>18. CASE Dialogs!FileKeyboard
  BY <1>18 DEF Dialogs!FileKeyboard
<1>19. CASE Dialogs!FileTyped
  BY <1>19 DEF Dialogs!FileTyped
<1>20. CASE Dialogs!FileError
  BY <1>20 DEF Dialogs!FileError
<1>21. CASE Dialogs!End
  BY <1>21 DEF Dialogs!End
<1>22. CASE \E k \in Dialogs!Kinds : Dialogs!Open(k)
  BY <1>22 DEF Dialogs!Open
<1>23. CASE Dialogs!FileAsk("message")
  BY <1>23, MessageTried DEF Dialogs!FileAsk
<1>24. CASE Dialogs!FileAsk("confirm")
  BY <1>24, MessageTried DEF Dialogs!FileAsk
<1> QED BY <1>1, <1>2, <1>3, <1>4, <1>5, <1>6, <1>7, <1>8, <1>9, <1>10, <1>11, <1>12, <1>13, <1>14,
           <1>15, <1>16, <1>17, <1>18, <1>19, <1>20, <1>21, <1>22, <1>23, <1>24 DEF Dialogs!Next

\* Each step leaves what is on top with what is below, as long as nothing failed.
LEMMA DialogsWholeStep ==
  ASSUME Dialogs!TypeOK, DialogsLife, DialogsWhole, Dialogs!Next, ~failed' PROVE DialogsWhole'
<1> USE DEF Dialogs!TypeOK, Dialogs!Kinds, Dialogs!Helped, Dialogs!Boxes, Dialogs!Targets,
            Dialogs!soskVars, Dialogs!fileVars, Dialogs!Begun, Dialogs!LeftOver, Dialogs!Answer,
            Dialogs!Gone, Dialogs!Freed, Dialogs!SoskFresh, Dialogs!Closed, Dialogs!FileOn,
            Dialogs!FileIdle, DialogsLife, DialogsWhole, NameAsked, OnTop, Dialogs!MessageOnTop,
            Dialogs!NumeditOn, Dialogs!SoskOn, Dialogs!SoskIdle, Dialogs!Answered,
            Dialogs!WrongTarget, Dialogs!AskAbout
<1>1. CASE Dialogs!AnswerPlain
  BY <1>1 DEF Dialogs!AnswerPlain
<1>2. CASE Dialogs!AnswerOnTop
  BY <1>2 DEF Dialogs!AnswerOnTop
<1>3. CASE Dialogs!NumeditMessage
  BY <1>3 DEF Dialogs!NumeditMessage
<1>4. CASE Dialogs!NumeditHelp
  BY <1>4, MessageTried DEF Dialogs!NumeditHelp
<1>5. CASE Dialogs!NumeditAnswer
  BY <1>5 DEF Dialogs!NumeditAnswer
<1>6. CASE Dialogs!SoskMessage
  BY <1>6 DEF Dialogs!SoskMessage
<1>7. CASE Dialogs!SoskCancel
  BY <1>7, MessageTried DEF Dialogs!SoskCancel
<1>8. CASE Dialogs!SoskCancelled
  BY <1>8 DEF Dialogs!SoskCancelled
<1>9. CASE Dialogs!SoskAccept
  BY <1>9 DEF Dialogs!SoskAccept
<1>10. CASE Dialogs!SoskEdit
  BY <1>10 DEF Dialogs!SoskEdit
<1>11. CASE Dialogs!SoskHelp
  BY <1>11, MessageTried DEF Dialogs!SoskHelp
<1>12. CASE Dialogs!FileAccept
  BY <1>12 DEF Dialogs!FileAccept
<1>13. CASE Dialogs!FileMessage
  BY <1>13 DEF Dialogs!FileMessage
<1>14. CASE Dialogs!FileEnds
  BY <1>14 DEF Dialogs!FileEnds
<1>15. CASE Dialogs!FileCancel
  BY <1>15 DEF Dialogs!FileCancel
<1>16. CASE Dialogs!FileHelp
  BY <1>16, MessageTried DEF Dialogs!FileHelp
<1>17. CASE Dialogs!FileSelect
  BY <1>17 DEF Dialogs!FileSelect
<1>18. CASE Dialogs!FileKeyboard
  BY <1>18 DEF Dialogs!FileKeyboard
<1>19. CASE Dialogs!FileTyped
  BY <1>19 DEF Dialogs!FileTyped
<1>20. CASE Dialogs!FileError
  BY <1>20 DEF Dialogs!FileError
<1>21. CASE Dialogs!End
  BY <1>21 DEF Dialogs!End
<1>22. CASE \E k \in Dialogs!Kinds : Dialogs!Open(k)
  BY <1>22 DEF Dialogs!Open
<1>23. CASE Dialogs!FileAsk("message")
  BY <1>23, MessageTried DEF Dialogs!FileAsk
<1>24. CASE Dialogs!FileAsk("confirm")
  BY <1>24, MessageTried DEF Dialogs!FileAsk
<1> QED BY <1>1, <1>2, <1>3, <1>4, <1>5, <1>6, <1>7, <1>8, <1>9, <1>10, <1>11, <1>12, <1>13, <1>14,
           <1>15, <1>16, <1>17, <1>18, <1>19, <1>20, <1>21, <1>22, <1>23, <1>24 DEF Dialogs!Next

\* A failure is not forgotten.
LEMMA DialogsForget ==
  ASSUME Dialogs!TypeOK, Dialogs!Next, failed PROVE failed'
<1> USE DEF Dialogs!soskVars, Dialogs!fileVars, Dialogs!TypeOK
<1>1. CASE Dialogs!Shown \/ Dialogs!NotShown
  BY <1>1, MessageTried
<1>2. CASE \E k \in Dialogs!Kinds : Dialogs!Open(k)
  BY <1>2 DEF Dialogs!Open
<1>3. CASE \E what \in {"message", "confirm"} : Dialogs!FileAsk(what)
  BY <1>1, <1>3 DEF Dialogs!FileAsk
<1> QED BY <1>1, <1>2, <1>3
        DEF Dialogs!Next, Dialogs!End, Dialogs!AnswerPlain, Dialogs!AnswerOnTop,
            Dialogs!NumeditMessage, Dialogs!NumeditHelp, Dialogs!NumeditAnswer, Dialogs!SoskMessage,
            Dialogs!SoskCancel, Dialogs!SoskCancelled, Dialogs!SoskAccept, Dialogs!SoskEdit,
            Dialogs!SoskHelp, Dialogs!FileAccept, Dialogs!FileMessage, Dialogs!FileEnds,
            Dialogs!FileCancel, Dialogs!FileHelp, Dialogs!FileSelect, Dialogs!FileKeyboard,
            Dialogs!FileTyped, Dialogs!FileError

\* The invariant of the dialogs holds.
LEMMA DialogsInvariant == Dialogs!Spec => []DialogsInv
<1>1. Dialogs!Init => DialogsInv
  <2> SUFFICES ASSUME Dialogs!Init PROVE DialogsInv
    OBVIOUS
  <2>1. Dialogs!TypeOK
    BY DEF Dialogs!Init, Dialogs!TypeOK, Dialogs!Kinds, Dialogs!Helped, Dialogs!Boxes,
           Dialogs!Targets
  <2>2. DialogsLife
    BY DEF Dialogs!Init, DialogsLife
  <2>3. DialogsWhole
    BY DEF Dialogs!Init, DialogsWhole, Dialogs!Kinds, Dialogs!Helped
  <2> QED BY <2>1, <2>2, <2>3 DEF DialogsInv
<1>2. ASSUME DialogsInv, [Dialogs!Next]_(Dialogs!vars) PROVE DialogsInv'
  <2>1. CASE Dialogs!Next
    <3>1. Dialogs!TypeOK /\ DialogsLife /\ (~failed => DialogsWhole)
      BY <1>2 DEF DialogsInv
    <3>2. Dialogs!TypeOK' /\ DialogsLife'
      BY <2>1, <3>1, DialogsTyped, DialogsLifeStep
    <3>3. ASSUME ~failed' PROVE DialogsWhole'
      <4>1. ~failed
        BY <2>1, <3>1, <3>3, DialogsForget
      <4> QED BY <2>1, <3>1, <3>3, <4>1, DialogsWholeStep
    <3> QED BY <3>2, <3>3 DEF DialogsInv
  <2>2. CASE UNCHANGED Dialogs!vars
    BY <1>2, <2>2 DEF Dialogs!vars, DialogsInv, DialogsLife, DialogsWhole, Dialogs!TypeOK, NameAsked,
                      OnTop, Dialogs!MessageOnTop, Dialogs!SoskOn, Dialogs!FileOn
  <2> QED BY <1>2, <2>1, <2>2
<1> QED BY <1>1, <1>2, PTL DEF Dialogs!Spec

\* The dialogs (mfdialog.c, cdialog) keep to their states.
THEOREM DialogsTypeCorrect == Dialogs!Spec => []Dialogs!TypeOK
<1> QED BY DialogsInvariant, PTL DEF DialogsInv

\* Nothing of a dialog is left when it is gone.
LEMMA DialogsNothingLeftCorrect == Dialogs!Spec => []Dialogs!NothingLeft
<1>1. DialogsInv => Dialogs!NothingLeft
  <2> SUFFICES ASSUME DialogsInv, current = "none", ~failed
               PROVE  /\ \A k \in Dialogs!Kinds : box[k] = "none"
                      /\ \A k \in Dialogs!Helped : help[k] # "live"
    BY DEF DialogsInv, DialogsLife, Dialogs!NothingLeft
  <2>1. DialogsWhole
    BY DEF DialogsInv
  <2>2. ~popup["numedit"] /\ ~popup["sosk"] /\ show = "none"
    BY <2>1 DEF DialogsWhole, Dialogs!SoskOn, Dialogs!FileOn
  <2>3. \A k \in Dialogs!Kinds : ~OnTop(k) /\ k # current
    BY <2>2 DEF OnTop, Dialogs!MessageOnTop, Dialogs!Kinds
  <2> QED BY <2>1, <2>2, <2>3 DEF DialogsWhole, Dialogs!Helped
<1> QED BY <1>1, DialogsInvariant, PTL

\* What a file dialog accepts is what it was opened for.
LEMMA DialogsAcceptCorrect == Dialogs!Spec => []Dialogs!AcceptedAsAsked
<1>1. DialogsInv => Dialogs!AcceptedAsAsked
  BY DEF DialogsInv, DialogsWhole, NameAsked, Dialogs!AcceptedAsAsked
<1> QED BY <1>1, DialogsInvariant, PTL

-----------------------------------------------------------------------------
(* Names: the tables of buttons. *)

\* One table of symbols for each of the menu and the dialog, which is open within the menu; and a
\* table of names for whoever converts.
SymbolsInv ==
  /\ menu \in {"closed", "open"} /\ asking \in BOOLEAN /\ (asking => menu = "open")
  /\ menu = "closed" => symbols = 0
  /\ menu = "open" /\ ~asking => symbols = 1
  /\ menu = "open" /\ asking => symbols = 2

TableInv ==
  /\ names \in {0, 1} /\ ready \in BOOLEAN /\ tableLeft \in BOOLEAN
  /\ iniAt \in {"no", "own", "functions", "end"} /\ user \in Names!Users \cup {"none"}
  /\ names = 0 => ~ready
  /\ names = 1 => ready /\ (user # "none" \/ iniAt \in {"own", "functions"} \/ tableLeft)
  /\ user # "none" \/ iniAt = "own" => names = 1
  /\ user # "none" => iniAt # "own"

\* Opening and closing the menu and its dialog count the tables of symbols.
LEMMA SymbolsStep ==
  ASSUME SymbolsInv, Names!Next \/ UNCHANGED Names!vars PROVE SymbolsInv'
<1>1. CASE UNCHANGED <<symbols, menu, asking>>
  BY <1>1 DEF SymbolsInv
<1>2. CASE Names!OpenMenu
  <2>1. menu = "closed" /\ ~asking /\ symbols = 0 /\ asking' = FALSE
    BY <1>2 DEF Names!OpenMenu, SymbolsInv
  <2>2. CASE Names!Create /\ menu' = "open"
    <3>1. symbols' = 1
      BY <2>1, <2>2 DEF Names!Create
    <3> QED BY <2>1, <2>2, <3>1 DEF SymbolsInv
  <2>3. CASE Names!Destroy /\ menu' = menu
    <3>1. symbols' = 0
      BY <2>1, <2>3 DEF Names!Destroy
    <3> QED BY <2>1, <2>3, <3>1 DEF SymbolsInv
  <2> QED BY <1>2, <2>2, <2>3 DEF Names!OpenMenu
<1>3. CASE Names!OpenDialog
  <2>1. menu = "open" /\ ~asking /\ symbols = 1 /\ menu' = menu
    BY <1>3 DEF Names!OpenDialog, SymbolsInv
  <2>2. CASE Names!Create /\ asking' = TRUE
    <3>1. symbols' = 2
      BY <2>1, <2>2 DEF Names!Create
    <3> QED BY <2>1, <2>2, <3>1 DEF SymbolsInv
  <2>3. CASE UNCHANGED <<symbols, asking>>
    BY <2>1, <2>3 DEF SymbolsInv
  <2> QED BY <1>3, <2>2, <2>3 DEF Names!OpenDialog
<1>4. CASE Names!CloseDialog
  <2>1. asking /\ menu = "open" /\ symbols = 2 /\ menu' = menu /\ asking' = FALSE /\ Names!Destroy
    BY <1>4 DEF Names!CloseDialog, SymbolsInv
  <2>2. symbols' = 1
    BY <2>1 DEF Names!Destroy
  <2> QED BY <2>1, <2>2 DEF SymbolsInv
<1>5. CASE Names!CloseMenu
  <2>1. menu = "open" /\ ~asking /\ symbols = 1 /\ menu' = "closed" /\ asking' = asking
    BY <1>5 DEF Names!CloseMenu, SymbolsInv
  <2>2. symbols' = 0
    BY <1>5, <2>1 DEF Names!CloseMenu, Names!Destroy
  <2> QED BY <2>1, <2>2 DEF SymbolsInv
<1> QED BY <1>1, <1>2, <1>3, <1>4, <1>5
        DEF Names!Next, Names!vars, Names!Start, Names!OwnDone, Names!IniDone, Names!Begin, Names!End,
            Names!NoCommand, Names!symbolVars

\* Taking and leaving the table of names count it, in the menu as at the start.
LEMMA NamesStep ==
  ASSUME TableInv, Names!Next \/ UNCHANGED Names!vars PROVE TableInv'
<1>n. "none" \notin Names!Users
  BY DEF Names!Users
<1>1. CASE Names!Start
  <2>1. CASE Names!Ready /\ iniAt' = "own" /\ UNCHANGED <<user, tableLeft>>
    BY <1>1, <2>1 DEF Names!Start, Names!Ready, TableInv
  <2>2. CASE Names!NotReady /\ iniAt' = "end" /\ user = "none" /\ UNCHANGED <<user, tableLeft>>
    BY <2>2 DEF Names!NotReady, TableInv
  <2> QED BY <1>1, <2>1, <2>2 DEF Names!Start
<1>2. CASE Names!OwnDone
  BY <1>2 DEF Names!OwnDone, Names!namesVars, TableInv
<1>3. CASE Names!IniDone \/ Names!End
  <2>1. ready' = FALSE /\ tableLeft' = FALSE /\ user' = "none"
    <3>1. CASE Names!IniDone
      BY <3>1 DEF Names!IniDone, Names!Finish
    <3>2. CASE Names!End
      BY <3>2 DEF Names!End, Names!Finish
    <3> QED BY <1>3, <3>1, <3>2
  <2>2. iniAt' \in {"no", "functions", "end"}
    <3>1. CASE Names!IniDone
      BY <3>1 DEF Names!IniDone
    <3>2. CASE Names!End
      BY <3>2 DEF Names!End, TableInv
    <3> QED BY <1>3, <3>1, <3>2
  <2>3. names' = 0
    <3>1. names' = IF ready THEN names - 1 ELSE names
      BY <1>3 DEF Names!IniDone, Names!End, Names!Finish
    <3>2. CASE ready
      <4>1. names = 1
        BY <3>2 DEF TableInv
      <4> QED BY <3>1, <3>2, <4>1
    <3>3. CASE ~ready
      <4>1. names = 0
        BY <3>3 DEF TableInv
      <4> QED BY <3>1, <3>3, <4>1
    <3> QED BY <3>2, <3>3
  <2> QED BY <2>1, <2>2, <2>3 DEF TableInv
<1>4. ASSUME NEW who \in Names!Users, Names!Begin(who) PROVE TableInv'
  <2>1. CASE Names!Ready /\ user' = who
    <3>1. names' = 1 /\ ready' = TRUE /\ UNCHANGED <<iniAt, tableLeft>>
      BY <1>4, <2>1 DEF Names!Begin, Names!Ready, TableInv
    <3>2. iniAt # "own"
      BY <1>4 DEF Names!Begin
    <3> QED BY <1>n, <2>1, <3>1, <3>2 DEF TableInv
  <2>2. CASE Names!NotReady /\ UNCHANGED user
    BY <1>4, <2>2 DEF Names!Begin, Names!NotReady, TableInv
  <2> QED BY <1>4, <2>1, <2>2 DEF Names!Begin
<1>5. CASE Names!NoCommand
  BY <1>5 DEF Names!NoCommand, TableInv
<1>6. CASE UNCHANGED <<names, ready, iniAt, user, tableLeft>>
  BY <1>6 DEF TableInv
<1> QED BY <1>1, <1>2, <1>3, <1>4, <1>5, <1>6
        DEF Names!Next, Names!vars, Names!OpenMenu, Names!OpenDialog, Names!CloseDialog,
            Names!CloseMenu, Names!namesVars

\* There are as many tables as users.
LEMMA NamesInvariant == Names!Spec => [](SymbolsInv /\ TableInv)
<1>1. Names!Init => SymbolsInv
  BY DEF Names!Init, SymbolsInv
<1>2. Names!Init => TableInv
  <2> SUFFICES ASSUME Names!Init PROVE TableInv
    OBVIOUS
  <2>1. names \in {0, 1} /\ names # 1 /\ user = "none" /\ iniAt = "no"
    BY DEF Names!Init
  <2>2. ~ready /\ ready \in BOOLEAN /\ tableLeft \in BOOLEAN
    BY DEF Names!Init
  <2> QED BY <2>1, <2>2, Zenon DEF TableInv
<1>3. SymbolsInv /\ TableInv /\ [Names!Next]_(Names!vars) => (SymbolsInv /\ TableInv)'
  BY SymbolsStep, NamesStep
<1> QED BY <1>1, <1>2, <1>3, PTL DEF Names!Spec

\* The tables of buttons (mfmain.c, padutil.c) and who has them.
THEOREM NamesTypeCorrect == Names!Spec => []Names!TypeOK
<1>1. SymbolsInv /\ TableInv => Names!TypeOK
  BY DEF SymbolsInv, TableInv, Names!TypeOK
<1> QED BY <1>1, NamesInvariant, PTL

\* Nobody keeps a table of buttons.
LEMMA TablesKeptCorrect == Names!Spec => []Names!TablesKept
<1>1. SymbolsInv /\ TableInv => Names!TablesKept
  <2> SUFFICES ASSUME SymbolsInv, TableInv PROVE Names!TablesKept
    OBVIOUS
  <2>1. user # "none" \/ iniAt = "own" => ready /\ names = 1
    BY DEF TableInv
  <2>2. ready = (names = 1)
    BY DEF TableInv
  <2>3. names = 1 => user # "none" \/ iniAt \in {"own", "functions"} \/ tableLeft
    BY DEF TableInv
  <2>4. (menu = "open" \/ asking) = (symbols > 0)
    <3>1. CASE menu = "open"
      <4>1. symbols > 0
        BY <3>1 DEF SymbolsInv
      <4> QED BY <3>1, <4>1
    <3>2. CASE menu = "closed"
      <4>1. ~(symbols > 0) /\ ~asking /\ menu # "open"
        BY <3>2 DEF SymbolsInv
      <4> QED BY <4>1
    <3> QED BY <3>1, <3>2 DEF SymbolsInv
  <2> QED BY <2>1, <2>2, <2>3, <2>4 DEF Names!TablesKept
<1> QED BY <1>1, NamesInvariant, PTL

-----------------------------------------------------------------------------
(* Controls: the items of a menu. *)

\* Numbers that fit into four bytes, and lists with an option at least.
Allowed ==
  /\ ByteValues \in Nat \ {0} /\ BeyondValues \in SUBSET Nat /\ OptionCounts \in SUBSET (Nat \ {0})
  /\ \A p \in NumberPrefs :
       /\ p.max \in Nat /\ p.min \in Nat /\ p.width \in Nat
       /\ p.max < Controls!Word * Controls!Word

BlocksInv ==
  /\ editing \in {"none", "shown"} /\ blocksHeld \subseteq {"params", "path"}
  /\ helper \in BOOLEAN /\ taken \in BOOLEAN
  /\ blocksHeld = (IF helper THEN {"params", "path"} ELSE {}) \/ taken

ValueInv ==
  /\ var \in Nat
  /\ \/ control \in {"bool", "buttons"} /\ prefs = NoPref /\ var \in {0, 1}
     \/ control = "file" /\ prefs = NoPref
     \/ control = "option" /\ prefs \in OptionCounts /\ var \in 0 .. prefs - 1
     \/ control = "number" /\ prefs \in NumberPrefs

\* A number takes as many bytes as it needs.
LEMMA BytesEnough ==
  ASSUME Allowed, NEW p \in NumberPrefs
  PROVE  Controls!Bytes(p.max) \in Nat \ {0} /\ p.max < Controls!Bytes(p.max)
<1>1. \A a, b \in Nat \ {0} : a * b \in Nat \ {0}
  OBVIOUS
<1>2. Controls!Word \in Nat \ {0}
  BY <1>1 DEF Allowed, Controls!Word
<1>3. Controls!Word * Controls!Word \in Nat \ {0}
  BY <1>1, <1>2
<1> DEFINE long == Controls!Word * Controls!Word
<1>4. long \in Nat \ {0} /\ p.max \in Nat /\ p.max < long /\ ByteValues \in Nat \ {0}
  BY <1>3 DEF Allowed
<1>5. Controls!Bytes(p.max) = IF p.max < ByteValues THEN ByteValues
                              ELSE IF p.max < Controls!Word THEN Controls!Word ELSE long
  BY DEF Controls!Bytes
<1> HIDE DEF long
<1> QED BY <1>2, <1>4, <1>5

\* What is written by k values' worth of bytes is read back, and the bytes beside it stay.
ReadBack(to, n, v, k) == to \in Nat /\ to % k = v % k /\ to - (to % k) = n - (n % k)

\* The low part of a number is written, and read back, without the high one.
LEMMA WrittenBack ==
  ASSUME NEW n \in Nat, NEW v \in Nat, NEW k \in Nat \ {0},
         NEW to, to = (n - (n % k)) + (v % k)
  PROVE  ReadBack(to, n, v, k)
<1> DEFINE q == n \div k
           r == v % k
           w == k * q + r
           p == w \div k
           s == w % k
<1>1. q \in Nat /\ n % k \in 0 .. k - 1 /\ n = k * q + (n % k) /\ r \in 0 .. k - 1
  OBVIOUS
<1>2. k * q \in Nat
  <2>1. \A a, b \in Nat : a * b \in Nat
    OBVIOUS
  <2> HIDE DEF q
  <2> QED BY <1>1, <2>1
<1>3. w \in Nat
  <2> HIDE DEF q, r
  <2> QED BY <1>1, <1>2
<1> HIDE DEF w
<1>4. p \in Nat /\ s \in 0 .. k - 1 /\ w = k * p + s
  BY <1>3
<1> HIDE DEF q, r, p, s
<1>5. k * q + r = k * p + s
  BY <1>4 DEF w
<1>6. p = q
  <2>1. CASE p >= q + 1
    <3>1. k * p >= k * (q + 1)
      BY <1>1, <1>4, <2>1
    <3>2. k * (q + 1) = k * q + k
      BY <1>1
    <3> QED BY <1>1, <1>4, <1>5, <3>1, <3>2
  <2>2. CASE q >= p + 1
    <3>1. k * q >= k * (p + 1)
      BY <1>1, <1>4, <2>2
    <3>2. k * (p + 1) = k * p + k
      BY <1>1, <1>4
    <3> QED BY <1>1, <1>4, <1>5, <3>1, <3>2
  <2> QED BY <1>1, <1>4, <2>1, <2>2
<1>7. s = r
  BY <1>1, <1>4, <1>5, <1>6
<1>8. n - (n % k) = k * q
  BY <1>1, <1>2
<1>9. w = (n - (n % k)) + r /\ w - s = n - (n % k)
  BY <1>1, <1>2, <1>7, <1>8 DEF w
<1>10. to = w
  BY <1>9 DEF r
<1> QED BY <1>3, <1>7, <1>9, <1>10 DEF r, s, ReadBack

\* mf_ctrl_var_set_num writes the bytes of the number, and no other.
LEMMA NumberSet ==
  ASSUME Allowed, NEW p \in NumberPrefs, var \in Nat, NEW v \in Nat
  PROVE  ReadBack(Controls!SetTo(p.max, v), var, v, Controls!Bytes(p.max))
<1> DEFINE n == Controls!Bytes(p.max)
           w == Controls!SetTo(p.max, v)
<1>1. n \in Nat \ {0}
  BY BytesEnough
<1>2. w = (var - (var % n)) + (v % n)
  BY DEF Controls!SetTo, Controls!Got
<1> HIDE DEF n, w
<1>3. ReadBack(w, var, v, n)
  BY <1>1, <1>2, WrittenBack
<1> QED BY <1>3 DEF n, w

\* A number that is read is less than what its bytes can hold; what changes it keeps it typed,
\* and allowed if it was.
Following(p, value, then) == then \in Nat /\ (value <= p.max => then <= p.max)

\* Left and right go one step, within the range.
LEMMA NumberStepped ==
  ASSUME Allowed, NEW p \in NumberPrefs, NEW value \in Nat, NEW then,
         (then = Controls!Less(value) \/ then = Controls!More(value)),
         prefs = p
  PROVE  Following(p, value, then)
<1>1. p.max \in Nat /\ p.min \in Nat /\ p.width \in Nat
  BY DEF Allowed
<1>2. CASE then = Controls!Less(value)
  BY <1>1, <1>2 DEF Controls!Less, Following
<1>3. CASE then = Controls!More(value)
  BY <1>1, <1>3 DEF Controls!More, Following
<1> QED BY <1>2, <1>3

\* The variable becomes w, of which the number is a part.
NumberTurns(p, w) ==
  LET n == Controls!Bytes(p.max) IN
  /\ w \in Nat
  /\ var % n <= p.max => w % n <= p.max
  /\ w - (w % n) = var - (var % n)

\* A number within its range stays in it when it is written.
LEMMA NumberTurned ==
  ASSUME Allowed, NEW p \in NumberPrefs, var \in Nat, NEW v \in Nat,
         Following(p, var % Controls!Bytes(p.max), v)
  PROVE  NumberTurns(p, Controls!SetTo(p.max, v))
<1> DEFINE n == Controls!Bytes(p.max)
           w == Controls!SetTo(p.max, v)
<1>1. n \in Nat \ {0} /\ p.max < n /\ p.max \in Nat
  BY BytesEnough DEF Allowed
<1>2. ReadBack(w, var, v, n)
  BY NumberSet
<1>3. var % n <= p.max => v <= p.max
  BY DEF Following
<1> HIDE DEF n, w
<1>4. w \in Nat /\ w % n = v % n /\ w - (w % n) = var - (var % n)
  BY <1>2 DEF ReadBack
<1>5. \A a, k, m \in Nat : k # 0 /\ a <= m /\ m < k => a % k = a
  OBVIOUS
<1>6. v <= p.max => v % n = v
  BY <1>1, <1>5
<1>7. var % n <= p.max => w % n <= p.max
  BY <1>3, <1>4, <1>6
<1>8. NumberTurns(p, w)
  BY <1>4, <1>7 DEF NumberTurns, n
<1> QED BY <1>8 DEF w

\* A step that leaves the variable and its item keeps the variable.
LEMMA ControlsFrame ==
  ASSUME ValueInv, UNCHANGED <<control, prefs, var>> PROVE ValueInv' /\ Controls!Kept
<1>1. ValueInv'
  BY DEF ValueInv
<1>2. CASE control = "number"
  <2>1. ~Controls!Choose
    BY <1>2 DEF Controls!Choose, Controls!Free
  <2>2. var' = var
    OBVIOUS
  <2> DEFINE value == var % Controls!Bytes(prefs.max)
  <2>3. Controls!Got(var', prefs.max) = value /\ Controls!Got(var, prefs.max) = value
    BY <2>2 DEF Controls!Got
  <2> HIDE DEF value
  <2> QED BY <1>1, <1>2, <2>1, <2>2, <2>3 DEF Controls!Kept
<1>3. CASE control = "option"
  <2>1. prefs \in OptionCounts /\ var' = var /\ var \in 0 .. prefs - 1
    BY <1>3 DEF ValueInv
  <2>2. Controls!Choose => \/ Controls!OptionAfter(var', prefs) = var
                           \/ Controls!OptionBefore(var', prefs) = var
    <3> SUFFICES ASSUME Controls!Choose
                 PROVE  \/ Controls!OptionAfter(var', prefs) = var
                        \/ Controls!OptionBefore(var', prefs) = var
      OBVIOUS
    <3>1. var' = Controls!OptionAfter(var, prefs) \/ var' = Controls!OptionBefore(var, prefs)
      BY DEF Controls!Choose
    <3> QED BY <2>1, <3>1 DEF Controls!OptionAfter, Controls!OptionBefore
  <2> QED BY <1>1, <1>3, <2>1, <2>2 DEF Controls!Kept
<1>4. CASE control \notin {"number", "option"}
  BY <1>1, <1>4 DEF Controls!Kept
<1> QED BY <1>1, <1>2, <1>3, <1>4

\* Each step changes the variable as its item has it.
LEMMA ControlsStep ==
  ASSUME Allowed, ValueInv, Controls!Next \/ UNCHANGED Controls!vars
  PROVE  ValueInv' /\ Controls!Kept
<1>1. CASE UNCHANGED <<control, prefs, var>>
  BY <1>1, ControlsFrame
<1>2. CASE Controls!Toggle \/ Controls!AcceptButtons
  <2>1. /\ control \in {"bool", "buttons"} /\ var \in {0, 1} /\ prefs = NoPref
        /\ UNCHANGED <<control, prefs>> /\ var' \in {0, 1}
    BY <1>2 DEF Controls!Toggle, Controls!AcceptButtons, Controls!Free, Controls!quiet, ValueInv
  <2> QED BY <2>1 DEF ValueInv, Controls!Kept
<1>3. CASE Controls!Choose
  <2>1. /\ control = "option" /\ prefs \in OptionCounts /\ var \in 0 .. prefs - 1
        /\ UNCHANGED <<control, prefs>>
    BY <1>3 DEF Controls!Choose, Controls!Free, Controls!quiet, ValueInv
  <2>2. prefs \in Nat \ {0}
    BY <2>1 DEF Allowed
  <2>3. var' = Controls!OptionAfter(var, prefs) \/ var' = Controls!OptionBefore(var, prefs)
    BY <1>3 DEF Controls!Choose
  <2>4. var' \in 0 .. prefs - 1
    BY <2>1, <2>2, <2>3 DEF Controls!OptionAfter, Controls!OptionBefore
  <2>5. Controls!OptionAfter(var', prefs) = var \/ Controls!OptionBefore(var', prefs) = var
    BY <2>1, <2>2, <2>3 DEF Controls!OptionAfter, Controls!OptionBefore
  <2>6. var' \in Nat
    BY <2>2, <2>4
  <2> QED BY <2>1, <2>4, <2>5, <2>6 DEF ValueInv, Controls!Kept
<1>4. CASE Controls!Step \/ Controls!AcceptNumber
  <2>1. control = "number" /\ prefs \in NumberPrefs /\ var \in Nat /\ UNCHANGED <<control, prefs>>
    BY <1>4 DEF Controls!Step, Controls!AcceptNumber, Controls!Free, Controls!quiet, ValueInv
  <2> DEFINE value == var % Controls!Bytes(prefs.max)
  <2>2. value \in Nat /\ prefs.max \in Nat
    BY <2>1, BytesEnough DEF Allowed
  <2>3. PICK v : v \in Nat /\ Following(prefs, value, v) /\ var' = Controls!SetTo(prefs.max, v)
    <3>1. CASE Controls!Step
      <4>1. PICK v : /\ v = Controls!Less(value) \/ v = Controls!More(value)
                     /\ var' = Controls!SetTo(prefs.max, v)
        BY <3>1 DEF Controls!Step, Controls!Got
      <4>2. Following(prefs, value, v)
        BY <2>1, <2>2, <4>1, NumberStepped
      <4> QED BY <4>1, <4>2 DEF Following
    <3>2. CASE Controls!AcceptNumber
      <4>1. PICK n \in {0, 1, prefs.max \div 2, prefs.max, prefs.max + 1} :
              Controls!NumberAccepted(prefs.max, n)
        BY <3>2 DEF Controls!AcceptNumber
      <4> DEFINE v == IF n > prefs.max THEN prefs.max ELSE n
      <4>2. v \in Nat /\ v <= prefs.max
        BY <2>2
      <4>3. var' = Controls!SetTo(prefs.max, v)
        BY <4>1 DEF Controls!NumberAccepted
      <4> HIDE DEF v
      <4> QED BY <4>2, <4>3 DEF Following
    <3> QED BY <1>4, <3>1, <3>2
  <2>4. NumberTurns(prefs, var')
    BY <2>1, <2>3, NumberTurned
  <2>5. ~Controls!Choose
    BY <2>1 DEF Controls!Choose, Controls!Free
  <2> QED BY <2>1, <2>4 DEF ValueInv, NumberTurns, Controls!Kept, Controls!Got
<1> QED BY <1>1, <1>2, <1>3, <1>4
        DEF Controls!Next, Controls!vars, Controls!quiet, Controls!Edit, Controls!Cancel,
            Controls!LoadItem, Controls!Finished

\* Each step holds the blocks as long as the helper is set.
LEMMA BlocksStep ==
  ASSUME BlocksInv, Controls!Next \/ UNCHANGED Controls!vars PROVE BlocksInv'
<1>1. CASE UNCHANGED <<blocksHeld, helper, taken>> /\ editing' \in {editing, "none", "shown"}
  BY <1>1 DEF BlocksInv
<1>2. CASE Controls!LoadItem
  <2>1. /\ editing' = editing /\ editing \in {"none", "shown"} /\ ~helper
        /\ blocksHeld \subseteq {"params", "path"} /\ taken \in BOOLEAN
    BY <1>2 DEF Controls!LoadItem, Controls!Free, BlocksInv
  <2>2. CASE blocksHeld' = {"params", "path"} /\ helper' = TRUE /\ UNCHANGED taken
    BY <2>1, <2>2, Zenon DEF BlocksInv
  <2>3. CASE blocksHeld' = {"params", "path"} /\ helper' = FALSE /\ taken' = TRUE
    BY <2>1, <2>3, Zenon DEF BlocksInv
  <2>4. CASE UNCHANGED <<blocksHeld, helper, taken>>
    BY <2>1, <2>4 DEF BlocksInv
  <2> QED BY <1>2, <2>2, <2>3, <2>4 DEF Controls!LoadItem
<1>3. CASE Controls!Finished
  BY <1>3 DEF Controls!Finished, Controls!Freed, BlocksInv
<1> QED BY <1>1, <1>2, <1>3
        DEF Controls!Next, Controls!vars, Controls!quiet, Controls!Toggle, Controls!Choose,
            Controls!Step, Controls!Edit, Controls!AcceptNumber, Controls!AcceptButtons, Controls!Cancel

\* The invariant of the items holds.
LEMMA ControlsInvariant == ASSUME Allowed PROVE Controls!Spec => [](BlocksInv /\ ValueInv)
<1>1. Controls!Init => BlocksInv
  BY DEF Controls!Init, BlocksInv
<1>2. Controls!Init => ValueInv
  <2> SUFFICES ASSUME Controls!Init PROVE ValueInv
    OBVIOUS
  <2>1. CASE control \in {"bool", "buttons", "file"}
    BY <2>1 DEF Controls!Init, ValueInv
  <2>2. CASE control = "option"
    <3>1. prefs \in OptionCounts /\ var \in 0 .. prefs - 1
      BY <2>2 DEF Controls!Init
    <3>2. var \in Nat
      BY <3>1 DEF Allowed
    <3> QED BY <2>2, <3>1, <3>2 DEF ValueInv
  <2>3. CASE control = "number"
    <3>1. prefs \in NumberPrefs /\ \E n \in BeyondValues : var \in {n, prefs.max + n}
      BY <2>3 DEF Controls!Init
    <3>2. prefs.max \in Nat /\ BeyondValues \in SUBSET Nat
      BY <3>1 DEF Allowed
    <3>3. var \in Nat
      BY <3>1, <3>2
    <3> QED BY <2>3, <3>1, <3>3 DEF ValueInv
  <2> QED BY <2>1, <2>2, <2>3 DEF Controls!Init
<1>3. BlocksInv /\ ValueInv /\ [Controls!Next]_(Controls!vars) => (BlocksInv /\ ValueInv)'
  BY ControlsStep, BlocksStep
<1> QED BY <1>1, <1>2, <1>3, PTL DEF Controls!Spec

\* A control has the preferences of its kind (the items of mfctrl).
THEOREM ControlsTypeCorrect == ASSUME Allowed PROVE Controls!Spec => []Controls!TypeOK
<1>1. BlocksInv /\ ValueInv => Controls!TypeOK
  BY DEF BlocksInv, ValueInv, Controls!TypeOK
<1> QED BY <1>1, ControlsInvariant, PTL

\* The blocks of the items for files are held while their procedure is set.
LEMMA HeldWhileSetCorrect == ASSUME Allowed PROVE Controls!Spec => []Controls!HeldWhileSet
<1>1. BlocksInv /\ ValueInv => Controls!HeldWhileSet
  BY DEF BlocksInv, Controls!HeldWhileSet
<1> QED BY <1>1, ControlsInvariant, PTL

\* A number that is allowed is followed by an allowed one, and nothing is written beside it; an
\* option is followed by one that is there, and each way through the list undoes the other.
THEOREM VariableKeptCorrect == ASSUME Allowed PROVE Controls!Spec => Controls!VariableKept
<1>1. ValueInv /\ [Controls!Next]_(Controls!vars) => [Controls!Kept]_(Controls!vars)
  BY ControlsStep
<1> QED BY <1>1, ControlsInvariant, PTL DEF Controls!Spec, Controls!VariableKept

-----------------------------------------------------------------------------
(* Menu: a stack of pages with a dialog. *)

RootPage == <<"root">>
NextPage == <<"root", "page">>
SubPage  == <<"root", "page", "sub">>

PagesInv ==
  /\ step \in {"dialog", "proc", "turn", "draw", "closed"}
  /\ pages \in {<<>>, RootPage, NextPage, SubPage}
  /\ tmem = (IF pages = SubPage THEN NextPage ELSE pages)
  /\ step = "closed" => pages = <<>>
  /\ step \in {"proc", "turn"} => pages # <<>>
  /\ next \in {"same", "back", "page", "sub"}
  /\ step = "turn" /\ next = "page" => pages = RootPage
  /\ step = "turn" /\ next = "sub" => pages = NextPage

ExtraInv ==
  /\ extra \in {"none", "ini", "ask", "do"}
  /\ extra # "none" => pages = NextPage
  /\ extra # "none" /\ step = "turn" => next = "same"

MessagesInv ==
  /\ main \in {"PROC", "WAIT", "CONTINUE"} /\ sub \subseteq (Menu!DialogMessages \cup Menu!Signals)
  /\ signal \in Menu!Signals \cup {"none"}
  /\ dialogType \in Menu!DialogTypes /\ lastType \in Menu!DialogTypes
  /\ step \in {"proc", "turn", "draw"} /\ lastType # "none" => dialogType = lastType
  /\ step = "proc" => dialogType = lastType
  /\ step = "proc" => (Menu!Held <=> dialogType # "none")
  /\ step = "proc" /\ "FINISH" \in sub => dialogType = "none"
  /\ step \in {"draw", "dialog"} => sub \subseteq Menu!Signals
  /\ step \in {"proc", "draw", "dialog"} => signal = "none"

AcceptInv ==
  /\ step # "closed" /\ ("accept" \in sub \/ signal = "accept") => extra = "ini" /\ (chosen \/ broke)
  /\ extra = "ini" =>
       \/ chosen \/ broke
       \/ dialogType = "file"
       \/ dialogType = "none" /\ ~lastResult
       \/ /\ dialogType = "none" /\ lastType = "none"
          /\ IF step = "turn" THEN signal = "finish" ELSE "finish" \in sub

WaitsInv ==
  /\ extra = "ask" =>
       \/ dialogType # "none"
       \/ step = "dialog" /\ lastType # "none"
       \/ step = "proc" /\ "FINISH" \in sub
  /\ extra = "ini" =>
       \/ dialogType # "none"
       \/ step = "dialog" /\ (lastType # "none" \/ sub # {})
       \/ step \in {"proc", "draw"} /\ sub # {}
       \/ step = "turn" /\ signal # "none"

Editing == dialogType = "edit" /\ ~both
EditInv ==
  /\ owner \in 0 .. 3
  /\ step = "proc" => ~quit
  /\ Editing =>
       /\ step # "closed" /\ ~exit /\ ~quit /\ 1 <= owner /\ owner <= Len(pages)
       /\ step = "turn" => next # "back"
       /\ step # "turn" => main = "WAIT"

\* The three stacks of pages, their ends and their lengths.
LEMMA PageEnds ==
  /\ Menu!Last(RootPage) = "root" /\ Menu!Front(RootPage) = <<>> /\ Append(RootPage, "page") = NextPage
  /\ Menu!Last(NextPage) = "page" /\ Menu!Front(NextPage) = RootPage /\ Append(NextPage, "sub") = SubPage
  /\ Menu!Last(SubPage) = "sub" /\ Menu!Front(SubPage) = NextPage
  /\ RootPage # <<>> /\ NextPage # <<>> /\ SubPage # <<>>
  /\ RootPage # NextPage /\ RootPage # SubPage /\ NextPage # SubPage
  /\ Len(<<>>) = 0 /\ Len(RootPage) = 1 /\ Len(NextPage) = 2 /\ Len(SubPage) = 3
<1>1. /\ Menu!Last(RootPage) = "root" /\ Menu!Last(NextPage) = "page" /\ Menu!Last(SubPage) = "sub"
  BY DEF Menu!Last, RootPage, NextPage, SubPage
<1>4. Len(<<>>) = 0 /\ Len(RootPage) = 1 /\ Len(NextPage) = 2 /\ Len(SubPage) = 3
  BY DEF RootPage, NextPage, SubPage
<1>2. ASSUME NEW p \in Seq({"root", "page", "sub"}), NEW page \in {"root", "page", "sub"}
      PROVE  Menu!Front(Append(p, page)) = p
  <2> DEFINE S == {"root", "page", "sub"}
             q == Append(p, page)
             n == Len(q) - 1
             f == SubSeq(q, 1, n)
  <2>1. Len(q) = Len(p) + 1 /\ n = Len(p) /\ n \in Nat /\ \A i \in 1 .. n : q[i] = p[i] /\ q[i] \in S
    BY AppendProperties
  <2> HIDE DEF S, q, n
  <2>2. f \in Seq(S) /\ Len(f) = (IF 1 <= n THEN n - 1 + 1 ELSE 0)
        /\ \A i \in 1 .. n - 1 + 1 : f[i] = q[1 + i - 1]
    BY <2>1, SubSeqProperties
  <2>3. Len(f) = n /\ \A i \in 1 .. n : f[i] = p[i]
    BY <2>1, <2>2
  <2>4. p \in Seq(S)
    BY DEF S
  <2>5. f = p
    BY <2>1, <2>2, <2>3, <2>4, SeqEqual
  <2> QED BY <2>5 DEF Menu!Front, n, q
<1>3. /\ Append(<<>>, "root") = RootPage
      /\ Append(RootPage, "page") = NextPage /\ Append(NextPage, "sub") = SubPage
  <2> DEFINE S == {"root", "page", "sub"}
  <2>1. /\ RootPage \in Seq(S) /\ RootPage[1] = "root"
        /\ NextPage \in Seq(S) /\ NextPage[1] = "root" /\ NextPage[2] = "page"
        /\ SubPage \in Seq(S) /\ SubPage[1] = "root" /\ SubPage[2] = "page" /\ SubPage[3] = "sub"
    BY DEF RootPage, NextPage, SubPage
  <2>2. <<>> \in Seq(S) /\ "root" \in S /\ "page" \in S /\ "sub" \in S
    OBVIOUS
  <2> HIDE DEF S
  <2>6. \A p \in Seq(S), e \in S :
          /\ Append(p, e) \in Seq(S) /\ Len(Append(p, e)) = Len(p) + 1
          /\ Append(p, e)[Len(p) + 1] = e /\ \A i \in 1 .. Len(p) : Append(p, e)[i] = p[i]
    BY AppendProperties
  <2>3. Append(<<>>, "root") = RootPage
    <3>1. /\ Append(<<>>, "root") \in Seq(S) /\ Len(Append(<<>>, "root")) = 1
          /\ Append(<<>>, "root")[1] = "root"
      BY <2>2, AppendProperties
    <3> QED BY <1>4, <2>1, <3>1, SeqEqual
  <2> DEFINE a == Append(RootPage, "page")
             b == Append(NextPage, "sub")
  <2>7. a \in Seq(S) /\ Len(a) = Len(RootPage) + 1 /\ a[Len(RootPage) + 1] = "page"
        /\ \A i \in 1 .. Len(RootPage) : a[i] = RootPage[i]
    BY <2>1, <2>2, <2>6
  <2>8. b \in Seq(S) /\ Len(b) = Len(NextPage) + 1 /\ b[Len(NextPage) + 1] = "sub"
        /\ \A i \in 1 .. Len(NextPage) : b[i] = NextPage[i]
    BY <2>1, <2>2, <2>6
  <2> HIDE DEF a, b
  <2>4. a = NextPage
    <3>1. Len(a) = 2 /\ a[1] = "root" /\ a[2] = "page"
      BY <1>4, <2>1, <2>7
    <3> QED BY <1>4, <2>1, <2>7, <3>1, SeqEqual
  <2>5. b = SubPage
    <3>1. Len(b) = 3 /\ b[1] = "root" /\ b[2] = "page" /\ b[3] = "sub"
      BY <1>4, <2>1, <2>8
    <3> QED BY <1>4, <2>1, <2>8, <3>1, SeqEqual
  <2> QED BY <2>3, <2>4, <2>5 DEF a, b
<1>5. {<<>>, RootPage, NextPage} \subseteq Seq({"root", "page", "sub"})
  BY DEF RootPage, NextPage
<1>6. Menu!Front(RootPage) = <<>> /\ Menu!Front(NextPage) = RootPage /\ Menu!Front(SubPage) = NextPage
  BY <1>2, <1>3, <1>5
<1>7. /\ RootPage # <<>> /\ NextPage # <<>> /\ SubPage # <<>>
      /\ RootPage # NextPage /\ RootPage # SubPage /\ NextPage # SubPage
  <2>1. RootPage # <<>> /\ NextPage # <<>> /\ SubPage # <<>>
    BY DEF RootPage, NextPage, SubPage
  <2>2. RootPage # NextPage
    BY <1>4
  <2>3. RootPage # SubPage
    BY <1>4
  <2>4. NextPage # SubPage
    BY <1>4
  <2> QED BY <2>1, <2>2, <2>3, <2>4
<1> QED BY <1>1, <1>3, <1>4, <1>6, <1>7

\* Each step leaves the memory registered for the pages that there are.
LEMMA PagesStep ==
  ASSUME PagesInv, ExtraInv, Menu!Next \/ UNCHANGED Menu!vars PROVE PagesInv'
<1>1. CASE UNCHANGED Menu!vars
  BY <1>1 DEF Menu!vars, Menu!menuVars, PagesInv
<1>2. CASE Menu!Open
  BY <1>2, PageEnds DEF Menu!Open, Menu!Opened, PagesInv, RootPage
<1>3. CASE Menu!Quit
  BY <1>3, PageEnds DEF Menu!Quit, PagesInv
<1>4. CASE Menu!Begin
  BY <1>4 DEF Menu!Begin, PagesInv
<1>5. CASE Menu!RunExtra
  BY <1>5 DEF Menu!RunExtra, Menu!Stay, Menu!Back, PagesInv
<1>6. CASE Menu!Press
  BY <1>6 DEF Menu!Press, Menu!Free, Menu!Stay, Menu!Back, PagesInv
<1>7. CASE Menu!Enter
  BY <1>7, PageEnds DEF Menu!Enter, Menu!Free, Menu!menuVars, PagesInv
<1>8. CASE Menu!Move
  BY <1>8 DEF Menu!Move, Menu!Free, Menu!Stay, Menu!Back, Menu!menuVars, PagesInv
<1>9. CASE Menu!RunSub
  BY <1>9 DEF Menu!RunSub, Menu!Stay, Menu!menuVars, PagesInv
<1>10. CASE Menu!TurnBack
  BY <1>10, PageEnds DEF Menu!TurnBack, Menu!Cleared, PagesInv
<1>11. CASE Menu!TurnTo
  BY <1>11, PageEnds DEF Menu!TurnTo, PagesInv
<1>12. CASE Menu!Remain \/ Menu!DrawOn \/ Menu!DrawEnd \/ Menu!DrawError
  BY <1>12 DEF Menu!Remain, Menu!DrawOn, Menu!DrawEnd, Menu!DrawError, Menu!menuVars, PagesInv
<1> QED BY <1>1, <1>2, <1>3, <1>4, <1>5, <1>6, <1>7, <1>8, <1>9, <1>10, <1>11, <1>12
        DEF Menu!Next

\* Each step leaves an extra procedure to the page that has set it.
LEMMA ExtraStep ==
  ASSUME PagesInv, ExtraInv, Menu!Next \/ UNCHANGED Menu!vars PROVE ExtraInv'
<1>1. CASE UNCHANGED Menu!vars
  BY <1>1 DEF Menu!vars, Menu!menuVars, ExtraInv
<1>2. CASE Menu!Open \/ Menu!Quit
  BY <1>2 DEF Menu!Open, Menu!Opened, Menu!Quit, ExtraInv
<1>4. CASE Menu!Begin
  BY <1>4 DEF Menu!Begin, ExtraInv
<1>5. CASE Menu!RunExtra
  <2>1. extra' \in {extra, "none"}
    BY <1>5 DEF Menu!RunExtra, Menu!IniHandler, Menu!AskHandler, Menu!DoHandler
  <2>2. extra' # "none" => next' = "same"
    BY <1>5 DEF Menu!RunExtra, Menu!Stay, Menu!Back
  <2> QED BY <1>5, <2>1, <2>2 DEF Menu!RunExtra, ExtraInv
<1>6. CASE Menu!Press
  <2>1. extra' \in {"none", "ini", "ask", "do"} /\ (extra' # "none" => Menu!Last(pages) = "page")
    BY <1>6 DEF Menu!Press, Menu!Free, Menu!EditItem, Menu!IniItem, Menu!AskItem, Menu!DoItem
  <2>2. extra' # "none" => next' = "same"
    BY <1>6 DEF Menu!Press, Menu!Stay, Menu!Back
  <2>3. pages' = pages
    BY <1>6 DEF Menu!Press
  <2>4. pages \in {RootPage, NextPage, SubPage}
    BY <1>6 DEF Menu!Press, Menu!Free, PagesInv
  <2> QED BY <2>1, <2>2, <2>3, <2>4, PageEnds DEF ExtraInv
<1>7. CASE Menu!Enter \/ Menu!Move
  BY <1>7 DEF Menu!Enter, Menu!Move, Menu!Free, ExtraInv
<1>9. CASE Menu!RunSub
  <2>1. extra = "none"
    BY <1>9, PageEnds DEF Menu!RunSub, ExtraInv
  <2> QED BY <1>9, <2>1 DEF Menu!RunSub, ExtraInv
<1>10. CASE Menu!TurnBack \/ Menu!TurnTo
  BY <1>10 DEF Menu!TurnBack, Menu!TurnTo, ExtraInv
<1>12. CASE Menu!Remain \/ Menu!DrawOn \/ Menu!DrawEnd \/ Menu!DrawError
  BY <1>12 DEF Menu!Remain, Menu!DrawOn, Menu!DrawEnd, Menu!DrawError, Menu!menuVars, ExtraInv
<1> QED BY <1>1, <1>2, <1>4, <1>5, <1>6, <1>7, <1>9, <1>10, <1>12 DEF Menu!Next

\* In the page's procedure a dialog may be opened where there is none, and a signal given by the
\* procedure of a file.
Procedure ==
  /\ step = "proc" /\ step' = "turn" /\ UNCHANGED <<pages, tmem, main, sub, lastType, lastResult>>
  /\ \/ UNCHANGED <<dialogType, exit, owner>>
     \/ /\ dialogType = "none" /\ dialogType' \in {"message", "edit", "file", "question"}
        /\ exit' = FALSE
        /\ owner' = Len(pages)

\* What the procedure of a page, or an extra one, may change in its step.
LEMMA ProcedureSteps ==
  ASSUME PagesInv, Menu!RunExtra \/ Menu!Press \/ Menu!Enter \/ Menu!Move \/ Menu!RunSub
  PROVE  Procedure
<1>1. CASE Menu!RunExtra
  <2>1. Menu!NotShown \/ Menu!Report
    BY <1>1 DEF Menu!RunExtra, Menu!IniHandler, Menu!AskHandler, Menu!DoHandler
  <2>2. step = "proc" /\ step' = "turn" /\ UNCHANGED <<pages, tmem, main, sub, lastType, lastResult>>
    BY <1>1 DEF Menu!RunExtra, Menu!resultVars
  <2> QED BY <2>1, <2>2 DEF Procedure, Menu!NotShown, Menu!Report, Menu!Shown
<1>2. CASE Menu!Press
  <2>1. \/ Menu!NotShown \/ Menu!Report \/ Menu!Shown("file") \/ Menu!Shown("question")
        \/ Menu!Asked("edit")
    BY <1>2 DEF Menu!Press, Menu!EditItem, Menu!IniItem, Menu!AskItem, Menu!DoItem
  <2>2. step = "proc" /\ step' = "turn" /\ UNCHANGED <<pages, tmem, main, sub, lastType, lastResult>>
    BY <1>2 DEF Menu!Press, Menu!Free
  <2> QED BY <2>1, <2>2 DEF Procedure, Menu!NotShown, Menu!Report, Menu!Shown, Menu!Asked
<1>3. CASE Menu!Enter \/ Menu!Move
  BY <1>3 DEF Menu!Enter, Menu!Move, Menu!Free, Menu!menuVars, Menu!resultVars, Procedure
<1>4. CASE Menu!RunSub
  <2>1. Menu!NotShown \/ Menu!Report \/ Menu!Asked("edit")
    BY <1>4 DEF Menu!RunSub
  <2>2. step = "proc" /\ step' = "turn" /\ UNCHANGED <<pages, tmem, main, sub, lastType, lastResult>>
    BY <1>4 DEF Menu!RunSub, Menu!menuVars, Menu!resultVars
  <2> QED BY <2>1, <2>2 DEF Procedure, Menu!NotShown, Menu!Report, Menu!Shown, Menu!Asked
<1> QED BY <1>1, <1>2, <1>3, <1>4

\* At the end of the procedure the messages are made for the next frame.
Turned ==
  /\ step = "turn" /\ step' = "draw" /\ Menu!Messages
  /\ UNCHANGED <<next, lastType, extra, quit, lastResult, chosen, broke, both>>
  /\ \/ UNCHANGED <<dialogType, exit, owner>>
     \/ dialogType = "none" /\ dialogType' = "message" /\ exit' = FALSE /\ owner' = Len(pages)

\* What the change of the page may change.
LEMMA TurnSteps ==
  ASSUME Menu!TurnBack \/ Menu!TurnTo \/ Menu!Remain PROVE Turned
<1>1. CASE Menu!TurnBack \/ Menu!Remain
  BY <1>1 DEF Menu!TurnBack, Menu!Remain, Menu!resultVars, Turned
<1>2. CASE Menu!TurnTo
  BY <1>2 DEF Menu!TurnTo, Menu!resultVars, Menu!NotShown, Menu!Report, Menu!Shown, Turned
<1> QED BY <1>1, <1>2

\* The signals of a page's procedure.
LEMMA SignalSteps ==
  ASSUME MessagesInv, ExtraInv, Menu!RunExtra \/ Menu!Press \/ Menu!Enter \/ Menu!Move \/ Menu!RunSub
  PROVE  signal' \in Menu!Signals \cup {"none"}
<1>0. signal = "none"
  <2>1. step = "proc"
    BY DEF Menu!RunExtra, Menu!Press, Menu!Enter, Menu!Move, Menu!RunSub, Menu!Free
  <2> QED BY <2>1 DEF MessagesInv
<1>1. CASE Menu!RunExtra
  BY <1>0, <1>1 DEF Menu!RunExtra, Menu!IniHandler, Menu!Signals
<1>2. CASE Menu!Press
  BY <1>0, <1>2 DEF Menu!Press, Menu!EditItem, Menu!IniItem, Menu!AskItem, Menu!DoItem, Menu!Signals
<1>3. CASE Menu!Enter \/ Menu!Move \/ Menu!RunSub
  BY <1>0, <1>3 DEF Menu!Enter, Menu!Move, Menu!RunSub, Menu!menuVars
<1> QED BY <1>1, <1>2, <1>3

\* Each step leaves the messages with the dialog that they tell of.
LEMMA MessagesStep ==
  ASSUME PagesInv, ExtraInv, MessagesInv, Menu!Next \/ UNCHANGED Menu!vars PROVE MessagesInv'
<1>s. /\ Menu!Held  = (sub  \cap {"START", "UPDATE"} # {})
      /\ Menu!Held' = (sub' \cap {"START", "UPDATE"} # {})
  BY DEF Menu!Held
<1>1. CASE UNCHANGED Menu!vars
  BY <1>1, <1>s DEF Menu!vars, Menu!menuVars, MessagesInv
<1>2. CASE Menu!Open
  BY <1>2 DEF Menu!Open, Menu!Opened, MessagesInv
<1>3. CASE Menu!Quit
  BY <1>3 DEF Menu!Quit, MessagesInv
<1>4. CASE Menu!Begin
  <2>1. sub \subseteq {"accept", "finish"} /\ signal = "none" /\ dialogType \in Menu!DialogTypes
        /\ lastType \in Menu!DialogTypes /\ main \in {"PROC", "WAIT", "CONTINUE"}
    BY <1>4 DEF Menu!Begin, MessagesInv, Menu!Signals
  <2>2. /\ step' = "proc" /\ sub' = sub \cup Menu!DialogMessage /\ lastType' = dialogType
        /\ UNCHANGED <<main, signal, dialogType>>
    BY <1>4 DEF Menu!Begin
  <2>3. CASE dialogType # "none"
    <3>1. Menu!DialogMessage \subseteq {"START", "UPDATE"} /\ Menu!DialogMessage # {}
      BY <2>3 DEF Menu!DialogMessage
    <3> QED BY <2>1, <2>2, <2>3, <3>1, <1>s DEF MessagesInv, Menu!Signals, Menu!DialogMessages
  <2>4. CASE dialogType = "none"
    <3>1. Menu!DialogMessage \subseteq {"FINISH"}
      BY <2>4 DEF Menu!DialogMessage
    <3>2. ~Menu!Held'
      BY <2>1, <2>2, <3>1, <1>s
    <3> QED BY <2>1, <2>2, <2>4, <3>1, <3>2 DEF MessagesInv, Menu!Signals, Menu!DialogMessages
  <2> QED BY <2>3, <2>4
<1>5. CASE Menu!RunExtra \/ Menu!Press \/ Menu!Enter \/ Menu!Move \/ Menu!RunSub
  BY <1>5, ProcedureSteps, SignalSteps DEF Procedure, MessagesInv, Menu!DialogTypes
<1>6. CASE Menu!TurnBack \/ Menu!TurnTo \/ Menu!Remain
  <2>1. Turned
    BY <1>6, TurnSteps
  <2>2. sub' \subseteq Menu!Signals /\ signal' = "none" /\ main' \in {"PROC", "WAIT", "CONTINUE"}
    BY <2>1 DEF Turned, Menu!Messages, Menu!PassedOn, MessagesInv
  <2> QED BY <2>1, <2>2 DEF Turned, MessagesInv, Menu!DialogTypes
<1>7. CASE Menu!DrawOn
  BY <1>7 DEF Menu!DrawOn, Menu!menuVars, MessagesInv
<1>8. CASE Menu!DrawEnd
  BY <1>8 DEF Menu!DrawEnd, Menu!menuVars, MessagesInv, Menu!DialogTypes
<1>9. CASE Menu!DrawError
  BY <1>9 DEF Menu!DrawError, Menu!menuVars, MessagesInv, Menu!DialogTypes
<1> QED BY <1>1, <1>2, <1>3, <1>4, <1>5, <1>6, <1>7, <1>8, <1>9 DEF Menu!Next

\* What is acted on has been accepted.
LEMMA AcceptStep ==
  ASSUME PagesInv, ExtraInv, MessagesInv, AcceptInv, Menu!Next \/ UNCHANGED Menu!vars
  PROVE  AcceptInv'
<1>1. CASE UNCHANGED Menu!vars
  BY <1>1 DEF Menu!vars, Menu!menuVars, Menu!resultVars, AcceptInv
<1>2. CASE Menu!Open
  BY <1>2 DEF Menu!Open, Menu!Opened, AcceptInv
<1>3. CASE Menu!Quit
  BY <1>3 DEF Menu!Quit, AcceptInv
<1>4. CASE Menu!Begin
  <2>1. /\ "accept" \in sub' <=> "accept" \in sub
        /\ "finish" \in sub' <=> "finish" \in sub
    BY <1>4 DEF Menu!Begin, Menu!DialogMessage
  <2>2. step = "dialog" /\ step' = "proc" /\ lastType' = dialogType
        /\ UNCHANGED <<signal, dialogType, extra, chosen, broke, lastResult>>
    BY <1>4 DEF Menu!Begin, Menu!resultVars
  <2> QED BY <2>1, <2>2 DEF AcceptInv
<1>5. CASE Menu!RunExtra /\ extra = "ini"
  <2>1. /\ step = "proc" /\ signal = "none" /\ dialogType = lastType
        /\ "FINISH" \in sub => dialogType = "none"
    BY <1>5 DEF Menu!RunExtra, MessagesInv
  <2>2. step' = "turn" /\ UNCHANGED <<sub, lastType, lastResult, chosen, broke>> /\ Menu!IniHandler
    BY <1>5 DEF Menu!RunExtra, Menu!resultVars
  <2>3. CASE "accept" \in sub
    <3>1. signal' = "finish" /\ extra' = extra /\ (chosen \/ broke)
      BY <1>5, <2>1, <2>2, <2>3 DEF Menu!IniHandler, AcceptInv
    <3> QED BY <1>5, <2>2, <3>1 DEF AcceptInv
  <2>4. CASE "accept" \notin sub /\ "finish" \in sub
    BY <2>1, <2>2, <2>4 DEF Menu!IniHandler, AcceptInv
  <2>5. CASE "accept" \notin sub /\ "finish" \notin sub
    <3>1. extra' = "ini" /\ UNCHANGED dialogType
          /\ signal' = IF "FINISH" \notin sub THEN signal ELSE IF lastResult THEN "accept" ELSE "finish"
      BY <1>5, <2>2, <2>5 DEF Menu!IniHandler, Menu!NotShown, Menu!ResultAccepted
    <3>2. (chosen \/ broke) \/ dialogType = "file" \/ (dialogType = "none" /\ ~lastResult)
      BY <1>5, <2>1, <2>5 DEF AcceptInv
    <3>3. signal' = "accept" => chosen \/ broke
      BY <2>1, <3>1, <3>2
    <3> QED BY <2>2, <2>5, <3>1, <3>2, <3>3 DEF AcceptInv
  <2> QED BY <2>3, <2>4, <2>5
<1>6. CASE Menu!RunExtra /\ extra # "ini"
  <2>1. step = "proc" /\ signal = "none" /\ "accept" \notin sub
    BY <1>6 DEF Menu!RunExtra, MessagesInv, AcceptInv
  <2>2. extra' # "ini" /\ UNCHANGED <<sub, signal>>
    BY <1>6 DEF Menu!RunExtra, Menu!AskHandler, Menu!DoHandler
  <2> QED BY <2>1, <2>2 DEF AcceptInv
<1>7. CASE Menu!Press
  <2>1. /\ step = "proc" /\ signal = "none" /\ "accept" \notin sub
        /\ lastType = "none" /\ dialogType = "none"
    BY <1>7 DEF Menu!Press, Menu!Free, Menu!DialogMessages, Menu!Held, MessagesInv, AcceptInv
  <2>2. step' = "turn" /\ UNCHANGED <<sub, lastType, lastResult>>
    BY <1>7 DEF Menu!Press
  <2>3. CASE Menu!IniItem
    <3>1. CASE Menu!Shown("file") /\ extra' = "ini" /\ UNCHANGED signal
      BY <2>1, <2>2, <3>1 DEF Menu!Shown, AcceptInv
    <3>2. CASE Menu!NotShown /\ signal' = "finish" /\ extra' \in {"ini", "none"}
      BY <2>1, <2>2, <3>2 DEF Menu!NotShown, AcceptInv
    <3>3. CASE UNCHANGED <<signal, extra>>
      BY <1>7, <2>1, <2>2, <3>3 DEF Menu!Press, Menu!Free, AcceptInv
    <3> QED BY <2>3, <3>1, <3>2, <3>3 DEF Menu!IniItem
  <2>4. CASE Menu!EditItem \/ Menu!AskItem \/ Menu!DoItem
    <3>1. extra' # "ini" /\ UNCHANGED signal
      BY <1>7, <2>4 DEF Menu!Press, Menu!Free, Menu!EditItem, Menu!AskItem, Menu!DoItem
    <3> QED BY <2>1, <2>2, <3>1 DEF AcceptInv
  <2> QED BY <1>7, <2>3, <2>4 DEF Menu!Press
<1>8. CASE Menu!Enter \/ Menu!Move \/ Menu!RunSub
  <2>1. step = "proc" /\ signal = "none" /\ extra = "none"
    <3>1. step = "proc" /\ signal = "none"
      BY <1>8 DEF Menu!Enter, Menu!Move, Menu!RunSub, Menu!Free, MessagesInv
    <3>2. ASSUME Menu!RunSub PROVE extra = "none"
      BY <3>2, PageEnds DEF Menu!RunSub, ExtraInv
    <3> QED BY <1>8, <3>1, <3>2 DEF Menu!Enter, Menu!Move, Menu!Free
  <2>2. UNCHANGED <<extra, sub, signal>>
    BY <1>8 DEF Menu!Enter, Menu!Move, Menu!RunSub, Menu!menuVars
  <2> QED BY <2>1, <2>2 DEF AcceptInv
<1>9. CASE Menu!TurnBack \/ Menu!TurnTo \/ Menu!Remain
  <2>1. Turned
    BY <1>9, TurnSteps
  <2>2. /\ sub' = (IF signal = "none" THEN {} ELSE {signal}) /\ signal' = "none"
        /\ UNCHANGED <<extra, lastType, lastResult, chosen, broke>> /\ step = "turn" /\ step' = "draw"
    BY <2>1 DEF Turned, Menu!Messages, Menu!PassedOn
  <2>3. CASE UNCHANGED dialogType
    BY <2>2, <2>3 DEF AcceptInv
  <2>4. extra = "ini" => Menu!Remain
    BY <1>9 DEF ExtraInv, Menu!TurnBack, Menu!TurnTo
  <2>5. CASE extra # "ini"
    BY <2>2, <2>5 DEF AcceptInv
  <2> QED BY <2>3, <2>4, <2>5 DEF Menu!Remain
<1>10. CASE Menu!DrawOn
  BY <1>10 DEF Menu!DrawOn, Menu!menuVars, Menu!resultVars, AcceptInv
<1>11. CASE Menu!DrawEnd
  <2>1. /\ step = "draw" /\ lastType # "none" /\ dialogType = lastType
        /\ UNCHANGED <<sub, signal, extra, broke>> /\ dialogType' = "none" /\ step' = "dialog"
        /\ chosen' = (chosen \/ (dialogType = "file" /\ lastResult')) /\ signal = "none"
    BY <1>11 DEF Menu!DrawEnd, Menu!menuVars, MessagesInv
  <2>2. lastResult' \in BOOLEAN
    BY <1>11 DEF Menu!DrawEnd, Menu!Results
  <2>3. "accept" \in sub => extra = "ini" /\ (chosen' \/ broke')
    BY <2>1 DEF AcceptInv
  <2>4. extra = "ini" => (chosen' \/ broke') \/ ~lastResult'
    BY <2>1, <2>2 DEF AcceptInv
  <2> QED BY <2>1, <2>3, <2>4 DEF AcceptInv
<1>12. CASE Menu!DrawError
  BY <1>12 DEF Menu!DrawError, Menu!menuVars, MessagesInv, AcceptInv
<1> QED BY <1>1, <1>2, <1>3, <1>4, <1>5, <1>6, <1>7, <1>8, <1>9, <1>10, <1>11, <1>12 DEF Menu!Next

\* What waits is sure to be told.
LEMMA WaitsStep ==
  ASSUME PagesInv, ExtraInv, MessagesInv, WaitsInv, Menu!Next \/ UNCHANGED Menu!vars
  PROVE  WaitsInv'
<1>1. CASE UNCHANGED Menu!vars
  BY <1>1 DEF Menu!vars, Menu!menuVars, WaitsInv
<1>2. CASE Menu!Open \/ Menu!Quit
  BY <1>2 DEF Menu!Open, Menu!Opened, Menu!Quit, WaitsInv
<1>4. CASE Menu!Begin
  <2>1. CASE dialogType # "none"
    BY <1>4, <2>1 DEF Menu!Begin, WaitsInv
  <2>2. CASE dialogType = "none" /\ lastType # "none"
    BY <1>4, <2>2 DEF Menu!Begin, Menu!DialogMessage, WaitsInv
  <2>3. CASE dialogType = "none" /\ lastType = "none"
    <3>1. extra # "ask" /\ (extra = "ini" => sub # {})
      BY <1>4, <2>3 DEF Menu!Begin, WaitsInv
    <3>2. step' = "proc" /\ sub' = sub \cup Menu!DialogMessage /\ extra' = extra
      BY <1>4 DEF Menu!Begin
    <3> QED BY <3>1, <3>2 DEF WaitsInv
  <2> QED BY <2>1, <2>2, <2>3
<1>5. CASE Menu!RunExtra
  <2>1. step = "proc" /\ step' = "turn" /\ (dialogType # "none" => dialogType' # "none")
    BY <1>5, ProcedureSteps DEF Procedure
  <2>2. CASE extra = "ini" /\ Menu!IniHandler
    <3>1. signal = "none" /\ ("FINISH" \in sub => dialogType = "none")
          /\ sub \subseteq {"START", "UPDATE", "FINISH", "accept", "finish"}
      BY <2>1 DEF MessagesInv, Menu!DialogMessages, Menu!Signals
    <3>2. CASE "accept" \in sub
      BY <2>1, <2>2, <3>2 DEF Menu!IniHandler, WaitsInv
    <3>3. CASE "accept" \notin sub /\ "finish" \in sub
      BY <2>1, <2>2, <3>3 DEF Menu!IniHandler, WaitsInv
    <3>4. CASE "accept" \notin sub /\ "finish" \notin sub /\ "FINISH" \in sub
      BY <2>1, <2>2, <3>4 DEF Menu!IniHandler, WaitsInv
    <3>5. CASE "accept" \notin sub /\ "finish" \notin sub /\ "FINISH" \notin sub
      <4>1. dialogType # "none"
        <5>1. CASE dialogType = "none"
          <6>1. sub # {}
            BY <2>1, <2>2, <5>1 DEF WaitsInv
          <6>2. "START" \notin sub /\ "UPDATE" \notin sub
            BY <2>1, <5>1 DEF MessagesInv, Menu!Held
          <6> QED BY <3>1, <3>5, <6>1, <6>2
        <5> QED BY <5>1
      <4>2. extra' = extra /\ dialogType' # "none"
        BY <2>1, <2>2, <3>5, <4>1 DEF Menu!IniHandler
      <4> QED BY <2>2, <4>2 DEF WaitsInv
    <3> QED BY <3>2, <3>3, <3>4, <3>5
  <2>3. CASE extra = "ask" /\ Menu!AskHandler
    BY <2>1, <2>3 DEF Menu!AskHandler, WaitsInv
  <2>4. CASE extra = "do" /\ Menu!DoHandler
    BY <2>1, <2>4 DEF Menu!DoHandler, WaitsInv
  <2> QED BY <1>5, <2>2, <2>3, <2>4 DEF Menu!RunExtra
<1>6. CASE Menu!Press
  <2>1. step' = "turn" /\ extra = "none"
    BY <1>6 DEF Menu!Press, Menu!Free
  <2>2. CASE Menu!EditItem \/ Menu!DoItem
    BY <2>1, <2>2 DEF Menu!EditItem, Menu!DoItem, WaitsInv
  <2>3. CASE Menu!IniItem
    BY <2>1, <2>3 DEF Menu!IniItem, Menu!Shown, WaitsInv
  <2>4. CASE Menu!AskItem
    BY <2>1, <2>4 DEF Menu!AskItem, Menu!Shown, WaitsInv
  <2> QED BY <1>6, <2>2, <2>3, <2>4 DEF Menu!Press
<1>7. CASE Menu!Enter \/ Menu!Move
  BY <1>7 DEF Menu!Enter, Menu!Move, Menu!Free, WaitsInv
<1>8. CASE Menu!RunSub
  <2>1. extra = "none"
    BY <1>8, PageEnds DEF Menu!RunSub, ExtraInv
  <2> QED BY <1>8, <2>1 DEF Menu!RunSub, WaitsInv
<1>9. CASE Menu!TurnBack \/ Menu!TurnTo \/ Menu!Remain
  <2>1. Turned
    BY <1>9, TurnSteps
  <2>2. /\ sub' = (IF signal = "none" THEN {} ELSE {signal})
        /\ extra' = extra /\ step = "turn" /\ step' = "draw"
        /\ dialogType # "none" => dialogType' # "none"
    BY <2>1 DEF Turned, Menu!Messages, Menu!PassedOn
  <2> QED BY <2>2 DEF WaitsInv
<1>10. CASE Menu!DrawOn
  BY <1>10 DEF Menu!DrawOn, Menu!menuVars, WaitsInv
<1>11. CASE Menu!DrawEnd \/ Menu!DrawError
  BY <1>11 DEF Menu!DrawEnd, Menu!DrawError, Menu!menuVars, WaitsInv
<1> QED BY <1>1, <1>2, <1>4, <1>5, <1>6, <1>7, <1>8, <1>9, <1>10, <1>11 DEF Menu!Next


\* Each step leaves the editing dialog to a page that is still there.
LEMMA EditStep ==
  ASSUME PagesInv, ExtraInv, MessagesInv, EditInv, Menu!Next \/ UNCHANGED Menu!vars
  PROVE  EditInv'
<1>l. Len(pages) \in 0 .. 3 /\ (Len(pages) = 0 <=> pages = <<>>)
  BY PageEnds DEF PagesInv
<1>1. CASE UNCHANGED Menu!vars
  BY <1>1 DEF Menu!vars, Menu!menuVars, EditInv, Editing
<1>2. CASE Menu!Open
  BY <1>2 DEF Menu!Open, Menu!Opened, EditInv, Editing
<1>3. CASE Menu!Quit
  <2>1. ~Editing
    BY <1>3, <1>l DEF Menu!Quit, EditInv
  <2>2. UNCHANGED <<dialogType, both, owner, exit, quit>> /\ step' = "closed"
    BY <1>3 DEF Menu!Quit
  <2> QED BY <2>1, <2>2 DEF EditInv, Editing
<1>4. CASE Menu!Begin
  BY <1>4 DEF Menu!Begin, EditInv, Editing
<1>5. CASE Menu!RunExtra \/ Menu!Press \/ Menu!Enter \/ Menu!Move \/ Menu!RunSub
  <2>1. Procedure
    BY <1>5, ProcedureSteps
  <2>2. step = "proc" /\ step' = "turn" /\ pages # <<>> /\ owner' \in 0 .. 3
    BY <1>l, <2>1 DEF Procedure, PagesInv, EditInv
  <2>3. ~quit /\ (Editing => Menu!Held /\ main = "WAIT")
    BY <2>2 DEF EditInv, Editing, MessagesInv
  <2>4. CASE Menu!RunExtra
    <3>1. dialogType' \in {dialogType, "message"} /\ UNCHANGED <<both, quit>>
      BY <1>5, <2>4 DEF Menu!RunExtra, Menu!IniHandler, Menu!AskHandler, Menu!DoHandler, Menu!Report,
                        Menu!NotShown, Menu!Shown
    <3>2. Editing' => Editing /\ UNCHANGED <<exit, owner>>
      BY <2>1, <3>1 DEF Procedure, Editing
    <3>3. Editing => next' # "back"
      BY <2>3, <2>4 DEF Menu!RunExtra, Menu!Stay, Menu!Back
    <3> QED BY <2>1, <2>2, <2>3, <3>1, <3>2, <3>3 DEF EditInv, Procedure
  <2>5. CASE Menu!Press
    <3>1. dialogType = "none"
      BY <2>2, <2>5 DEF Menu!Press, Menu!DialogMessages, MessagesInv, Menu!Held
    <3>2. UNCHANGED quit /\ (Editing' => next' # "back")
      BY <2>5 DEF Menu!Press, Menu!Stay, Editing
    <3>3. Editing' => exit' = FALSE /\ owner' = Len(pages)
      BY <2>1, <3>1 DEF Procedure, Editing
    <3> QED BY <1>l, <2>1, <2>2, <2>3, <3>2, <3>3 DEF EditInv, Procedure
  <2>6. CASE Menu!Enter \/ Menu!Move
    <3>1. UNCHANGED <<dialogType, both, quit, exit, owner>>
      BY <2>6 DEF Menu!Enter, Menu!Move
    <3>2. Editing => next' # "back"
      BY <2>3, <2>6 DEF Menu!Enter, Menu!Move, Menu!Stay, Menu!Back
    <3> QED BY <2>1, <2>2, <2>3, <3>1, <3>2 DEF EditInv, Editing, Procedure
  <2>7. CASE Menu!RunSub
    <3>1. CASE Editing
      <4>1. UNCHANGED <<dialogType, both, quit, exit, owner>> /\ next' = "same"
        BY <2>3, <2>7, <3>1 DEF Menu!RunSub, Menu!NotShown, Menu!Stay, Menu!resultVars
      <4> QED BY <2>1, <2>2, <2>3, <3>1, <4>1 DEF EditInv, Editing, Procedure
    <3>2. CASE ~Editing /\ Editing'
      <4>1. dialogType = "none" /\ dialogType' = "edit" /\ exit' = FALSE /\ owner' = Len(pages)
        BY <2>1, <2>7, <3>2 DEF Procedure, Editing, Menu!RunSub
      <4>2. next' = "same" /\ UNCHANGED quit
        BY <2>7, <4>1 DEF Menu!RunSub, Menu!NotShown, Menu!Report, Menu!Shown, Menu!Stay
      <4> QED BY <1>l, <2>1, <2>2, <2>3, <4>1, <4>2 DEF EditInv, Procedure
    <3>3. CASE ~Editing'
      BY <2>2, <3>3 DEF EditInv
    <3> QED BY <3>1, <3>2, <3>3
  <2> QED BY <1>5, <2>4, <2>5, <2>6, <2>7
<1>6. CASE Menu!TurnBack
  BY <1>6 DEF Menu!TurnBack, Menu!Messages, EditInv, Editing
<1>7. CASE Menu!TurnTo \/ Menu!Remain
  <2>1. Turned
    BY <1>7, TurnSteps
  <2>2. step' = "draw" /\ UNCHANGED <<quit, both>> /\ owner' \in 0 .. 3
    BY <1>l, <2>1 DEF Turned, EditInv
  <2>3. Len(pages) <= Len(pages')
    BY <1>7, PageEnds DEF Menu!TurnTo, Menu!Remain, PagesInv
  <2>4. CASE UNCHANGED <<dialogType, exit, owner>>
    <3>1. Editing' => Editing /\ main' = "WAIT"
      BY <2>1, <2>2, <2>4 DEF Turned, Menu!Messages, Editing
    <3> QED BY <2>1, <2>2, <2>3, <2>4, <3>1 DEF EditInv
  <2>5. CASE dialogType' = "message"
    BY <2>2, <2>5 DEF EditInv, Editing
  <2> QED BY <2>1, <2>4, <2>5 DEF Turned
<1>8. CASE Menu!DrawOn
  BY <1>8 DEF Menu!DrawOn, Menu!menuVars, EditInv, Editing
<1>9. CASE Menu!DrawEnd \/ Menu!DrawError
  <2>1. step' = "dialog" /\ dialogType' # "edit" /\ owner' \in 0 .. 3
    BY <1>9, <1>l DEF Menu!DrawEnd, Menu!DrawError, EditInv
  <2> QED BY <2>1 DEF EditInv, Editing
<1> QED BY <1>1, <1>2, <1>3, <1>4, <1>5, <1>6, <1>7, <1>8, <1>9 DEF Menu!Next

BoolInv ==
  lastResult \in BOOLEAN /\ exit \in BOOLEAN /\ quit \in BOOLEAN /\ chosen \in BOOLEAN
  /\ broke \in BOOLEAN /\ both \in BOOLEAN

\* The rest is yes or no.
LEMMA BoolStep ==
  ASSUME BoolInv, Menu!Next \/ UNCHANGED Menu!vars PROVE BoolInv'
<1>1. CASE UNCHANGED Menu!vars
  BY <1>1 DEF Menu!vars, Menu!resultVars, BoolInv
<1>2. CASE Menu!Open \/ Menu!Quit \/ Menu!Begin
  BY <1>2 DEF Menu!Open, Menu!Opened, Menu!Quit, Menu!Begin, Menu!resultVars, BoolInv
<1>3. CASE Menu!RunExtra
  <2>1. exit' \in {exit, FALSE}
    BY <1>3 DEF Menu!RunExtra, Menu!IniHandler, Menu!AskHandler, Menu!DoHandler, Menu!Report,
                Menu!NotShown, Menu!Shown
  <2>2. UNCHANGED <<lastResult, quit, chosen, broke, both>>
    BY <1>3 DEF Menu!RunExtra, Menu!resultVars
  <2> QED BY <2>1, <2>2 DEF BoolInv
<1>4. CASE Menu!Press
  <2>1. exit' \in {exit, FALSE}
    BY <1>4 DEF Menu!Press, Menu!EditItem, Menu!IniItem, Menu!AskItem, Menu!DoItem, Menu!Asked,
                Menu!Report, Menu!NotShown, Menu!Shown
  <2>2. chosen' \in {chosen, FALSE} /\ broke' \in {broke, FALSE}
    BY <1>4 DEF Menu!Press, Menu!EditItem, Menu!IniItem, Menu!AskItem, Menu!DoItem
  <2>3. UNCHANGED <<lastResult, quit>> /\ both' \in {both, TRUE}
    BY <1>4 DEF Menu!Press
  <2> QED BY <2>1, <2>2, <2>3 DEF BoolInv
<1>5. CASE Menu!Enter \/ Menu!Move
  BY <1>5 DEF Menu!Enter, Menu!Move, Menu!resultVars, BoolInv
<1>6. CASE Menu!RunSub
  <2>1. exit' \in {exit, FALSE} /\ quit' \in {quit, TRUE}
    BY <1>6 DEF Menu!RunSub, Menu!Asked, Menu!Report, Menu!NotShown, Menu!Shown
  <2>2. UNCHANGED <<lastResult, chosen, broke, both>>
    BY <1>6 DEF Menu!RunSub, Menu!resultVars
  <2> QED BY <2>1, <2>2 DEF BoolInv
<1>7. CASE Menu!TurnBack \/ Menu!TurnTo \/ Menu!Remain
  <2>1. Turned
    BY <1>7, TurnSteps
  <2>2. exit' \in {exit, FALSE} /\ UNCHANGED <<lastResult, quit, chosen, broke, both>>
    BY <2>1 DEF Turned
  <2> QED BY <2>2 DEF BoolInv
<1>8. CASE Menu!DrawOn
  BY <1>8 DEF Menu!DrawOn, Menu!resultVars, BoolInv
<1>9. CASE Menu!DrawEnd
  BY <1>9 DEF Menu!DrawEnd, Menu!Results, BoolInv
<1>10. CASE Menu!DrawError
  BY <1>10 DEF Menu!DrawError, BoolInv
<1> QED BY <1>1, <1>2, <1>3, <1>4, <1>5, <1>6, <1>7, <1>8, <1>9, <1>10 DEF Menu!Next

MenuInv == PagesInv /\ ExtraInv /\ MessagesInv /\ AcceptInv /\ WaitsInv /\ EditInv /\ BoolInv

\* At first the menu is closed.
LEMMA MenuInitInv == Menu!Init => MenuInv
<1> SUFFICES ASSUME Menu!Init PROVE MenuInv
  OBVIOUS
<1>1. PagesInv
  BY PageEnds DEF Menu!Init, PagesInv
<1>2. ExtraInv /\ WaitsInv
  BY DEF Menu!Init, ExtraInv, WaitsInv
<1>3. MessagesInv
  BY DEF Menu!Init, MessagesInv, Menu!DialogTypes
<1>4. AcceptInv
  BY DEF Menu!Init, AcceptInv
<1>5. EditInv
  BY DEF Menu!Init, EditInv, Editing
<1>6. BoolInv
  BY DEF Menu!Init, BoolInv
<1> QED BY <1>1, <1>2, <1>3, <1>4, <1>5, <1>6 DEF MenuInv

\* What mfMenuMain keeps from one step of a frame to the next: pages, extra procedures, messages
\* and dialogs fit each other.
THEOREM MenuInvariant == Menu!Spec => []MenuInv
<1>1. MenuInv /\ [Menu!Next]_(Menu!vars) => MenuInv'
  BY PagesStep, ExtraStep, MessagesStep, AcceptStep, WaitsStep, EditStep, BoolStep DEF MenuInv
<1> QED BY <1>1, MenuInitInv, PTL DEF Menu!Spec

\* The state of the menu is what mfMenuMain and mfdialog keep.
THEOREM MenuTypeCorrect == Menu!Spec => []Menu!TypeOK
<1>1. MenuInv => Menu!TypeOK
  <2> SUFFICES ASSUME MenuInv PROVE Menu!TypeOK
    OBVIOUS
  <2>1. /\ step \in {"dialog", "proc", "turn", "draw", "closed"}
        /\ pages \in {<<>>, <<"root">>, <<"root", "page">>, <<"root", "page", "sub">>}
        /\ next \in {"same", "back", "page", "sub"}
    BY DEF MenuInv, PagesInv, RootPage, NextPage, SubPage
  <2>2. tmem \in Seq({"root", "page"})
    <3>1. {<<>>, RootPage, NextPage} \subseteq Seq({"root", "page"})
      BY DEF RootPage, NextPage
    <3>2. tmem \in {<<>>, RootPage, NextPage}
      BY DEF MenuInv, PagesInv
    <3> QED BY <3>1, <3>2
  <2>3. /\ main \in {"PROC", "WAIT", "CONTINUE"} /\ sub \subseteq (Menu!DialogMessages \cup Menu!Signals)
        /\ signal \in Menu!Signals \cup {"none"}
        /\ dialogType \in Menu!DialogTypes /\ lastType \in Menu!DialogTypes
    BY DEF MenuInv, MessagesInv
  <2>4. extra \in {"none", "ini", "ask", "do"} /\ owner \in 0 .. 3
    BY DEF MenuInv, ExtraInv, EditInv
  <2>5. {lastResult, exit, quit, chosen, broke, both} \subseteq BOOLEAN
    BY Zenon DEF MenuInv, BoolInv
  <2> QED BY <2>1, <2>2, <2>3, <2>4, <2>5 DEF Menu!TypeOK
<1> QED BY <1>1, MenuInvariant, PTL

\* A file is loaded or saved only when one has been accepted, or the dialog has broken off.
LEMMA MenuAccepted == MenuInv => Menu!ActsOnAccept
<1> SUFFICES ASSUME MenuInv PROVE Menu!ActsOnAccept
  OBVIOUS
<1>1. step = "closed" => extra # "ini"
  BY PageEnds DEF MenuInv, PagesInv, ExtraInv
<1> QED BY <1>1 DEF MenuInv, AcceptInv, Menu!ActsOnAccept

\* An extra procedure is told, and what belongs to a page goes with it.
LEMMA MenuTells == MenuInv => Menu!ExtraGoesOn /\ Menu!WithItsPage
<1> SUFFICES ASSUME MenuInv PROVE Menu!ExtraGoesOn /\ Menu!WithItsPage
  OBVIOUS
<1>1. Menu!ExtraGoesOn
  BY DEF MenuInv, WaitsInv, Menu!ExtraGoesOn
<1>2. tmem = IF pages # <<>> /\ Menu!Last(pages) = "sub" THEN Menu!Front(pages) ELSE pages
  BY PageEnds DEF MenuInv, PagesInv
<1>3. extra # "none" => Menu!Last(pages) = "page"
  BY PageEnds DEF MenuInv, ExtraInv
<1>4. dialogType = "edit" /\ ~both => owner <= Len(pages)
  BY DEF MenuInv, EditInv, Editing
<1> QED BY <1>1, <1>2, <1>3, <1>4 DEF Menu!WithItsPage

-----------------------------------------------------------------------------
(* What the run "units" says of these parts. *)

\* What is selected in the remap function's list (remap.c), in the list of buttons, in the file
\* dialog and on the keyboard (cdialog) is one of the things that are there.
THEOREM SelectedInListCorrect ==
  ASSUME Paged, Listed, Placed, KeysLaid
  PROVE  Remap!Spec /\ Detect!Spec /\ Getfile!Spec /\ SoskKeys!Spec => []SelectedInList
<1>1. /\ Remap!SelectedInList /\ Detect!IndexInList
      /\ Getfile!SelectionShown /\ SoskKeys!KeyComesBack
      => SelectedInList
  BY DEF SelectedInList
<1> QED BY <1>1, RemapSelectedCorrect, IndexInListCorrect, SelectionShownCorrect,
           KeyComesBackCorrect, PTL

\* Dialogs of cdialog, the tables of buttons and the items for files: memory that is taken is
\* given back, and the pad is unlocked.
THEOREM NothingLeftCorrect ==
  ASSUME Allowed
  PROVE  Dialogs!Spec /\ Names!Spec /\ Controls!Spec => []NothingLeft
<1>1. Dialogs!NothingLeft /\ Names!TablesKept /\ Controls!HeldWhileSet => NothingLeft
  BY DEF NothingLeft
<1> QED BY <1>1, DialogsNothingLeftCorrect, TablesKeptCorrect, HeldWhileSetCorrect, PTL

\* The file dialog (getfilename.c): what is accepted is the name behind the path, and one that is
\* allowed, asked about if it was to be asked about.
THEOREM AcceptedAsAskedCorrect ==
  ASSUME Placed
  PROVE  Dialogs!Spec /\ Getfile!Spec => []AcceptedAsAsked
<1>1. Dialogs!AcceptedAsAsked /\ Getfile!NameBehindPath /\ Getfile!AcceptedAllowed => AcceptedAsAsked
  BY DEF AcceptedAsAsked
<1> QED BY <1>1, DialogsAcceptCorrect, NameBehindPathCorrect, AcceptedAllowedCorrect, PTL

\* The procedures of the items for files (mfctrl) act on what has been accepted in the dialog.
THEOREM ActsOnAcceptCorrect == Menu!Spec => []ActsOnAccept
<1>1. Menu!ActsOnAccept => ActsOnAccept
  BY DEF ActsOnAccept
<1> QED BY <1>1, MenuInvariant, MenuAccepted, PTL

\* mfMenuMain tells the procedures that wait, and gives up with a page what belongs to it.
THEOREM MenuToldCorrect == Menu!Spec => []MenuTold
<1>1. Menu!ExtraGoesOn /\ Menu!WithItsPage => MenuTold
  BY DEF MenuTold
<1> QED BY <1>1, MenuInvariant, MenuTells, PTL
=============================================================================
