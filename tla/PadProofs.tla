------------------------------ MODULE PadProofs ------------------------------
(***************************************************************************)
(* Proofs about the way of a pad to the game (Pad), for any words that     *)
(* arrive, any settings of the stick and any remaps: the packet that the   *)
(* game reads tells what the functions decided, and the stick and the      *)
(* remaps make of a pad what they are set to.                              *)
(***************************************************************************)
EXTENDS Pad, FiniteSets, FiniteSetTheorems, SequenceTheorems, NaturalsInduction,
        WellFoundedInduction, TLAPS

-----------------------------------------------------------------------------
\* A set of numbers has a least one.
LEMMA Least ==
  ASSUME NEW Q \in SUBSET Nat, Q # {}
  PROVE  \E n \in Q : \A m \in Q : n <= m
<1> DEFINE Rel == OpToRel(<, Nat)
<1>1. IsWellFoundedOn(Rel, Nat)
  BY NatLessThanWellFounded
<1>2. \A m, n \in Nat : m < n => <<m, n>> \in Rel
  BY DEF OpToRel
<1> HIDE DEF Rel
<1>3. PICK n \in Q : \A m \in Q : <<m, n>> \notin Rel
  BY <1>1, WFMin
<1>4. \A m \in Q : ~(m < n)
  BY <1>2, <1>3
<1>5. \A m \in Q : n <= m
  BY <1>4
<1> QED BY <1>5

\* A fold over a set: c[s] is the element of s that is taken last, and G[<<s, x>>] what it makes
\* of x, which the fold of the others has made.
Takes(c, S) == \A s \in SUBSET S : s # {} => c[s] \in s
Folds(it, S, base, c, G) ==
  \A s \in SUBSET S : it[s] = IF s = {} THEN base ELSE G[<<s, it[s \ {c[s]}]>>]

IsFold(it, S, X, base, c, G) ==
  /\ IsFiniteSet(S) /\ base \in X /\ Takes(c, S)
  /\ it \in [SUBSET S -> X] /\ Folds(it, S, base, c, G)

\* What does the same as far as it is known to be in X.
FoldsIn(X, of, S, base, c, G) ==
  /\ of[{}] = base
  /\ \A s \in SUBSET S : s # {} /\ of[s \ {c[s]}] \in X => of[s] = G[<<s, of[s \ {c[s]}]>>]

\* It is the only one: what does the same in X never leaves X.
LEMMA FoldAgrees ==
  ASSUME NEW S, NEW X, NEW base, NEW c, NEW G, NEW it, IsFold(it, S, X, base, c, G),
         NEW of, FoldsIn(X, of, S, base, c, G)
  PROVE  \A s \in SUBSET S : of[s] = it[s]
<1> USE DEF IsFold, Takes, Folds, FoldsIn
<1> DEFINE Bad == {n \in Nat : \E s \in SUBSET S : Cardinality(s) = n /\ of[s] # it[s]}
<1>1. \A s \in SUBSET S : IsFiniteSet(s) /\ Cardinality(s) \in Nat
  BY FS_Subset, FS_CardinalityType
<1>2. \A s \in SUBSET S : s # {} => /\ s \ {c[s]} \in SUBSET S
                                    /\ Cardinality(s \ {c[s]}) = Cardinality(s) - 1
  BY <1>1, FS_RemoveElement
<1>3. Bad = {}
  <2> SUFFICES ASSUME Bad # {} PROVE FALSE
    OBVIOUS
  <2>1. Bad \in SUBSET Nat
    OBVIOUS
  <2>2. PICK n \in Bad : \A m \in Bad : n <= m
    BY <2>1, Least
  <2>3. PICK s \in SUBSET S : Cardinality(s) = n /\ of[s] # it[s]
    OBVIOUS
  <2>4. s # {}
    BY <2>3, <1>1
  <2>5. s \ {c[s]} \in SUBSET S /\ of[s \ {c[s]}] = it[s \ {c[s]}]
    <3>1. s \ {c[s]} \in SUBSET S /\ Cardinality(s \ {c[s]}) = n - 1
      BY <1>2, <2>3, <2>4
    <3>2. n \in Nat /\ n - 1 \in Nat /\ ~(n <= n - 1)
      BY <3>1, <1>1, <2>1
    <3>3. n - 1 \notin Bad
      <4> HIDE DEF Bad
      <4> QED BY <2>2, <3>2
    <3> QED BY <3>1, <3>2, <3>3
  <2>6. it[s] = G[<<s, it[s \ {c[s]}]>>] /\ of[s] = G[<<s, of[s \ {c[s]}]>>]
    BY <2>4, <2>5
  <2> QED BY <2>3, <2>5, <2>6
<1> QED BY <1>1, <1>3

-----------------------------------------------------------------------------
(* Sums of a few bytes, and the bits of a byte. *)

\* What one of the numbers adds to the sum over S, and the sum over what is near a.
Adds(d, S, i) == IF i \in S THEN d[i] ELSE 0
NearSum(d, S, a) ==
  Adds(d, S, a) + Adds(d, S, a + 1) + Adds(d, S, a + 2) + Adds(d, S, a + 3) + Adds(d, S, a + 4)
    + Adds(d, S, a + 5) + Adds(d, S, a + 6) + Adds(d, S, a + 7) + Adds(d, S, a + 8)

\* A number that is taken away is taken from the sum.
LEMMA OneTaken ==
  ASSUME NEW a \in Nat, NEW d, NEW S \in SUBSET (a .. a + 8), \A i \in S : d[i] \in Nat,
         NEW x \in S
  PROVE  NearSum(d, S, a) = d[x] + NearSum(d, S \ {x}, a)
<1>1. PICK k \in 0 .. 8 : x = a + k
  <2>1. x - a \in 0 .. 8 /\ x = a + (x - a)
    OBVIOUS
  <2> QED BY <2>1
<1>2. \A j \in 0 .. 8 : Adds(d, S, a + j) \in Nat
  BY DEF Adds
<1>3. \A j \in 0 .. 8 :
        Adds(d, S \ {x}, a + j) = IF j = k THEN 0 ELSE Adds(d, S, a + j)
  BY <1>1 DEF Adds
<1>4. Adds(d, S, a + k) = d[x]
  BY <1>1 DEF Adds
<1>5. a + 0 = a
  OBVIOUS
<1>6. k \in 0 .. 8 /\ d[x] \in Nat
  OBVIOUS
<1> QED BY <1>2, <1>3, <1>4, <1>5, <1>6 DEF NearSum

\* Nothing adds up to nothing, and what is added up is a number.
LEMMA NearSumType ==
  ASSUME NEW a \in Nat, NEW d, NEW S \in SUBSET (a .. a + 8), \A i \in S : d[i] \in Nat
  PROVE  NearSum(d, S, a) \in Nat /\ NearSum(d, {}, a) = 0
<1>1. \A j \in 0 .. 8 : Adds(d, S, a + j) \in Nat /\ Adds(d, {}, a + j) = 0
  BY DEF Adds
<1>2. a + 0 = a /\ \A i : Adds(d, {}, i) = 0
  BY DEF Adds
<1> QED BY <1>1, <1>2 DEF NearSum

\* The total of mf_syscon_make_rx_checksum, of at most nine numbers, is their sum.
LEMMA TotalNear ==
  ASSUME NEW a \in Nat, NEW d, NEW S \in SUBSET (a .. a + 8), \A i \in S : d[i] \in Nat
  PROVE  Total(d, S) = NearSum(d, S, a)
<1> DEFINE Pick(s) == CHOOSE x \in s : TRUE
           c  == [s \in SUBSET S |-> Pick(s)]
           G  == [z \in (SUBSET S) \X Nat |-> d[Pick(z[1])] + z[2]]
           it == [s \in SUBSET S |-> NearSum(d, s, a)]
           Iter == CHOOSE f : f = [s \in SUBSET S |->
                     IF s = {} THEN 0 ELSE d[Pick(s)] + f[s \ {Pick(s)}]]
<1>1. IsFiniteSet(S)
  <2>1. IsFiniteSet(a .. a + 8)
    BY FS_Interval
  <2> QED BY <2>1, FS_Subset
<1>2. \A s \in SUBSET S : s # {} => Pick(s) \in s
  OBVIOUS
<1>3. \A s \in SUBSET S : c[s] = Pick(s) /\ it[s] = NearSum(d, s, a)
  OBVIOUS
<1>4. \A s \in SUBSET S, x \in Nat : G[<<s, x>>] = d[Pick(s)] + x
  OBVIOUS
<1>5. it \in [SUBSET S -> Nat] /\ it[{}] = 0
  <2>1. \A s \in SUBSET S : NearSum(d, s, a) \in Nat /\ NearSum(d, {}, a) = 0
    <3>1. TAKE s \in SUBSET S
    <3>2. s \in SUBSET (a .. a + 8) /\ \A i \in s : d[i] \in Nat
      BY <3>1
    <3> QED BY <3>2, NearSumType
  <2>2. {} \in SUBSET S
    OBVIOUS
  <2> QED BY <2>1, <2>2
<1>6. Total(d, S) = Iter[S]
  BY DEF Total, MapThenSumSet, MapThenFoldSet
<1> HIDE DEF c, G, it, Pick
<1>7. \A s \in SUBSET S : it[s] = IF s = {} THEN 0 ELSE d[Pick(s)] + it[s \ {Pick(s)}]
  <2>1. ASSUME NEW s \in SUBSET S, s # {} PROVE it[s] = d[Pick(s)] + it[s \ {Pick(s)}]
    <3>1. s \in SUBSET (a .. a + 8) /\ (\A i \in s : d[i] \in Nat) /\ Pick(s) \in s
      BY <1>2, <2>1
    <3>2. s \ {Pick(s)} \in SUBSET S
      OBVIOUS
    <3> QED BY <1>3, <3>1, <3>2, OneTaken
  <2> QED BY <1>5, <2>1
<1>8. it = [s \in SUBSET S |-> IF s = {} THEN 0 ELSE d[Pick(s)] + it[s \ {Pick(s)}]]
  <2>1. it = [s \in SUBSET S |-> it[s]]
    BY <1>5
  <2> QED BY <1>7, <2>1, Zenon
<1>9. Iter = [s \in SUBSET S |-> IF s = {} THEN 0 ELSE d[Pick(s)] + Iter[s \ {Pick(s)}]]
  BY <1>8, Zenon
<1> HIDE DEF Iter
<1>10. FoldsIn(Nat, Iter, S, 0, c, G)
  <2>1. ASSUME NEW s \in SUBSET S, s # {}, Iter[s \ {c[s]}] \in Nat
        PROVE  Iter[s] = G[<<s, Iter[s \ {c[s]}]>>]
    <3>1. Iter[s] = d[Pick(s)] + Iter[s \ {Pick(s)}]
      BY <1>9, <2>1
    <3> QED BY <1>3, <1>4, <2>1, <3>1
  <2>2. Iter[{}] = 0
    BY <1>9
  <2> QED BY <2>1, <2>2 DEF FoldsIn
<1>11. IsFold(it, S, Nat, 0, c, G)
  <2>1. ASSUME NEW s \in SUBSET S, s # {} PROVE it[s] = G[<<s, it[s \ {c[s]}]>>]
    <3>1. it[s \ {c[s]}] \in Nat
      BY <1>5
    <3> QED BY <1>3, <1>4, <1>7, <2>1, <3>1
  <2> QED BY <1>1, <1>2, <1>3, <1>5, <2>1 DEF IsFold, Takes, Folds
<1>12. Iter[S] = it[S]
  BY <1>10, <1>11, FoldAgrees
<1> QED BY <1>3, <1>6, <1>12

\* The bits of a byte.
LEMMA Powers ==
  /\ 2 ^ 0 = 1 /\ 2 ^ 1 = 2 /\ 2 ^ 2 = 4 /\ 2 ^ 3 = 8
  /\ 2 ^ 4 = 16 /\ 2 ^ 5 = 32 /\ 2 ^ 6 = 64 /\ 2 ^ 7 = 128
OBVIOUS

\* A byte that is put together from its bits has these bits (mf_syscon_peek_dword).
LEMMA ByteBits ==
  ASSUME NEW x \in [0 .. 7 -> {0, 1}], NEW n,
         n = x[0] + 2 * x[1] + 4 * x[2] + 8 * x[3] + 16 * x[4] + 32 * x[5] + 64 * x[6] + 128 * x[7]
  PROVE  n \in Byte /\ \A b \in 0 .. 7 : BitOf(n, b) <=> x[b] = 1
<1>1. /\ x[0] \in {0, 1} /\ x[1] \in {0, 1} /\ x[2] \in {0, 1} /\ x[3] \in {0, 1}
      /\ x[4] \in {0, 1} /\ x[5] \in {0, 1} /\ x[6] \in {0, 1} /\ x[7] \in {0, 1}
  OBVIOUS
<1>2. n \in Byte
  BY <1>1 DEF Byte
<1>3. /\ (n \div 1) % 2 = x[0] /\ (n \div 2) % 2 = x[1]
      /\ (n \div 4) % 2 = x[2] /\ (n \div 8) % 2 = x[3]
  <2>1. (n \div 1) % 2 = x[0]
    <3>1. n \div 1 =
            x[0] + 2 * x[1] + 4 * x[2] + 8 * x[3] + 16 * x[4] + 32 * x[5] + 64 * x[6] + 128 * x[7]
      BY <1>1
    <3> QED BY <1>1, <3>1
  <2>2. (n \div 2) % 2 = x[1]
    <3>1. n \div 2 = x[1] + 2 * x[2] + 4 * x[3] + 8 * x[4] + 16 * x[5] + 32 * x[6] + 64 * x[7]
      BY <1>1
    <3> QED BY <1>1, <3>1
  <2>3. (n \div 4) % 2 = x[2]
    <3>1. n \div 4 = x[2] + 2 * x[3] + 4 * x[4] + 8 * x[5] + 16 * x[6] + 32 * x[7]
      BY <1>1
    <3> QED BY <1>1, <3>1
  <2>4. (n \div 8) % 2 = x[3]
    <3>1. n \div 8 = x[3] + 2 * x[4] + 4 * x[5] + 8 * x[6] + 16 * x[7]
      BY <1>1
    <3> QED BY <1>1, <3>1
  <2> QED BY <2>1, <2>2, <2>3, <2>4
<1>4. /\ (n \div 16) % 2 = x[4] /\ (n \div 32) % 2 = x[5]
      /\ (n \div 64) % 2 = x[6] /\ (n \div 128) % 2 = x[7]
  <2>1. (n \div 16) % 2 = x[4]
    <3>1. n \div 16 = x[4] + 2 * x[5] + 4 * x[6] + 8 * x[7]
      BY <1>1
    <3> QED BY <1>1, <3>1
  <2>2. (n \div 32) % 2 = x[5]
    <3>1. n \div 32 = x[5] + 2 * x[6] + 4 * x[7]
      BY <1>1
    <3> QED BY <1>1, <3>1
  <2>3. (n \div 64) % 2 = x[6]
    <3>1. n \div 64 = x[6] + 2 * x[7]
      BY <1>1
    <3> QED BY <1>1, <3>1
  <2>4. (n \div 128) % 2 = x[7]
    <3>1. n \div 128 = x[7]
      BY <1>1
    <3> QED BY <1>1, <3>1
  <2> QED BY <2>1, <2>2, <2>3, <2>4
<1>5. /\ BitOf(n, 0) <=> x[0] = 1
      /\ BitOf(n, 1) <=> x[1] = 1
      /\ BitOf(n, 2) <=> x[2] = 1
      /\ BitOf(n, 3) <=> x[3] = 1
  BY <1>3, Powers DEF BitOf
<1>6. /\ BitOf(n, 4) <=> x[4] = 1
      /\ BitOf(n, 5) <=> x[5] = 1
      /\ BitOf(n, 6) <=> x[6] = 1
      /\ BitOf(n, 7) <=> x[7] = 1
  BY <1>4, Powers DEF BitOf
<1>7. ASSUME NEW b \in 0 .. 7
      PROVE  b = 0 \/ b = 1 \/ b = 2 \/ b = 3 \/ b = 4 \/ b = 5 \/ b = 6 \/ b = 7
  OBVIOUS
<1> QED BY <1>2, <1>5, <1>6, <1>7

\* A byte of a word has the bits that are the word's there (mf_syscon_poke_dword).
LEMMA PokedByte ==
  ASSUME NEW word \in SUBSET Word, NEW k \in 0 .. 3
  PROVE  /\ PokeByte(word, k) \in Byte
         /\ \A b \in 0 .. 7 : BitOf(PokeByte(word, k), b) <=> 8 * k + b \in word
<1> DEFINE pw == [i \in Word |-> 2 ^ (i % 8)]
           B  == {i \in word : i \div 8 = k}
           x  == [b \in 0 .. 7 |-> IF 8 * k + b \in word THEN 1 ELSE 0]
           a  == 8 * k
<1>1. a \in Nat /\ \A i \in Word : i \div 8 = k <=> i \in a .. a + 7
  BY DEF Word
<1>2. B \in SUBSET (a .. a + 8) /\ B \in SUBSET Word
  BY <1>1
<1>3. \A b \in 0 .. 7 : a + b \in Word /\ (a + b) % 8 = b /\ (a + b \in B <=> a + b \in word)
  <2>1. \A b \in 0 .. 7 : a + b \in Word /\ (a + b) % 8 = b /\ a + b \in a .. a + 7
    BY DEF Word
  <2> QED BY <1>1, <2>1
<1>4. \A b \in 0 .. 7 : pw[a + b] = 2 ^ b
  <2> HIDE DEF a
  <2> QED BY <1>3
<1>5. \A i \in B : pw[i] \in Nat
  <2>1. \A b \in 0 .. 7 : 2 ^ b \in Nat
    <3>1. ASSUME NEW b \in 0 .. 7 PROVE 2 ^ b \in Nat
      <4>1. (b = 0 => 2 ^ b = 1) /\ (b = 1 => 2 ^ b = 2) /\ (b = 2 => 2 ^ b = 4)
        BY Powers
      <4>2. (b = 3 => 2 ^ b = 8) /\ (b = 4 => 2 ^ b = 16) /\ (b = 5 => 2 ^ b = 32)
        BY Powers
      <4>3. (b = 6 => 2 ^ b = 64) /\ (b = 7 => 2 ^ b = 128)
        BY Powers
      <4>4. b = 0 \/ b = 1 \/ b = 2 \/ b = 3 \/ b = 4 \/ b = 5 \/ b = 6 \/ b = 7
        OBVIOUS
      <4> QED BY <4>1, <4>2, <4>3, <4>4
    <3> QED BY <3>1
  <2>2. \A i \in B : i - a \in 0 .. 7 /\ i = a + (i - a)
    <3> HIDE DEF a
    <3>1. TAKE i \in B
    <3>2. i \in a .. a + 7
      BY <1>1, <1>2
    <3> QED BY <1>1, <3>2
  <2> HIDE DEF pw, B, a
  <2>3. TAKE i \in B
  <2>4. pw[i] = 2 ^ (i - a)
    BY <1>4, <2>2
  <2> QED BY <2>1, <2>2, <2>4
<1>6. PokeByte(word, k) = NearSum(pw, B, a)
  <2>1. PokeByte(word, k) = Total(pw, B)
    BY DEF PokeByte
  <2> HIDE DEF pw, B, a
  <2> QED BY <1>1, <1>2, <1>5, <2>1, TotalNear
<1>7. x \in [0 .. 7 -> {0, 1}] /\ \A b \in 0 .. 7 : x[b] = 1 <=> a + b \in word
  OBVIOUS
<1>8. a + 8 \notin B
  <2>1. a + 8 \notin a .. a + 7
    BY <1>1
  <2> HIDE DEF a
  <2> QED BY <1>1, <1>2, <2>1
<1> HIDE DEF pw, B, x, a
<1>9. \A b \in 0 .. 7 : Adds(pw, B, a + b) = IF x[b] = 1 THEN 2 ^ b ELSE 0
  BY <1>3, <1>4, <1>7 DEF Adds
<1>10. Adds(pw, B, a + 8) = 0 /\ a + 0 = a
  BY <1>1, <1>8 DEF Adds
<1>11. /\ x[0] \in {0, 1} /\ x[1] \in {0, 1} /\ x[2] \in {0, 1} /\ x[3] \in {0, 1}
       /\ x[4] \in {0, 1} /\ x[5] \in {0, 1} /\ x[6] \in {0, 1} /\ x[7] \in {0, 1}
  BY <1>7
<1>12. /\ Adds(pw, B, a) = x[0] /\ Adds(pw, B, a + 1) = 2 * x[1]
       /\ Adds(pw, B, a + 2) = 4 * x[2] /\ Adds(pw, B, a + 3) = 8 * x[3]
  BY <1>9, <1>10, <1>11, Powers
<1>13. /\ Adds(pw, B, a + 4) = 16 * x[4] /\ Adds(pw, B, a + 5) = 32 * x[5]
       /\ Adds(pw, B, a + 6) = 64 * x[6] /\ Adds(pw, B, a + 7) = 128 * x[7]
  BY <1>9, <1>11, Powers
<1>14. PokeByte(word, k) = x[0] + 2 * x[1] + 4 * x[2] + 8 * x[3] + 16 * x[4] + 32 * x[5]
                             + 64 * x[6] + 128 * x[7]
  BY <1>6, <1>10, <1>11, <1>12, <1>13 DEF NearSum
<1>15. PokeByte(word, k) \in Byte /\ \A b \in 0 .. 7 : BitOf(PokeByte(word, k), b) <=> x[b] = 1
  BY <1>7, <1>14, ByteBits
<1> QED BY <1>7, <1>15 DEF a

\* A word that is put into a packet is read from it again, and the other bytes stay.
LEMMA PeekPoked ==
  ASSUME NEW data \in [0 .. 8 -> Byte], NEW word \in SUBSET Word
  PROVE  /\ Poke(data, word) \in [0 .. 8 -> Byte]
         /\ \A i \in 4 .. 8 : Poke(data, word)[i] = data[i]
         /\ Peek(Poke(data, word)) = word
<1> DEFINE poked == Poke(data, word)
<1>1. ASSUME NEW i \in 0 .. 8
      PROVE  poked[i] \in Byte /\ poked[i] = IF i < 4 THEN PokeByte(word, i) ELSE data[i]
  <2>1. poked[i] = IF i < 4 THEN PokeByte(word, i) ELSE data[i]
    BY DEF Poke
  <2>2. i < 4 => i \in 0 .. 3
    OBVIOUS
  <2> QED BY <2>1, <2>2, PokedByte
<1>2. poked \in [0 .. 8 -> Byte]
  <2>1. poked = [i \in 0 .. 8 |-> poked[i]]
    BY DEF Poke
  <2> HIDE DEF poked
  <2> QED BY <1>1, <2>1
<1>3. ASSUME NEW i \in Word PROVE i \in Peek(poked) <=> i \in word
  <2>1. i \div 8 \in 0 .. 3 /\ i % 8 \in 0 .. 7 /\ i = 8 * (i \div 8) + (i % 8)
    BY DEF Word
  <2>2. poked[i \div 8] = PokeByte(word, i \div 8)
    <3> HIDE DEF poked
    <3>1. i \div 8 \in 0 .. 8 /\ i \div 8 < 4
      BY <2>1
    <3> QED BY <1>1, <3>1
  <2>3. BitOf(PokeByte(word, i \div 8), i % 8) <=> i \in word
    BY <2>1, PokedByte
  <2> HIDE DEF poked
  <2> QED BY <2>2, <2>3 DEF Peek
<1>4. Peek(poked) \subseteq Word /\ word \subseteq Word
  BY DEF Peek
<1>5. \A i \in 4 .. 8 : poked[i] = data[i]
  <2> HIDE DEF poked
  <2>1. \A i \in 4 .. 8 : i \in 0 .. 8 /\ ~(i < 4)
    OBVIOUS
  <2> QED BY <1>1, <2>1
<1> HIDE DEF poked
<1>6. Peek(poked) = word
  BY <1>3, <1>4
<1> QED BY <1>2, <1>5, <1>6 DEF poked

-----------------------------------------------------------------------------
(* Packets. *)

\* Words and bytes arrive, and no pad is none.
WordsArrive ==
  /\ Arriving \subseteq SUBSET Word /\ StickLevels \subseteq Byte /\ Center \in Byte
  /\ NoPad \notin [buttons : SUBSET Word, x : Byte, y : Byte]

Known  == Word \ Unknown
Placed == {Moved(i) : i \in Known}   \* the buttons of a pad that Syscon knows of

\* No two bits of Syscon's word are moved to the same place.
LEMMA MovedApart ==
  /\ \A i, j \in Known : Moved(i) = Moved(j) => i = j
  /\ Placed \subseteq Word /\ Eject \subseteq Known
<1>1. \A i \in Known : i \in 0 .. 21
  BY DEF Known, Word, Unknown
<1>2. \A i \in 0 .. 21 : /\ i \in {8, 11} => Moved(i) = i - 8
                         /\ i \in {9, 10} => Moved(i) = i - 1
                         /\ i \in 4 .. 7 => Moved(i) = i + 8
                         /\ i \notin 4 .. 11 => Moved(i) = i + 4
  BY DEF Moved
<1>3. ASSUME NEW i \in 0 .. 21, NEW j \in 0 .. 21, Moved(i) = Moved(j) PROVE i = j
  BY <1>2, <1>3
<1>4. \A i \in 0 .. 21 : Moved(i) \in Word
  BY <1>2 DEF Word
<1>5. Eject \subseteq Known
  BY DEF Eject, Known, Word, Unknown
<1> QED BY <1>1, <1>3, <1>4, <1>5 DEF Placed

\* The conversions of buttons undo each other, whatever the unknown bits are.
LEMMA ToldBack ==
  ASSUME NEW buttons \in SUBSET Placed, NEW unknown \in SUBSET Unknown
  PROVE  /\ ToPsp(ToSyscon(buttons) \cup unknown) = buttons
         /\ ToSyscon(buttons) \in SUBSET Word
<1> DEFINE word == ToSyscon(buttons) \cup unknown
           Moves == {Moved(e) : e \in Eject}
<1>1. \A i \in Known : Moved(i) \in Moves <=> i \in Eject
  BY MovedApart
<1>2. ToSyscon(buttons) = Word \ {i \in Known : Moved(i) \in Flip(buttons, Moves)}
  BY DEF ToSyscon, Invert, Known
<1>3. \A i \in Known : i \in Word /\ i \notin Unknown
  BY DEF Known
<1> HIDE DEF Moves
<1>4. ASSUME NEW i \in Known
      PROVE  i \in Flip(Invert(word), Eject) <=> Moved(i) \in buttons
  <2>1. i \in Invert(word) <=> Moved(i) \in Flip(buttons, Moves)
    BY <1>2, <1>3 DEF Invert
  <2>2. Moved(i) \in Flip(buttons, Moves) <=> ~(Moved(i) \in buttons <=> Moved(i) \in Moves)
    BY DEF Flip
  <2>3. i \in Flip(Invert(word), Eject) <=> ~(i \in Invert(word) <=> i \in Eject)
    BY DEF Flip
  <2> QED BY <1>1, <2>1, <2>2, <2>3
<1> HIDE DEF word
<1>5. Flip(Invert(word), Eject) \ Unknown \subseteq Known
  BY MovedApart DEF Flip, Invert, Known
<1>6. ToPsp(word) = {Moved(i) : i \in {j \in Known : Moved(j) \in buttons}}
  <2>1. Flip(Invert(word), Eject) \ Unknown = {j \in Known : Moved(j) \in buttons}
    BY <1>3, <1>4, <1>5
  <2> QED BY <2>1 DEF ToPsp
<1>7. \A b : b \in buttons => \E i \in Known : b = Moved(i)
  BY DEF Placed
<1>8. ToPsp(word) = buttons
  BY <1>6, <1>7
<1> QED BY <1>2, <1>8 DEF word

\* What Syscon's word means are buttons.
LEMMA ToPspPlaced == \A word : ToPsp(word) \in SUBSET Placed
<1> SUFFICES ASSUME NEW word PROVE ToPsp(word) \in SUBSET Placed
  OBVIOUS
<1>1. Flip(Invert(word), Eject) \ Unknown \subseteq Known
  BY MovedApart DEF Flip, Invert, Known
<1> QED BY <1>1 DEF ToPsp, Placed

ReceivedPads == [buttons : SUBSET Placed, x : Byte, y : Byte]
Packets ==
  [cmd : {0, 6, Digital, Analog}, response : {0, 6, Digital, Analog}, len : {3, 7, 9},
   data : [0 .. 8 -> Byte]]
\* The length goes with the kind.
WellFormed(p) == p \in Packets /\ (IsPad(p) => p.len = IF p.response = Analog THEN 9 ELSE 7)

PacketInv ==
  /\ hooked \in BOOLEAN /\ WellFormed(packet) /\ WellFormed(sent)
  /\ rawPad = NoPad => packet = sent
  /\ rawPad # NoPad => IsPad(packet) /\ rawPad \in ReceivedPads /\ decided \in ReceivedPads
  /\ PacketTold

\* What a packet says is a pad.
LEMMA PadReceived ==
  ASSUME WordsArrive, NEW p \in Packets
  PROVE  PadIn(p) \in ReceivedPads /\ PadIn(p) # NoPad
<1>1. ToPsp(Peek(p.data)) \in SUBSET Placed
  BY ToPspPlaced
<1>2. p.data[4] \in Byte /\ p.data[5] \in Byte /\ Center \in Byte
  BY DEF Packets, WordsArrive
<1>3. PadIn(p) \in ReceivedPads
  BY <1>1, <1>2 DEF PadIn, ReceivedPads
<1>4. ReceivedPads \subseteq [buttons : SUBSET Word, x : Byte, y : Byte]
  BY MovedApart DEF ReceivedPads
<1> QED BY <1>3, <1>4 DEF WordsArrive

\* The functions make a pad of a pad.
LEMMA FunctionsKeep ==
  ASSUME WordsArrive, NEW p \in ReceivedPads, NEW moved \in StickLevels,
         NEW turned \in {{}} \cup {{Moved(i)} : i \in Known}
  PROVE  Functions(p, turned, moved) \in ReceivedPads
<1>1. turned \in SUBSET Placed
  BY DEF Placed
<1>2. Flip(p.buttons, turned) \in SUBSET Placed
  BY <1>1 DEF Flip, ReceivedPads
<1>3. moved \in Byte /\ p.x \in Byte /\ p.y \in Byte
  BY DEF WordsArrive, ReceivedPads
<1> QED BY <1>2, <1>3 DEF Functions, ReceivedPads

\* A checksum makes a sum that ends in 255.
LEMMA Completed ==
  ASSUME NEW a \in Int, NEW b \in Int, NEW t \in Int, NEW c, c = (255 - a - b - t) % 256
  PROVE  c \in Byte /\ (a + b + (t + c)) % 256 = 255
BY DEF Byte

\* The first n + 1 bytes: their total is that of the first n, and the last; it depends on them alone.
LEMMA TotalUpTo ==
  ASSUME NEW n \in 0 .. 7, NEW d \in [0 .. 8 -> Byte], NEW e \in [0 .. 8 -> Byte],
         \A i \in 0 .. n : d[i] = e[i]
  PROVE  /\ Total(d, 0 .. n) = Total(e, 0 .. n) /\ Total(d, 0 .. n) \in Nat
         /\ Total(d, 0 .. n + 1) = Total(e, 0 .. n) + d[n + 1]
<1> DEFINE S == 0 .. n  T == 0 .. n + 1
<1>1. T \in SUBSET (0 .. 0 + 8) /\ S \in SUBSET (0 .. 0 + 8) /\ S = T \ {n + 1} /\ n + 1 \in T
  OBVIOUS
<1>2. (\A i \in T : d[i] \in Nat /\ e[i] \in Nat) /\ 0 \in Nat
  <2>1. \A i \in T : i \in 0 .. 8
    OBVIOUS
  <2>2. \A b \in Byte : b \in Nat
    BY DEF Byte
  <2>3. \A i \in 0 .. 8 : d[i] \in Byte /\ e[i] \in Byte
    OBVIOUS
  <2> HIDE DEF T
  <2> QED BY <2>1, <2>2, <2>3
<1>3. \A i \in S : i \in T /\ d[i] = e[i]
  BY <1>1
<1> HIDE DEF S, T
<1>4. Total(d, T) = NearSum(d, T, 0)
  BY <1>1, <1>2, TotalNear
<1>5. Total(d, S) = NearSum(d, S, 0)
  BY <1>1, <1>2, <1>3, TotalNear
<1>6. Total(e, S) = NearSum(e, S, 0)
  BY <1>1, <1>2, <1>3, TotalNear
<1>7. NearSum(d, S, 0) = NearSum(e, S, 0)
  <2>1. \A i : Adds(d, S, i) = Adds(e, S, i)
    BY <1>3 DEF Adds
  <2> QED BY <2>1 DEF NearSum
<1>8. NearSum(d, T, 0) = d[n + 1] + NearSum(d, S, 0)
  BY <1>1, <1>2, OneTaken
<1>9. NearSum(d, S, 0) \in Nat /\ d[n + 1] \in Nat
  BY <1>1, <1>2, <1>3, NearSumType
<1> QED BY <1>4, <1>5, <1>6, <1>7, <1>8, <1>9 DEF S, T

\* The packet that a pad is written into is one that the pad is read from (WithPad).
LEMMA WrittenRead ==
  ASSUME NEW p \in Packets, WellFormed(p), IsPad(p), NEW held \in ReceivedPads
  PROVE  /\ WellFormed(WithPad(p, held))
         /\ WithPad(p, held).response = p.response
         /\ PadIn(WithPad(p, held)).buttons = held.buttons
         /\ p.response = Analog => PadIn(WithPad(p, held)) = held
         /\ (p.len + p.response + Total(WithPad(p, held).data, 0 .. p.len - 3)) % 256 = 255
<1> DEFINE word    == ToSyscon(held.buttons) \cup (Peek(p.data) \cap Unknown)
           buttons == Poke(p.data, word)
           stick   == IF p.response = Analog
                      THEN [buttons EXCEPT ![4] = held.x, ![5] = held.y] ELSE buttons
           last    == IF p.response = Analog THEN 6 ELSE 4
           written == [p EXCEPT !.data = stick]
           sum     == Checksum(written)
           data    == [stick EXCEPT ![last] = sum]
           q       == [p EXCEPT !.data = data]
<1>1. held.buttons \in SUBSET Placed /\ held.x \in Byte /\ held.y \in Byte
      /\ held = [buttons |-> held.buttons, x |-> held.x, y |-> held.y]
  BY DEF ReceivedPads
<1>2. p.data \in [0 .. 8 -> Byte] /\ p.len = last + 3 /\ p.response \in {Digital, Analog}
      /\ p = [cmd |-> p.cmd, response |-> p.response, len |-> p.len, data |-> p.data]
      /\ p.cmd = p.response
  BY DEF Packets, WellFormed, IsPad, Digital, Analog
<1>3. Peek(p.data) \cap Unknown \in SUBSET Unknown
  OBVIOUS
<1>4. word \in SUBSET Word /\ ToPsp(word) = held.buttons
  BY <1>1, <1>3, ToldBack DEF Peek
<1> HIDE DEF word
<1>5. buttons \in [0 .. 8 -> Byte] /\ Peek(buttons) = word
  BY <1>2, <1>4, PeekPoked
<1> HIDE DEF buttons
<1>6. stick \in [0 .. 8 -> Byte] /\ (\A i \in 0 .. 3 : stick[i] = buttons[i])
      /\ (p.response = Analog => stick[4] = held.x /\ stick[5] = held.y)
  BY <1>1, <1>5
<1>7. last \in {4, 6} /\ (p.response = Analog => last = 6)
  OBVIOUS
<1>8. WithPad(p, held) = q
  <2>1. [written EXCEPT !.data[last] = Checksum(written)] = q
    BY <1>2
  <2> QED BY <2>1 DEF WithPad, word, buttons
<1> HIDE DEF stick, last
<1>9. written.data = stick /\ written.len = p.len /\ written.response = p.response
  BY <1>2
<1> HIDE DEF written
<1>10. sum = (255 - p.len - p.response - Total(stick, 0 .. last - 1)) % 256
  <2>1. p.len - 4 = last - 1
    BY <1>2, <1>7
  <2> QED BY <1>9, <2>1 DEF Checksum
<1>11. Total(stick, 0 .. last - 1) \in Nat
  <2>1. last - 1 \in 0 .. 7
    BY <1>7
  <2> QED BY <1>6, <2>1, TotalUpTo
<1>12. p.len \in Int /\ p.response \in Int
  BY <1>2, <1>7 DEF Digital, Analog
<1>13. sum \in Byte
       /\ (p.len + p.response + (Total(stick, 0 .. last - 1) + sum)) % 256 = 255
  <2> DEFINE t == Total(stick, 0 .. last - 1)  l == p.len  r == p.response
  <2>1. t \in Int /\ l \in Int /\ r \in Int
    BY <1>11, <1>12
  <2>2. sum = (255 - l - r - t) % 256
    BY <1>10
  <2> HIDE DEF t, l, r, sum
  <2>3. sum \in Byte /\ (l + r + (t + sum)) % 256 = 255
    BY <2>1, <2>2, Completed
  <2> QED BY <2>3 DEF t, l, r
<1> HIDE DEF sum
<1>14. data \in [0 .. 8 -> Byte] /\ data[last] = sum
       /\ \A i \in 0 .. 8 : i # last => data[i] = stick[i]
  BY <1>6, <1>7, <1>13
<1> HIDE DEF data
<1>15. Total(data, 0 .. last) = Total(stick, 0 .. last - 1) + sum
  <2> DEFINE n == last - 1
  <2>1. n \in 0 .. 7 /\ n + 1 = last /\ \A i \in 0 .. n : i \in 0 .. 8 /\ i # last
    BY <1>7
  <2> HIDE DEF n
  <2>2. Total(data, 0 .. n + 1) = Total(stick, 0 .. n) + data[n + 1]
    <3>1. data \in [0 .. 8 -> Byte] /\ stick \in [0 .. 8 -> Byte]
      BY <1>6, <1>14
    <3>2. n \in 0 .. 7 /\ \A i \in 0 .. n : data[i] = stick[i]
      BY <1>14, <2>1
    <3> QED BY <3>1, <3>2, TotalUpTo
  <2> QED BY <1>14, <2>1, <2>2 DEF n
<1>16. Peek(data) = word
  <2>1. \A i \in Word : i \div 8 \in 0 .. 3
    BY DEF Word
  <2>2. \A k \in 0 .. 3 : data[k] = buttons[k]
    BY <1>6, <1>7, <1>14
  <2>3. Peek(data) = Peek(buttons)
    BY <2>1, <2>2 DEF Peek
  <2> QED BY <1>5, <2>3
<1>17. p.response = Analog => data[4] = held.x /\ data[5] = held.y
  BY <1>6, <1>7, <1>14
<1>18. q.data = data /\ q.len = p.len /\ q.response = p.response /\ q.cmd = p.cmd /\ q \in Packets
  BY <1>2, <1>14 DEF Packets
<1> HIDE DEF q
<1>19. PadIn(q).buttons = held.buttons
  BY <1>4, <1>16, <1>18 DEF PadIn
<1>20. p.response = Analog => PadIn(q) = held
  BY <1>1, <1>4, <1>16, <1>17, <1>18 DEF PadIn
<1>21. WellFormed(q)
  BY <1>18 DEF WellFormed, IsPad
<1>22. (p.len + p.response + Total(q.data, 0 .. p.len - 3)) % 256 = 255
  <2>1. p.len - 3 = last
    BY <1>2, <1>7
  <2> QED BY <1>13, <1>15, <1>18, <2>1
<1> QED BY <1>8, <1>18, <1>19, <1>20, <1>21, <1>22

\* No packet is there at first, and no pad has come.
LEMMA PacketInitInv == PacketInit => PacketInv
<1>1. NoPacket \in Packets /\ WellFormed(NoPacket)
  BY DEF NoPacket, Packets, WellFormed, IsPad, Digital, Analog, Byte
<1> QED BY <1>1 DEF PacketInit, PacketInv, PacketTold

\* Syscon answers, in a packet of the length that goes with its kind.
LEMMA ArriveInv ==
  ASSUME WordsArrive, PacketInv, NEW word \in Arriving, NEW x \in StickLevels,
         NEW cmd \in {6, Digital, Analog}, NEW response \in {cmd, Analog},
         Arrive(cmd, response, word, x, 200)
  PROVE  PacketInv'
<1> DEFINE blank == [i \in 0 .. 8 |-> CASE i = 4 -> x [] i = 5 -> 200 [] OTHER -> 255]
           data  == Poke(blank, word)
<1>1. blank \in [0 .. 8 -> Byte]
  <2>1. x \in Byte /\ 200 \in Byte /\ 255 \in Byte
    BY DEF WordsArrive, Byte
  <2> QED BY <2>1
<1> HIDE DEF blank
<1>2. data \in [0 .. 8 -> Byte]
  BY <1>1, PeekPoked DEF WordsArrive
<1>3. packet' = [cmd |-> cmd, response |-> response, data |-> data,
                 len |-> IF cmd = Analog THEN 9 ELSE 7]
      /\ sent' = packet' /\ UNCHANGED <<hooked, rawPad, decided>> /\ packet = NoPacket
  BY DEF Arrive, blank
<1> HIDE DEF data
<1>4. packet' \in Packets /\ WellFormed(packet')
  BY <1>2, <1>3 DEF Packets, WellFormed, IsPad, Digital, Analog
<1>5. rawPad = NoPad
  <2>1. ~IsPad(NoPacket)
    BY DEF IsPad, NoPacket, Digital, Analog
  <2> QED BY <1>3, <2>1 DEF PacketInv
<1> QED BY <1>3, <1>4, <1>5 DEF PacketInv, PacketTold

\* The handler leaves what is no pad to the game, and writes the pad of the functions into one.
LEMMA ReceiveInv ==
  ASSUME WordsArrive, PacketInv, NEW moved \in StickLevels,
         NEW turned \in {{}} \cup {{Moved(i)} : i \in Word \ Unknown}, Receive(turned, moved)
  PROVE  PacketInv'
<1>1. rawPad = NoPad /\ packet = sent /\ packet \in Packets /\ WellFormed(packet)
      /\ hooked' = hooked /\ hooked \in BOOLEAN
  BY DEF Receive, PacketInv, WellFormed
<1>2. CASE ~IsPad(packet)
  <2>1. packet' = NoPacket /\ sent' = NoPacket /\ UNCHANGED <<rawPad, decided>>
    BY <1>2 DEF Receive
  <2>2. NoPacket \in Packets /\ WellFormed(NoPacket)
    BY DEF NoPacket, Packets, WellFormed, IsPad, Digital, Analog, Byte
  <2> QED BY <1>1, <2>1, <2>2 DEF PacketInv, PacketTold
<1>3. CASE IsPad(packet)
  <2>1. /\ rawPad' = PadIn(packet) /\ sent' = sent
        /\ decided' = IF hooked THEN Functions(rawPad', turned, moved) ELSE rawPad'
        /\ packet' = IF hooked THEN WithPad(packet, decided') ELSE packet
    BY <1>3 DEF Receive
  <2>2. rawPad' \in ReceivedPads /\ rawPad' # NoPad
    BY <1>1, <2>1, PadReceived
  <2>3. decided' \in ReceivedPads
    <3>1. turned \in {{}} \cup {{Moved(i)} : i \in Known}
      BY DEF Known
    <3>2. Functions(rawPad', turned, moved) \in ReceivedPads
      BY <2>2, <3>1, FunctionsKeep
    <3> QED BY <2>1, <2>2, <3>2
  <2>4. CASE hooked
    <3>1. packet' = WithPad(packet, decided')
      BY <2>1, <2>4
    <3>2. /\ WellFormed(packet') /\ packet'.response = packet.response
          /\ PadIn(packet').buttons = decided'.buttons
          /\ packet.response = Analog => PadIn(packet') = decided'
          /\ (packet.len + packet.response + Total(packet'.data, 0 .. packet.len - 3)) % 256 = 255
      BY <1>1, <1>3, <2>3, <3>1, WrittenRead
    <3>3. packet'.len = packet.len /\ packet'.cmd = packet.cmd
      BY <1>1, <3>1 DEF WithPad, Packets
    <3>4. IsPad(packet')
      BY <1>3, <3>2, <3>3 DEF IsPad
    <3> QED BY <1>1, <2>1, <2>2, <2>3, <2>4, <3>2, <3>3, <3>4 DEF PacketInv, PacketTold
  <2>5. CASE ~hooked
    <3>1. packet' = packet
      BY <2>1, <2>5
    <3> QED BY <1>1, <1>3, <2>1, <2>2, <2>3, <2>5, <3>1 DEF PacketInv, PacketTold
  <2> QED BY <2>4, <2>5
<1> QED BY <1>2, <1>3

\* The game takes the packet.
LEMMA PacketTakenInv == ASSUME PacketInv, PacketTaken PROVE PacketInv'
<1>1. NoPacket \in Packets /\ WellFormed(NoPacket)
  BY DEF NoPacket, Packets, WellFormed, IsPad, Digital, Analog, Byte
<1> QED BY <1>1 DEF PacketTaken, PacketInv, PacketTold

\* Packets are well formed, and what is read from the last one is what the functions decided.
THEOREM PacketInvariant == ASSUME WordsArrive PROVE PacketSpec => []PacketInv
<1>1. ASSUME PacketInv, [PacketNext]_packetVars PROVE PacketInv'
  <2>1. CASE \E word \in Arriving, x \in StickLevels, cmd \in {6, Digital, Analog} :
               \E response \in {cmd, Analog} : Arrive(cmd, response, word, x, 200)
    BY <1>1, <2>1, ArriveInv
  <2>2. CASE \E turned \in {{}} \cup {{Moved(i)} : i \in Word \ Unknown}, moved \in StickLevels :
               Receive(turned, moved)
    BY <1>1, <2>2, ReceiveInv
  <2>3. CASE PacketTaken
    BY <1>1, <2>3, PacketTakenInv
  <2>4. CASE UNCHANGED packetVars
    BY <1>1, <2>4 DEF packetVars, PacketInv, PacketTold
  <2> QED BY <1>1, <2>1, <2>2, <2>3, <2>4 DEF PacketNext
<1> QED BY <1>1, PacketInitInv, PTL DEF PacketSpec

-----------------------------------------------------------------------------
(* The stick. *)

RemapEntries ==
  [real : SUBSET (PadButtons \cup Directions), remap : SUBSET (PadButtons \cup Directions)]
StickSettings ==
  [originX : 0 .. MaxCoord, originY : 0 .. MaxCoord, deadzone : Nat, sensitivity : Nat,
   movement : BOOLEAN]

\* The centre is as far from both ends as the middle of a byte, and what is set is in the types
\* of the settings.
Settable ==
  /\ Center \in Nat /\ Center >= 3 /\ MaxCoord = 2 * Center + 1
  /\ Coords \subseteq 0 .. MaxCoord /\ PadButtons \cap Directions = {}
  /\ Tried \subseteq StickSettings \X Seq(RemapEntries)

PadsHeld == [held : SUBSET (PadButtons \cup Directions), x : 0 .. MaxCoord, y : 0 .. MaxCoord]

StickInv ==
  /\ <<stickSet, remaps>> \in Tried
  /\ came \in Pads \cup {NoPad}
  /\ came # NoPad => pad = Remapped(Adjusted(came), remaps)

\* What is further away has a square that is not less.
LEMMA SquareGrows ==
  ASSUME NEW a \in Nat, NEW b \in Nat, a <= b
  PROVE  a * a <= b * b
<1>1. a * a <= a * b
  OBVIOUS
<1>2. a * b <= b * b
  OBVIOUS
<1>3. a * a \in Nat /\ a * b \in Nat /\ b * b \in Nat
  OBVIOUS
<1> QED BY <1>1, <1>2, <1>3

\* A square is that of the distance.
LEMMA SquareOfDistance ==
  ASSUME NEW a \in Int, NEW b \in Int
  PROVE  /\ Square(a - b) = Distance(a, b) * Distance(a, b)
         /\ Distance(a, b) \in Nat /\ Square(a - b) \in Nat
<1>1. CASE a < b
  <2>1. Distance(a, b) = b - a /\ b - a \in Nat
    BY <1>1 DEF Distance
  <2>2. (a - b) * (a - b) = (b - a) * (b - a)
    OBVIOUS
  <2>3. (b - a) * (b - a) \in Nat
    BY <2>1
  <2> QED BY <2>1, <2>2, <2>3 DEF Square
<1>2. CASE ~(a < b)
  <2>1. Distance(a, b) = a - b /\ a - b \in Nat
    BY <1>2 DEF Distance
  <2>2. (a - b) * (a - b) \in Nat
    BY <2>1
  <2> QED BY <2>1, <2>2 DEF Square
<1> QED BY <1>1, <1>2

\* What the sensitivity makes of a way grows with it.
LEMMA WayGrows ==
  ASSUME NEW n \in Nat, NEW m \in Nat, n <= m, NEW s \in Nat
  PROVE  /\ (n * s) \div 100 \in Nat /\ (m * s) \div 100 \in Nat
         /\ (n * s) \div 100 <= (m * s) \div 100
<1> DEFINE u == n * s  v == m * s
<1>1. u \in Nat /\ v \in Nat
  OBVIOUS
<1>2. u <= v
  OBVIOUS
<1> HIDE DEF u, v
<1>3. u \div 100 \in Nat /\ v \div 100 \in Nat /\ u \div 100 <= v \div 100
  BY <1>1, <1>2
<1> QED BY <1>3 DEF u, v

\* A coordinate stays on its side of the origin.
LEMMA ScaledBetween ==
  ASSUME Settable, stickSet.sensitivity \in Nat,
         NEW o \in 0 .. MaxCoord, NEW a \in 0 .. MaxCoord
  PROVE  /\ Scaled(o, a) \in 0 .. MaxCoord
         /\ a >= o => Scaled(o, a) >= o
         /\ a <= o => Scaled(o, a) <= o
<1> DEFINE way == (Distance(a, o) * stickSet.sensitivity) \div 100
           wide == IF a >= o THEN o + way ELSE o - way
<1>1. o \in Int /\ a \in Int /\ MaxCoord \in Nat /\ 0 <= o /\ o <= MaxCoord
  BY DEF Settable
<1>2. Distance(a, o) \in Nat
  BY <1>1, SquareOfDistance
<1>3. way \in Nat
  BY <1>2, WayGrows
<1>4. a = o => way = 0
  <2> SUFFICES ASSUME a = o PROVE way = 0
    OBVIOUS
  <2>1. Distance(a, o) = 0
    BY <1>1 DEF Distance
  <2>2. 0 * stickSet.sensitivity = 0
    OBVIOUS
  <2> QED BY <2>1, <2>2
<1>5. Scaled(o, a) = IF wide > MaxCoord THEN MaxCoord ELSE IF wide < 0 THEN 0 ELSE wide
  <2>1. wide \in Int
    BY <1>1, <1>3
  <2>2. ~(wide > MaxCoord /\ wide < 0)
    BY <1>1, <2>1
  <2> HIDE DEF wide
  <2>3. (CASE wide > MaxCoord -> MaxCoord [] wide < 0 -> 0 [] OTHER -> wide)
          = IF wide > MaxCoord THEN MaxCoord ELSE IF wide < 0 THEN 0 ELSE wide
    BY <2>2
  <2> QED BY <2>3 DEF Scaled, wide
<1> HIDE DEF way
<1> QED BY <1>1, <1>3, <1>4, <1>5

\* A coordinate that is further to one side is not made one that is further to the other.
LEMMA ScaledGrows ==
  ASSUME Settable, stickSet.sensitivity \in Nat, NEW o \in 0 .. MaxCoord,
         NEW a \in 0 .. MaxCoord, NEW b \in 0 .. MaxCoord, a <= b
  PROVE  Scaled(o, a) <= Scaled(o, b)
<1> DEFINE way(c) == (Distance(c, o) * stickSet.sensitivity) \div 100
           wide(c) == IF c >= o THEN o + way(c) ELSE o - way(c)
<1>1. o \in Int /\ a \in Int /\ b \in Int /\ MaxCoord \in Nat /\ 0 <= o /\ o <= MaxCoord
  BY DEF Settable
<1>2. \A c \in 0 .. MaxCoord : Distance(c, o) \in Nat
  <2>1. \A c \in 0 .. MaxCoord : c \in Int
    BY <1>1
  <2> QED BY <1>1, <2>1, SquareOfDistance
<1>3. way(a) \in Nat /\ way(b) \in Nat
  BY <1>2, WayGrows
<1>4. CASE a >= o
  <2>1. Distance(a, o) <= Distance(b, o)
    BY <1>1, <1>4 DEF Distance
  <2>2. way(a) <= way(b)
    BY <1>2, <2>1, WayGrows
  <2>3. b >= o
    BY <1>1, <1>4
  <2> HIDE DEF way
  <2>4. wide(a) <= wide(b) /\ wide(a) \in Int /\ wide(b) \in Int
    BY <1>1, <1>3, <1>4, <2>2, <2>3
  <2> HIDE DEF wide
  <2>5. (CASE wide(a) > MaxCoord -> MaxCoord [] wide(a) < 0 -> 0 [] OTHER -> wide(a))
          <= (CASE wide(b) > MaxCoord -> MaxCoord [] wide(b) < 0 -> 0 [] OTHER -> wide(b))
    BY <1>1, <2>4
  <2> QED BY <2>5 DEF Scaled, wide, way
<1>5. CASE b <= o
  <2>1. Distance(b, o) <= Distance(a, o)
    BY <1>1, <1>5 DEF Distance
  <2>2. way(b) <= way(a) /\ (b = o => way(b) = 0)
    <3>1. b = o => Distance(b, o) = 0
      BY <1>1 DEF Distance
    <3>2. 0 * stickSet.sensitivity = 0
      OBVIOUS
    <3> QED BY <1>2, <2>1, <3>1, <3>2, WayGrows
  <2>3. a < o \/ (a = o /\ b = o)
    BY <1>1, <1>5
  <2> HIDE DEF way
  <2>4. wide(a) <= wide(b) /\ wide(a) \in Int /\ wide(b) \in Int
    BY <1>1, <1>3, <1>5, <2>2, <2>3
  <2> HIDE DEF wide
  <2>5. (CASE wide(a) > MaxCoord -> MaxCoord [] wide(a) < 0 -> 0 [] OTHER -> wide(a))
          <= (CASE wide(b) > MaxCoord -> MaxCoord [] wide(b) < 0 -> 0 [] OTHER -> wide(b))
    BY <1>1, <2>4
  <2> QED BY <2>5 DEF Scaled, wide, way
<1>6. CASE a < o /\ o < b
  <2>1. Scaled(o, a) <= o /\ o <= Scaled(o, b)
    BY <1>1, <1>6, ScaledBetween
  <2>2. Scaled(o, a) \in Int /\ Scaled(o, b) \in Int
    BY ScaledBetween
  <2> QED BY <1>1, <2>1, <2>2
<1> QED BY <1>1, <1>4, <1>5, <1>6

\* To snap to the centre keeps the order, and what is not the origin is on its side of the centre.
LEMMA SnappedGrows ==
  ASSUME Settable, NEW o \in 0 .. MaxCoord, NEW a \in 0 .. MaxCoord, NEW b \in 0 .. MaxCoord
  PROVE  /\ Snapped(o, a) \in 0 .. MaxCoord /\ Snapped(o, Center) = Center
         /\ Snapped(o, o) = o
         /\ a <= b => Snapped(o, a) <= Snapped(o, b)
         /\ a > o => Snapped(o, a) >= Center
         /\ a < o => Snapped(o, a) <= Center
<1>1. Center \in Int /\ MaxCoord \in Int /\ o \in Int /\ a \in Int /\ b \in Int
      /\ 0 <= Center /\ Center <= MaxCoord
  BY DEF Settable
<1> QED BY <1>1 DEF Snapped

\* The stick of an adjusted pad.
AdjustedX(p) ==
  IF stickSet.movement
  THEN Snapped(stickSet.originX, IF InDeadzone(p) THEN Center ELSE Scaled(stickSet.originX, p.x))
  ELSE Center
AdjustedY(p) ==
  IF stickSet.movement
  THEN Snapped(stickSet.originY, IF InDeadzone(p) THEN Center ELSE Scaled(stickSet.originY, p.y))
  ELSE Center

\* mfAnalogStickAdjust touches the stick alone, and leaves it in its range.
LEMMA AdjustedHeld ==
  ASSUME Settable, stickSet \in StickSettings, NEW p \in PadsHeld
  PROVE  /\ Adjusted(p) = [held |-> p.held, x |-> AdjustedX(p), y |-> AdjustedY(p)]
         /\ Adjusted(p) \in PadsHeld
<1>1. p = [held |-> p.held, x |-> p.x, y |-> p.y] /\ p.held \in SUBSET (PadButtons \cup Directions)
      /\ p.x \in 0 .. MaxCoord /\ p.y \in 0 .. MaxCoord
  BY DEF PadsHeld
<1>2. stickSet.originX \in 0 .. MaxCoord /\ stickSet.originY \in 0 .. MaxCoord
      /\ stickSet.sensitivity \in Nat
  BY DEF StickSettings
<1>3. Center \in 0 .. MaxCoord
  BY DEF Settable
<1>4. Adjusted(p) = [held |-> p.held, x |-> AdjustedX(p), y |-> AdjustedY(p)]
  BY <1>1 DEF Adjusted, AdjustedX, AdjustedY
<1>5. AdjustedX(p) \in 0 .. MaxCoord
  <2>1. Scaled(stickSet.originX, p.x) \in 0 .. MaxCoord
    BY <1>1, <1>2, ScaledBetween
  <2> QED BY <1>2, <1>3, <2>1, SnappedGrows DEF AdjustedX
<1>6. AdjustedY(p) \in 0 .. MaxCoord
  <2>1. Scaled(stickSet.originY, p.y) \in 0 .. MaxCoord
    BY <1>1, <1>2, ScaledBetween
  <2> QED BY <1>2, <1>3, <2>1, SnappedGrows DEF AdjustedY
<1> QED BY <1>1, <1>4, <1>5, <1>6 DEF PadsHeld

\* The stick may be pushed further.
LEMMA FurtherPushed == ASSUME Settable, StickInv PROVE PushedFurther
<1> SUFFICES ASSUME came # NoPad, NEW x \in Coords, x >= came.x
             PROVE  \/ Adjusted([came EXCEPT !.x = x]).x >= Adjusted(came).x
                    \/ stickSet.originX \in {Adjusted([came EXCEPT !.x = x]).x, Adjusted(came).x}
  BY DEF PushedFurther
<1> DEFINE p == came  q == [came EXCEPT !.x = x]
           o == stickSet.originX  a == p.x  near == Scaled(o, a)  far == Scaled(o, x)
<1>1. stickSet \in StickSettings /\ came \in Pads /\ Coords \subseteq 0 .. MaxCoord
  BY DEF StickInv, Settable
<1>2. p \in PadsHeld /\ q \in PadsHeld /\ q.x = x /\ q.y = p.y
  BY <1>1 DEF Pads, PadsHeld
<1>3. o \in 0 .. MaxCoord /\ stickSet.originY \in 0 .. MaxCoord /\ a \in 0 .. MaxCoord
      /\ x \in 0 .. MaxCoord /\ p.y \in 0 .. MaxCoord
      /\ stickSet.sensitivity \in Nat /\ stickSet.deadzone \in Nat /\ a <= x
  BY <1>1, <1>2 DEF StickSettings, PadsHeld
<1>4. Adjusted(p).x = AdjustedX(p) /\ Adjusted(q).x = AdjustedX(q)
  BY <1>1, <1>2, AdjustedHeld
<1>5. Center \in 0 .. MaxCoord /\ MaxCoord \in Nat
  BY DEF Settable
<1> HIDE DEF p, q, o, a
<1>6. near \in 0 .. MaxCoord /\ far \in 0 .. MaxCoord /\ near <= far
      /\ (a >= o => near >= o) /\ (a <= o => near <= o)
      /\ (x >= o => far >= o) /\ (x <= o => far <= o)
  <2>1. /\ near \in 0 .. MaxCoord
        /\ (a >= o => near >= o) /\ (a <= o => near <= o)
    BY <1>3, ScaledBetween
  <2>2. /\ far \in 0 .. MaxCoord
        /\ (x >= o => far >= o) /\ (x <= o => far <= o)
    BY <1>3, ScaledBetween
  <2>3. near <= far
    BY <1>3, ScaledGrows
  <2> QED BY <2>1, <2>2, <2>3
<1>7. /\ AdjustedX(p) = IF stickSet.movement
                        THEN Snapped(o, IF InDeadzone(p) THEN Center ELSE near) ELSE Center
      /\ AdjustedX(q) = IF stickSet.movement
                        THEN Snapped(o, IF InDeadzone(q) THEN Center ELSE far) ELSE Center
  BY <1>2 DEF AdjustedX, o, a
<1> HIDE DEF near, far
\* As it is pushed, a stick leaves the deadzone beyond the origin, and enters it before.
<1>8. /\ InDeadzone(p) /\ ~InDeadzone(q) => x > o
      /\ ~InDeadzone(p) /\ InDeadzone(q) => a < o
  <2> DEFINE k == Distance(a, o)  l == Distance(x, o)
             h == Square(p.y - stickSet.originY)  r == Square(stickSet.deadzone)
  <2>1. a \in Int /\ x \in Int /\ o \in Int /\ stickSet.originY \in Int /\ p.y \in Int
    BY <1>3, <1>5
  <2>2. Square(a - o) = k * k /\ Square(x - o) = l * l /\ k \in Nat /\ l \in Nat
    BY <2>1, SquareOfDistance
  <2>3. h \in Int /\ r \in Int
    <3>1. h \in Nat
      BY <2>1, SquareOfDistance
    <3>2. stickSet.deadzone * stickSet.deadzone \in Nat
      BY <1>3
    <3> QED BY <3>1, <3>2 DEF Square
  <2>4. /\ InDeadzone(p) <=> k * k + h <= r
        /\ InDeadzone(q) <=> l * l + h <= r
    BY <1>2, <2>2 DEF InDeadzone, o, a
  <2>5. x <= o => l <= k
    BY <1>3, <2>1 DEF Distance
  <2>6. a >= o => k <= l
    BY <1>3, <2>1 DEF Distance
  <2> HIDE DEF k, l, h, r
  <2>7. (l <= k => l * l <= k * k) /\ (k <= l => k * k <= l * l)
    BY <2>2, SquareGrows
  <2>8. k * k \in Int /\ l * l \in Int
    BY <2>2
  <2> DEFINE kk == k * k  ll == l * l
  <2>9. kk \in Int /\ ll \in Int /\ (x <= o => ll <= kk) /\ (a >= o => kk <= ll)
        /\ (InDeadzone(p) <=> kk + h <= r) /\ (InDeadzone(q) <=> ll + h <= r)
    BY <2>4, <2>5, <2>6, <2>7, <2>8
  <2> HIDE DEF kk, ll
  <2> QED BY <2>1, <2>3, <2>9
<1>9. CASE ~stickSet.movement
  BY <1>4, <1>5, <1>7, <1>9 DEF p, q
<1>10. CASE stickSet.movement /\ (InDeadzone(p) <=> InDeadzone(q))
  <2>1. Snapped(o, near) <= Snapped(o, far)
    BY <1>3, <1>6, SnappedGrows
  <2>2. Snapped(o, near) \in 0 .. MaxCoord /\ Snapped(o, far) \in 0 .. MaxCoord
        /\ Snapped(o, Center) = Center
    BY <1>3, <1>6, SnappedGrows
  <2>3. AdjustedX(p) <= AdjustedX(q)
    BY <1>5, <1>7, <1>10, <2>1, <2>2
  <2>4. AdjustedX(p) \in Int /\ AdjustedX(q) \in Int
    BY <1>5, <1>7, <1>10, <2>2
  <2> QED BY <1>4, <2>3, <2>4 DEF p, q
<1>11. CASE stickSet.movement /\ InDeadzone(p) /\ ~InDeadzone(q)
  <2>1. Snapped(o, Center) = Center /\ Snapped(o, o) = o /\ Snapped(o, far) \in 0 .. MaxCoord
        /\ (far > o => Snapped(o, far) >= Center)
    BY <1>3, <1>6, SnappedGrows
  <2>2. AdjustedX(p) = Center /\ AdjustedX(q) = Snapped(o, far)
    BY <1>7, <1>11, <2>1
  <2>3. far >= o /\ far \in Int /\ o \in Int
    BY <1>3, <1>5, <1>6, <1>8, <1>11
  <2>4. far = o \/ far > o
    BY <2>3
  <2> QED BY <1>4, <2>1, <2>2, <2>4 DEF p, q, o
<1>12. CASE stickSet.movement /\ ~InDeadzone(p) /\ InDeadzone(q)
  <2>1. Snapped(o, Center) = Center /\ Snapped(o, o) = o /\ Snapped(o, near) \in 0 .. MaxCoord
        /\ (near < o => Snapped(o, near) <= Center)
    BY <1>3, <1>6, SnappedGrows
  <2>2. AdjustedX(q) = Center /\ AdjustedX(p) = Snapped(o, near)
    BY <1>7, <1>12, <2>1
  <2>3. near <= o /\ near \in Int /\ o \in Int
    BY <1>3, <1>5, <1>6, <1>8, <1>12
  <2>4. near = o \/ near < o
    BY <2>3
  <2>5. Center \in Int /\ Snapped(o, near) \in Int
    BY <1>5, <2>1
  <2> QED BY <1>4, <2>1, <2>2, <2>4, <2>5 DEF p, q, o
<1> QED BY <1>9, <1>10, <1>11, <1>12

\* Some of the first n numbers have a greatest one.
LEMMA Greatest ==
  ASSUME NEW n \in Nat, NEW s \in SUBSET (1 .. n), s # {}
  PROVE  \E i \in s : \A j \in s : i >= j
<1> DEFINE Q == {n - i : i \in s}
<1>1. Q \in SUBSET Nat /\ Q # {}
  <2>1. \A i \in s : i \in 1 .. n
    OBVIOUS
  <2>2. \A i \in 1 .. n : n - i \in Nat
    OBVIOUS
  <2> QED BY <2>1, <2>2
<1>2. PICK m \in Q : \A k \in Q : m <= k
  BY <1>1, Least
<1>3. PICK i \in s : m = n - i
  OBVIOUS
<1>4. ASSUME NEW j \in s PROVE i >= j
  <2>1. n - j \in Q
    OBVIOUS
  <2>2. n - i <= n - j
    BY <2>1, <1>2, <1>3
  <2>3. i \in 1 .. n /\ j \in 1 .. n
    OBVIOUS
  <2> QED BY <2>2, <2>3
<1> QED BY <1>4

\* As many numbers as one counts to.
LEMMA Counted == \A n \in Nat : IsFiniteSet(1 .. n) /\ Cardinality(1 .. n) = n
<1> SUFFICES ASSUME NEW n \in Nat PROVE IsFiniteSet(1 .. n) /\ Cardinality(1 .. n) = n
  OBVIOUS
<1>1. IsFiniteSet(1 .. n) /\ Cardinality(1 .. n) = IF 1 > n THEN 0 ELSE n - 1 + 1
  BY FS_Interval
<1> QED BY <1>1

-----------------------------------------------------------------------------
(* The remaps. *)

\* The highest of some places is one of them.
LEMMA HighestOf ==
  ASSUME NEW n \in Nat, NEW s \in SUBSET (1 .. n), s # {}
  PROVE  Max(s) \in s /\ \A j \in s : Max(s) >= j
<1>1. \E i \in s : \A j \in s : i >= j
  BY Greatest
<1> QED BY <1>1 DEF Max

\* Some places of a list, one at least.
PlacesOf(s) == s # {} /\ \E n \in Nat : s \in SUBSET (1 .. n)

\* The last of the places either pushes, and is the last that does, or leaves it to the others.
LEMMA LastPusher ==
  ASSUME NEW list, NEW s, PlacesOf(s), NEW source, NEW ends
  PROVE  /\ Max(s) \in s
         /\ PushesTo(list[Max(s)], source, ends) =>
              /\ Pushers(list, source, s, ends) # {}
              /\ Max(Pushers(list, source, s, ends)) = Max(s)
         /\ ~PushesTo(list[Max(s)], source, ends) =>
              Pushers(list, source, s, ends) = Pushers(list, source, s \ {Max(s)}, ends)
<1> DEFINE J == Pushers(list, source, s, ends)
           k == Max(s)
           Pushes == PushesTo(list[k], source, ends)
<1>0. PICK n \in Nat : s \in SUBSET (1 .. n) /\ s # {}
  BY DEF PlacesOf
<1>1. k \in s /\ \A j \in s : k >= j
  BY <1>0, HighestOf
<1>2. J \subseteq s /\ (k \in J <=> Pushes)
  BY <1>1 DEF Pushers
<1>3. ~Pushes => J = Pushers(list, source, s \ {k}, ends)
  BY <1>1 DEF Pushers
<1> HIDE DEF J, k, Pushes
<1>4. CASE Pushes
  <2>1. J # {} /\ J \in SUBSET (1 .. n) /\ k \in J
    BY <1>0, <1>2, <1>4
  <2>2. Max(J) \in J /\ \A j \in J : Max(J) >= j
    BY <2>1, HighestOf
  <2>3. Max(J) >= k /\ k >= Max(J)
    BY <1>1, <1>2, <2>1, <2>2
  <2>4. Max(J) \in Int /\ k \in Int
    <3>1. Max(J) \in 1 .. n /\ k \in 1 .. n
      BY <2>1, <2>2
    <3> QED BY <3>1
  <2>5. Max(J) = k
    BY <2>3, <2>4
  <2> QED BY <1>1, <1>4, <2>1, <2>5 DEF J, k, Pushes
<1>5. CASE ~Pushes
  BY <1>1, <1>3, <1>5 DEF J, k, Pushes
<1> QED BY <1>4, <1>5

\* Without places, nothing pushes; and what pushes leaves the stick in its range.
LEMMA AfterType ==
  ASSUME Settable, NEW n \in Nat, NEW list, NEW p \in PadsHeld, NEW source, NEW s \in SUBSET (1 .. n)
  PROVE  /\ XAfter(p, list, source, s) \in 0 .. MaxCoord
         /\ YAfter(p, list, source, s) \in 0 .. MaxCoord
         /\ XAfter(p, list, source, {}) = p.x /\ YAfter(p, list, source, {}) = p.y
<1>1. \A m : XOf(m) \in 0 .. MaxCoord /\ YOf(m) \in 0 .. MaxCoord
  <2>1. 0 \in 0 .. MaxCoord /\ MaxCoord \in 0 .. MaxCoord /\ Center \in 0 .. MaxCoord
    BY DEF Settable
  <2> QED BY <2>1 DEF XOf, YOf
<1>2. p.x \in 0 .. MaxCoord /\ p.y \in 0 .. MaxCoord
  BY DEF PadsHeld
<1>3. \A ends : Pushers(list, source, {}, ends) = {}
  BY DEF Pushers
<1> QED BY <1>1, <1>2, <1>3 DEF XAfter, YAfter

\* The directions of a remap turn a stick (padutilSetAnalogStickDirection).
LEMMA TurnedIs ==
  ASSUME NEW held, NEW x, NEW y, NEW directions
  PROVE  Turned(directions, [held |-> held, x |-> x, y |-> y]) =
           [held |-> held,
            x |-> IF "AL" \in directions THEN 0 ELSE IF "AR" \in directions THEN MaxCoord ELSE x,
            y |-> IF "AD" \in directions THEN MaxCoord ELSE IF "AU" \in directions THEN 0 ELSE y]
<1> DEFINE r == [held |-> held, x |-> x, y |-> y]
<1>1. r.x = x /\ r.y = y
  OBVIOUS
<1>2. ASSUME NEW a, NEW b
      PROVE  [r EXCEPT !.x = a, !.y = b] = [held |-> held, x |-> a, y |-> b]
  <2> DEFINE q == [r EXCEPT !.x = a]
  <2>1. q = [held |-> held, x |-> a, y |-> y]
    <3>1. q \in [held : {held}, x : {a}, y : {y}]
      OBVIOUS
    <3> QED BY <3>1
  <2>2. [r EXCEPT !.x = a, !.y = b] = [q EXCEPT !.y = b]
    OBVIOUS
  <2> HIDE DEF q
  <2>3. [q EXCEPT !.y = b] \in [held : {held}, x : {a}, y : {b}]
    BY <2>1
  <2> QED BY <2>2, <2>3
<1> HIDE DEF r
<1>3. Turned(directions, r) =
        [r EXCEPT
          !.x = IF "AL" \in directions THEN 0 ELSE IF "AR" \in directions THEN MaxCoord ELSE r.x,
          !.y = IF "AD" \in directions THEN MaxCoord ELSE IF "AU" \in directions THEN 0 ELSE r.y]
  BY DEF Turned
<1> QED BY <1>1, <1>2, <1>3, Zenon DEF r

\* One step of the loop: the remap at the last place has its way.
LEMMA PushedStep ==
  ASSUME NEW list, NEW p \in PadsHeld, NEW source, NEW s, PlacesOf(s), NEW q,
         q = [held |-> p.held, x |-> XAfter(p, list, source, s \ {Max(s)}),
              y |-> YAfter(p, list, source, s \ {Max(s)})]
  PROVE  Pushed(q, list[Max(s)], source)
           = [held |-> p.held, x |-> XAfter(p, list, source, s), y |-> YAfter(p, list, source, s)]
<1> DEFINE m == list[Max(s)]
           t == s \ {Max(s)}
           Starts == m.real \cap Directions # {}
           r == IF Starts THEN [q EXCEPT !.x = Center, !.y = Center] ELSE q
           qx == XAfter(p, list, source, t)  qy == YAfter(p, list, source, t)
           x == XAfter(p, list, source, s)  y == YAfter(p, list, source, s)
<1>1. /\ m.real \subseteq source /\ (Starts \/ m.remap \cap {"AL", "AR"} # {}) => x = XOf(m)
      /\ ~(m.real \subseteq source /\ (Starts \/ m.remap \cap {"AL", "AR"} # {})) => x = qx
  <2> DEFINE ends == {"AL", "AR"}
             J == Pushers(list, source, s, ends)
  <2>1. /\ PushesTo(m, source, ends) => J # {} /\ Max(J) = Max(s)
        /\ ~PushesTo(m, source, ends) => J = Pushers(list, source, t, ends)
    <3> HIDE DEF ends
    <3>1. /\ Max(s) \in s
          /\ PushesTo(list[Max(s)], source, ends) =>
               /\ Pushers(list, source, s, ends) # {}
               /\ Max(Pushers(list, source, s, ends)) = Max(s)
          /\ ~PushesTo(list[Max(s)], source, ends) =>
               Pushers(list, source, s, ends) = Pushers(list, source, s \ {Max(s)}, ends)
      BY LastPusher
    <3> QED BY <3>1
  <2>4. PushesTo(m, source, ends)
          <=> m.real \subseteq source /\ (Starts \/ m.remap \cap ends # {})
    BY DEF PushesTo
  <2>2. x = IF J = {} THEN p.x ELSE XOf(list[Max(J)])
    BY DEF XAfter
  <2>3. qx = IF Pushers(list, source, t, ends) = {} THEN p.x
             ELSE XOf(list[Max(Pushers(list, source, t, ends))])
    BY DEF XAfter
  <2> HIDE DEF J, t, x, y, qx, qy, Starts
  <2> QED BY <2>1, <2>2, <2>3, <2>4
<1>2. /\ m.real \subseteq source /\ (Starts \/ m.remap \cap {"AU", "AD"} # {}) => y = YOf(m)
      /\ ~(m.real \subseteq source /\ (Starts \/ m.remap \cap {"AU", "AD"} # {})) => y = qy
  <2> DEFINE ends == {"AU", "AD"}
             J == Pushers(list, source, s, ends)
  <2>1. /\ PushesTo(m, source, ends) => J # {} /\ Max(J) = Max(s)
        /\ ~PushesTo(m, source, ends) => J = Pushers(list, source, t, ends)
    <3> HIDE DEF ends
    <3>1. /\ Max(s) \in s
          /\ PushesTo(list[Max(s)], source, ends) =>
               /\ Pushers(list, source, s, ends) # {}
               /\ Max(Pushers(list, source, s, ends)) = Max(s)
          /\ ~PushesTo(list[Max(s)], source, ends) =>
               Pushers(list, source, s, ends) = Pushers(list, source, s \ {Max(s)}, ends)
      BY LastPusher
    <3> QED BY <3>1
  <2>4. PushesTo(m, source, ends)
          <=> m.real \subseteq source /\ (Starts \/ m.remap \cap ends # {})
    BY DEF PushesTo
  <2>2. y = IF J = {} THEN p.y ELSE YOf(list[Max(J)])
    BY DEF YAfter
  <2>3. qy = IF Pushers(list, source, t, ends) = {} THEN p.y
             ELSE YOf(list[Max(Pushers(list, source, t, ends))])
    BY DEF YAfter
  <2> HIDE DEF J, t, x, y, qx, qy, Starts
  <2> QED BY <2>1, <2>2, <2>3, <2>4
<1>3. r = [held |-> p.held, x |-> IF Starts THEN Center ELSE qx,
           y |-> IF Starts THEN Center ELSE qy]
  OBVIOUS
<1>4. Pushed(q, m, source) = IF m.real \subseteq source THEN Turned(m.remap, r) ELSE q
  BY DEF Pushed
<1>5. q = [held |-> p.held, x |-> qx, y |-> qy]
  OBVIOUS
<1>6. Turned(m.remap, r) =
        [held |-> p.held,
         x |-> IF "AL" \in m.remap THEN 0 ELSE IF "AR" \in m.remap THEN MaxCoord
               ELSE IF Starts THEN Center ELSE qx,
         y |-> IF "AD" \in m.remap THEN MaxCoord ELSE IF "AU" \in m.remap THEN 0
               ELSE IF Starts THEN Center ELSE qy]
  <2> HIDE DEF r, m, qx, qy, Starts
  <2> QED BY <1>3, TurnedIs
<1>7. (m.remap \cap {"AL", "AR"} # {} <=> "AL" \in m.remap \/ "AR" \in m.remap)
      /\ (m.remap \cap {"AU", "AD"} # {} <=> "AU" \in m.remap \/ "AD" \in m.remap)
  OBVIOUS
<1> HIDE DEF r, m, qx, qy, x, y, Starts
<1>8. CASE m.real \subseteq source
  <2>1. x = IF "AL" \in m.remap THEN 0 ELSE IF "AR" \in m.remap THEN MaxCoord
            ELSE IF Starts THEN Center ELSE qx
    BY <1>1, <1>7, <1>8 DEF XOf
  <2>2. y = IF "AD" \in m.remap THEN MaxCoord ELSE IF "AU" \in m.remap THEN 0
            ELSE IF Starts THEN Center ELSE qy
    BY <1>2, <1>7, <1>8 DEF YOf
  <2> QED BY <1>4, <1>6, <1>8, <2>1, <2>2 DEF x, y, m
<1>9. CASE ~(m.real \subseteq source)
  BY <1>1, <1>2, <1>4, <1>5, <1>9 DEF x, y, m
<1> QED BY <1>8, <1>9

\* What padutilRemap makes of a pad: what is held decides which remaps match, and the last one
\* that pushes the stick has its way.
LEMMA RemappedIs ==
  ASSUME Settable, NEW list \in Seq(RemapEntries), NEW p \in PadsHeld
  PROVE  LET S       == 1 .. Len(list)
             matched == {m \in ToSet(list) : m.real \subseteq Source(p)}
         IN  Remapped(p, list) =
               [held |-> (p.held \ UNION {m.real : m \in matched}) \cup UNION {m.remap : m \in matched},
                x |-> XAfter(p, list, Source(p), S), y |-> YAfter(p, list, Source(p), S)]
<1> DEFINE S == 1 .. Len(list)
           n == Len(list)
           source == Source(p)
           matched == {m \in ToSet(list) : m.real \subseteq source}
           held == (p.held \ UNION {m.real : m \in matched}) \cup UNION {m.remap : m \in matched}
           X  == [held : {p.held}, x : 0 .. MaxCoord, y : 0 .. MaxCoord]
           c  == [s \in SUBSET S |-> Max(s)]
           G  == [z \in (SUBSET S) \X X |-> Pushed(z[2], list[Max(z[1])], source)]
           R(s) == [held |-> p.held, x |-> XAfter(p, list, source, s), y |-> YAfter(p, list, source, s)]
           it == [s \in SUBSET S |-> R(s)]
           Iter == CHOOSE f : f = [s \in SUBSET S |->
                     IF s = {} THEN p ELSE Pushed(f[s \ {Max(s)}], list[Max(s)], source)]
<1>1. n \in Nat /\ DOMAIN list = S /\ IsFiniteSet(S)
  <2>1. n \in Nat /\ DOMAIN list = S
    OBVIOUS
  <2>2. IsFiniteSet(1 .. n)
    BY <2>1, FS_Interval
  <2> QED BY <2>1, <2>2
<1>2. p = [held |-> p.held, x |-> p.x, y |-> p.y] /\ p \in X
  BY DEF PadsHeld
<1>3. Remapped(p, list) = [Iter[S] EXCEPT !.held = held]
  BY <1>1 DEF Remapped, FoldLeft, MapThenFoldSet
<1>4. \A s \in SUBSET S : c[s] = Max(s) /\ it[s] = R(s)
  OBVIOUS
<1>5. \A s \in SUBSET S, q \in X : G[<<s, q>>] = Pushed(q, list[Max(s)], source)
  OBVIOUS
<1> HIDE DEF G, c, it, held
<1>6. \A s \in SUBSET S : s # {} => Max(s) \in s
  BY <1>1, HighestOf
<1>7. \A s \in SUBSET S : R(s) \in X
  BY <1>1, AfterType
<1>8. R({}) = p
  BY <1>1, <1>2, AfterType
<1>9. \A s \in SUBSET S : s # {} => R(s) = Pushed(R(s \ {Max(s)}), list[Max(s)], source)
  <2>1. ASSUME NEW s \in SUBSET S, s # {}
        PROVE  R(s) = Pushed(R(s \ {Max(s)}), list[Max(s)], source)
    <3> DEFINE q == R(s \ {Max(s)})
    <3>1. q = [held |-> p.held, x |-> XAfter(p, list, source, s \ {Max(s)}),
               y |-> YAfter(p, list, source, s \ {Max(s)})]
      OBVIOUS
    <3> HIDE DEF q, source
    <3>2. PlacesOf(s)
      BY <1>1, <2>1 DEF PlacesOf
    <3>3. Pushed(q, list[Max(s)], source)
            = [held |-> p.held, x |-> XAfter(p, list, source, s), y |-> YAfter(p, list, source, s)]
      <4> HIDE DEF n, S, R, X
      <4> QED BY <3>1, <3>2, PushedStep
    <3>4. Pushed(q, list[Max(s)], source) = R(s)
      BY <3>3
    <3> QED BY <3>4 DEF q
  <2> HIDE DEF R
  <2> QED BY <2>1
<1> HIDE DEF R, X, source
<1>10. it \in [SUBSET S -> X]
  BY <1>4, <1>7 DEF it
<1>11. \A s \in SUBSET S :
         it[s] = IF s = {} THEN p ELSE Pushed(it[s \ {Max(s)}], list[Max(s)], source)
  BY <1>4, <1>8, <1>9
<1>12. it = [s \in SUBSET S |-> IF s = {} THEN p
                                ELSE Pushed(it[s \ {Max(s)}], list[Max(s)], source)]
  <2>1. it = [s \in SUBSET S |-> it[s]]
    BY <1>10
  <2> QED BY <1>11, <2>1, Zenon
<1>13. Iter = [s \in SUBSET S |-> IF s = {} THEN p
                                  ELSE Pushed(Iter[s \ {Max(s)}], list[Max(s)], source)]
  BY <1>12, Zenon
<1> HIDE DEF Iter
<1>14. FoldsIn(X, Iter, S, p, c, G)
  <2>1. ASSUME NEW s \in SUBSET S, s # {}, Iter[s \ {c[s]}] \in X
        PROVE  Iter[s] = G[<<s, Iter[s \ {c[s]}]>>]
    <3>1. Iter[s] = Pushed(Iter[s \ {Max(s)}], list[Max(s)], source)
      BY <1>13, <2>1
    <3> QED BY <1>4, <1>5, <2>1, <3>1
  <2>2. Iter[{}] = p
    BY <1>13
  <2> QED BY <2>1, <2>2 DEF FoldsIn
<1>15. IsFold(it, S, X, p, c, G)
  <2>1. ASSUME NEW s \in SUBSET S, s # {} PROVE it[s] = G[<<s, it[s \ {c[s]}]>>]
    <3>1. it[s \ {c[s]}] \in X
      BY <1>10
    <3> QED BY <1>4, <1>5, <1>11, <2>1, <3>1
  <2>2. it[{}] = p
    BY <1>11
  <2> QED BY <1>1, <1>2, <1>4, <1>6, <1>10, <2>1, <2>2 DEF IsFold, Takes, Folds
<1>16. Iter[S] = R(S)
  BY <1>4, <1>14, <1>15, FoldAgrees
<1>17. Remapped(p, list) = [R(S) EXCEPT !.held = held]
  BY <1>3, <1>16
<1> QED BY <1>17 DEF R, held, source

\* Where the stick is, when none of the remaps that match starts from it and no two push it to
\* opposite sides: it does not depend on their order.
XFree(p, matched) ==
  IF \E m \in matched : "AL" \in m.remap THEN 0
  ELSE IF \E m \in matched : "AR" \in m.remap THEN MaxCoord ELSE p.x
YFree(p, matched) ==
  IF \E m \in matched : "AD" \in m.remap THEN MaxCoord
  ELSE IF \E m \in matched : "AU" \in m.remap THEN 0 ELSE p.y

Matched(list, source) == {m \in ToSet(list) : m.real \subseteq source}
Goals(list) == UNION {m.remap : m \in ToSet(list)}
Free(list) ==
  /\ \A m \in ToSet(list) : m.real \cap Directions = {}
  /\ ~({"AU", "AD"} \subseteq Goals(list)) /\ ~({"AL", "AR"} \subseteq Goals(list))

\* What pushes the stick to some ends are the remaps that match and have one of these ends.
LEMMA FreePushers ==
  ASSUME NEW list \in Seq(RemapEntries), Free(list), NEW source, NEW ends
  PROVE  LET J == Pushers(list, source, 1 .. Len(list), ends)
         IN  /\ J = {} => \A m \in Matched(list, source) : m.remap \cap ends = {}
             /\ J # {} => /\ list[Max(J)] \in Matched(list, source)
                          /\ list[Max(J)].remap \cap ends # {}
<1> DEFINE J == Pushers(list, source, 1 .. Len(list), ends)
<1>1. Len(list) \in Nat /\ ToSet(list) = {list[i] : i \in 1 .. Len(list)}
  BY DEF ToSet
<1>2. \A m \in Matched(list, source) : m.real \subseteq source /\ m \in ToSet(list)
  BY DEF Matched
<1>3. \A i \in 1 .. Len(list) : list[i] \in ToSet(list) /\ list[i].real \cap Directions = {}
  BY <1>1 DEF Free
<1>4. \A i \in 1 .. Len(list) :
        i \in J <=> list[i].real \subseteq source /\ list[i].remap \cap ends # {}
  BY <1>3 DEF Pushers, PushesTo
<1>5. J \in SUBSET (1 .. Len(list))
  BY DEF Pushers
<1> HIDE DEF J
<1>6. ASSUME J = {}, NEW m \in Matched(list, source) PROVE m.remap \cap ends = {}
  <2>1. PICK i \in 1 .. Len(list) : m = list[i]
    BY <1>1, <1>2, <1>6
  <2> QED BY <1>2, <1>4, <1>6, <2>1
<1>7. ASSUME J # {}
      PROVE  list[Max(J)] \in Matched(list, source) /\ list[Max(J)].remap \cap ends # {}
  <2>1. Max(J) \in J /\ Max(J) \in 1 .. Len(list)
    BY <1>1, <1>5, <1>7, HighestOf
  <2> QED BY <1>3, <1>4, <2>1 DEF Matched
<1> QED BY <1>6, <1>7 DEF J

\* The order of remaps does not matter to the stick.
LEMMA FreeAfter ==
  ASSUME NEW list \in Seq(RemapEntries), Free(list), NEW source, NEW p
  PROVE  /\ XAfter(p, list, source, 1 .. Len(list)) = XFree(p, Matched(list, source))
         /\ YAfter(p, list, source, 1 .. Len(list)) = YFree(p, Matched(list, source))
<1> DEFINE M == Matched(list, source)
<1>1. \A m \in M : m.remap \subseteq Goals(list)
  BY DEF Matched, Goals
<1>2. XAfter(p, list, source, 1 .. Len(list)) = XFree(p, M)
  <2> DEFINE ends == {"AL", "AR"}
             J == Pushers(list, source, 1 .. Len(list), ends)
             last == list[Max(J)]
  <2>1. /\ J = {} => \A m \in M : m.remap \cap ends = {}
        /\ J # {} => last \in M /\ last.remap \cap ends # {}
    <3> HIDE DEF ends
    <3> QED BY FreePushers
  <2>2. XAfter(p, list, source, 1 .. Len(list)) = IF J = {} THEN p.x ELSE XOf(last)
    BY DEF XAfter
  <2>3. ~("AL" \in Goals(list) /\ "AR" \in Goals(list))
    BY DEF Free
  <2> HIDE DEF J, last, M
  <2>4. CASE J = {}
    BY <2>1, <2>2, <2>4 DEF XFree
  <2>5. CASE J # {}
    <3>1. "AL" \in last.remap \/ "AR" \in last.remap
      BY <2>1, <2>5
    <3>2. last \in M
      BY <2>1, <2>5
    <3>3. "AL" \in last.remap => XFree(p, M) = 0
      BY <3>2 DEF XFree
    <3>4. "AL" \notin last.remap => XFree(p, M) = MaxCoord
      <4> SUFFICES ASSUME "AL" \notin last.remap PROVE XFree(p, M) = MaxCoord
        OBVIOUS
      <4>1. \A m \in M : "AL" \notin m.remap
        BY <1>1, <2>3, <3>1, <3>2
      <4> QED BY <3>1, <3>2, <4>1 DEF XFree
    <3> QED BY <2>2, <2>5, <3>1, <3>3, <3>4 DEF XOf
  <2> QED BY <2>4, <2>5
<1>3. YAfter(p, list, source, 1 .. Len(list)) = YFree(p, M)
  <2> DEFINE ends == {"AU", "AD"}
             J == Pushers(list, source, 1 .. Len(list), ends)
             last == list[Max(J)]
  <2>1. /\ J = {} => \A m \in M : m.remap \cap ends = {}
        /\ J # {} => last \in M /\ last.remap \cap ends # {}
    <3> HIDE DEF ends
    <3> QED BY FreePushers
  <2>2. YAfter(p, list, source, 1 .. Len(list)) = IF J = {} THEN p.y ELSE YOf(last)
    BY DEF YAfter
  <2>3. ~("AU" \in Goals(list) /\ "AD" \in Goals(list))
    BY DEF Free
  <2> HIDE DEF J, last, M
  <2>4. CASE J = {}
    BY <2>1, <2>2, <2>4 DEF YFree
  <2>5. CASE J # {}
    <3>1. "AU" \in last.remap \/ "AD" \in last.remap
      BY <2>1, <2>5
    <3>2. last \in M
      BY <2>1, <2>5
    <3>3. "AD" \in last.remap => YFree(p, M) = MaxCoord
      BY <3>2 DEF YFree
    <3>4. "AD" \notin last.remap => YFree(p, M) = 0
      <4> SUFFICES ASSUME "AD" \notin last.remap PROVE YFree(p, M) = 0
        OBVIOUS
      <4>1. \A m \in M : "AD" \notin m.remap
        BY <1>1, <2>3, <3>1, <3>2
      <4> QED BY <3>1, <3>2, <4>1 DEF YFree
    <3> QED BY <2>2, <2>5, <3>1, <3>3, <3>4 DEF YOf
  <2> QED BY <2>4, <2>5
<1> QED BY <1>2, <1>3

\* A list that is turned round has the same elements.
LEMMA SameReversed ==
  ASSUME NEW list \in Seq(RemapEntries)
  PROVE  Reverse(list) \in Seq(RemapEntries) /\ ToSet(Reverse(list)) = ToSet(list)
<1> DEFINE n == Len(list)  back == Reverse(list)
<1>1. n \in Nat /\ DOMAIN list = 1 .. n /\ \A i \in 1 .. n : list[i] \in RemapEntries
  OBVIOUS
<1>2. back = [i \in 1 .. n |-> list[(n - i) + 1]]
  BY DEF Reverse
<1>3. \A i \in 1 .. n : (n - i) + 1 \in 1 .. n /\ (n - ((n - i) + 1)) + 1 = i
  BY <1>1
<1> HIDE DEF n, back
<1>4. back \in [1 .. n -> RemapEntries]
  BY <1>1, <1>2, <1>3
<1>5. back \in Seq(RemapEntries) /\ DOMAIN back = 1 .. n
  BY <1>1, <1>4
<1>6. \A i \in 1 .. n : back[i] = list[(n - i) + 1]
  BY <1>2
<1>7. \A i \in 1 .. n : list[i] = back[(n - i) + 1]
  BY <1>3, <1>6
<1>8. {back[i] : i \in 1 .. n} = {list[i] : i \in 1 .. n}
  BY <1>3, <1>6, <1>7
<1> QED BY <1>1, <1>5, <1>8 DEF ToSet, back

\* A stick that is pushed to an end is seen to be, wherever it is on the other axis.
LEMMA EndsSeen ==
  ASSUME Settable, NEW n \in 0 .. MaxCoord
  PROVE  /\ Outweighs(Distance(0, Center), Distance(n, Center)) /\ 0 <= Center
         /\ Outweighs(Distance(MaxCoord, Center), Distance(n, Center)) /\ MaxCoord > Center
<1>1. Center \in Nat /\ Center >= 3 /\ MaxCoord = 2 * Center + 1 /\ n \in Int /\ 0 <= n /\ n <= MaxCoord
  BY DEF Settable
<1>2. Distance(0, Center) = Center /\ Distance(MaxCoord, Center) = Center + 1
  BY <1>1 DEF Distance
<1>3. Distance(n, Center) \in Nat /\ Distance(n, Center) <= Center + 1
  BY <1>1 DEF Distance
<1> DEFINE far == Distance(n, Center)
<1> HIDE DEF far
<1>4. far \in Nat /\ far <= Center + 1
  BY <1>3 DEF far
<1>5. (far * 70682) \div 100000 < Center
  BY <1>1, <1>4
<1>6. (far * 70682) \div 100000 \in Int
  BY <1>4
<1> QED BY <1>1, <1>2, <1>5, <1>6 DEF Outweighs, far

\* What a pad that has come is made to, as long as the settings are in their types.
LEMMA PadMade ==
  ASSUME Settable, StickInv, came # NoPad
  PROVE  /\ stickSet \in StickSettings /\ remaps \in Seq(RemapEntries)
         /\ came \in PadsHeld /\ came.held \subseteq PadButtons
         /\ Adjusted(came) \in PadsHeld /\ Adjusted(came).held = came.held
         /\ pad = Remapped(Adjusted(came), remaps)
<1>1. <<stickSet, remaps>> \in StickSettings \X Seq(RemapEntries)
  BY DEF StickInv, Settable
<1>2. came \in PadsHeld /\ came.held \subseteq PadButtons
  BY DEF StickInv, Settable, Pads, PadsHeld
<1>3. stickSet \in StickSettings /\ remaps \in Seq(RemapEntries)
  BY <1>1
<1>4. Adjusted(came) \in PadsHeld /\ Adjusted(came).held = came.held
  BY <1>2, <1>3, AdjustedHeld
<1> QED BY <1>2, <1>3, <1>4 DEF StickInv

\* The pad that the functions get holds buttons and directions, and its stick is in range.
LEMMA PadInRange ==
  ASSUME Settable, StickInv, came # NoPad
  PROVE  pad.held \subseteq PadButtons \cup Directions /\ {pad.x, pad.y} \subseteq 0 .. MaxCoord
<1> DEFINE p == Adjusted(came)
           M == Matched(remaps, Source(p))
           S == 1 .. Len(remaps)
<1>1. p \in PadsHeld /\ remaps \in Seq(RemapEntries) /\ pad = Remapped(p, remaps)
  BY PadMade
<1> HIDE DEF p
<1>2. pad = [held |-> (p.held \ UNION {m.real : m \in M}) \cup UNION {m.remap : m \in M},
             x |-> XAfter(p, remaps, Source(p), S), y |-> YAfter(p, remaps, Source(p), S)]
  BY <1>1, RemappedIs DEF Matched
<1>3. \A m \in M : m.remap \subseteq PadButtons \cup Directions
  <2>1. \A i \in DOMAIN remaps : remaps[i] \in RemapEntries
    BY <1>1
  <2>2. \A m \in M : \E i \in DOMAIN remaps : m = remaps[i]
    BY DEF Matched, ToSet
  <2> HIDE DEF M
  <2> QED BY <2>1, <2>2 DEF RemapEntries
<1>4. /\ XAfter(p, remaps, Source(p), S) \in 0 .. MaxCoord
      /\ YAfter(p, remaps, Source(p), S) \in 0 .. MaxCoord
  <2>1. Len(remaps) \in Nat
    BY <1>1
  <2> QED BY <1>1, <2>1, AfterType
<1> HIDE DEF M, S
<1>5. p.held \subseteq PadButtons \cup Directions
  BY <1>1 DEF PadsHeld
<1> QED BY <1>2, <1>3, <1>4, <1>5

\* Whatever the list, what is held does not depend on its order, and the last remap that pushes
\* the stick has its way.
LEMMA LastPushed == ASSUME Settable, StickInv PROVE LastHasItsWay
<1> SUFFICES ASSUME came # NoPad
             PROVE  LET p == Adjusted(came)
                    IN  /\ Remapped(p, Reverse(remaps)).held = pad.held
                        /\ pad.x = XAfter(p, remaps, Source(p), 1 .. Len(remaps))
                        /\ pad.y = YAfter(p, remaps, Source(p), 1 .. Len(remaps))
  BY DEF LastHasItsWay
<1> DEFINE p       == Adjusted(came)
           back    == Reverse(remaps)
           M       == {m \in ToSet(remaps) : m.real \subseteq Source(p)}
           N       == {m \in ToSet(back) : m.real \subseteq Source(p)}
           Held(K) == (p.held \ UNION {m.real : m \in K}) \cup UNION {m.remap : m \in K}
<1>1. p \in PadsHeld /\ remaps \in Seq(RemapEntries) /\ pad = Remapped(p, remaps)
  BY PadMade
<1>2. back \in Seq(RemapEntries) /\ ToSet(back) = ToSet(remaps)
  BY <1>1, SameReversed
<1> HIDE DEF p, back
<1>3. pad = [held |-> Held(M), x |-> XAfter(p, remaps, Source(p), 1 .. Len(remaps)),
             y |-> YAfter(p, remaps, Source(p), 1 .. Len(remaps))]
  BY <1>1, RemappedIs
<1>4. Remapped(p, back) = [held |-> Held(N), x |-> XAfter(p, back, Source(p), 1 .. Len(back)),
                           y |-> YAfter(p, back, Source(p), 1 .. Len(back))]
  BY <1>1, <1>2, RemappedIs
<1>5. N = M
  BY <1>2
<1> HIDE DEF M, N, Held
<1>6. pad.held = Held(M) /\ Remapped(p, back).held = Held(M)
  BY <1>3, <1>4, <1>5
<1>7. /\ pad.x = XAfter(p, remaps, Source(p), 1 .. Len(remaps))
      /\ pad.y = YAfter(p, remaps, Source(p), 1 .. Len(remaps))
  BY <1>3
<1> QED BY <1>6, <1>7 DEF p, back

\* The order of the remaps is free, and the directions they are made to are seen.
LEMMA OrderFree == ASSUME Settable, StickInv PROVE OrderIsFree
<1> SUFFICES ASSUME came # NoPad, Free(remaps)
             PROVE  /\ Remapped(Adjusted(came), Reverse(remaps)) = pad
                    /\ pad.held \cap Directions \subseteq DirectionOf(pad.x, pad.y)
  BY DEF OrderIsFree, Free, Goals
<1> DEFINE p    == Adjusted(came)
           back == Reverse(remaps)
           M    == Matched(remaps, Source(p))
           held == (p.held \ UNION {m.real : m \in M}) \cup UNION {m.remap : m \in M}
<1>1. p \in PadsHeld /\ remaps \in Seq(RemapEntries) /\ pad = Remapped(p, remaps)
      /\ p.held \subseteq PadButtons
  BY PadMade
<1>2. back \in Seq(RemapEntries) /\ ToSet(back) = ToSet(remaps)
  BY <1>1, SameReversed
<1> HIDE DEF p, back
<1>3. Free(back) /\ Matched(back, Source(p)) = M
  BY <1>2 DEF Free, Goals, Matched
<1>4. pad = [held |-> held, x |-> XFree(p, M), y |-> YFree(p, M)]
  <2>1. pad = [held |-> held, x |-> XAfter(p, remaps, Source(p), 1 .. Len(remaps)),
               y |-> YAfter(p, remaps, Source(p), 1 .. Len(remaps))]
    BY <1>1, RemappedIs DEF Matched
  <2>2. /\ XAfter(p, remaps, Source(p), 1 .. Len(remaps)) = XFree(p, M)
        /\ YAfter(p, remaps, Source(p), 1 .. Len(remaps)) = YFree(p, M)
    BY <1>1, FreeAfter
  <2> QED BY <2>1, <2>2
<1>5. Remapped(p, back) = [held |-> held, x |-> XFree(p, M), y |-> YFree(p, M)]
  <2>1. Remapped(p, back)
          = [held |-> held, x |-> XAfter(p, back, Source(p), 1 .. Len(back)),
             y |-> YAfter(p, back, Source(p), 1 .. Len(back))]
    <3> DEFINE N == {m \in ToSet(back) : m.real \subseteq Source(p)}
    <3>1. Remapped(p, back)
            = [held |-> (p.held \ UNION {m.real : m \in N}) \cup UNION {m.remap : m \in N},
               x |-> XAfter(p, back, Source(p), 1 .. Len(back)),
               y |-> YAfter(p, back, Source(p), 1 .. Len(back))]
      BY <1>1, <1>2, RemappedIs
    <3>2. N = M
      BY <1>3 DEF Matched
    <3> HIDE DEF M, N
    <3> QED BY <3>1, <3>2
  <2>2. /\ XAfter(p, back, Source(p), 1 .. Len(back)) = XFree(p, M)
        /\ YAfter(p, back, Source(p), 1 .. Len(back)) = YFree(p, M)
    BY <1>2, <1>3, FreeAfter
  <2> QED BY <2>1, <2>2
<1>6. Remapped(Adjusted(came), Reverse(remaps)) = pad
  BY <1>4, <1>5 DEF p, back
<1>7. \A m \in M : m.remap \subseteq Goals(remaps)
  BY DEF Matched, Goals
<1>8. pad.x \in 0 .. MaxCoord /\ pad.y \in 0 .. MaxCoord
  BY PadInRange
<1>9. pad.x = XFree(p, M) /\ pad.y = YFree(p, M) /\ pad.held = held
  BY <1>4
<1>10. ASSUME NEW d \in pad.held, d \in Directions PROVE \E m \in M : d \in m.remap
  <2>1. d \notin p.held
    BY <1>1, <1>10 DEF Settable
  <2> QED BY <1>9, <1>10, <2>1
<1> HIDE DEF M, held
<1>11. ~("AU" \in Goals(remaps) /\ "AD" \in Goals(remaps))
       /\ ~("AL" \in Goals(remaps) /\ "AR" \in Goals(remaps))
  BY DEF Free
<1>12. \A n \in 0 .. MaxCoord :
         /\ Outweighs(Distance(0, Center), Distance(n, Center)) /\ 0 <= Center
         /\ Outweighs(Distance(MaxCoord, Center), Distance(n, Center)) /\ MaxCoord > Center
  BY EndsSeen
<1>13. ASSUME NEW d \in pad.held, d \in Directions PROVE d \in DirectionOf(pad.x, pad.y)
  <2>1. PICK m \in M : d \in m.remap
    BY <1>10, <1>13
  <2>2. CASE d = "AL"
    <3>1. pad.x = 0
      BY <1>9, <2>1, <2>2 DEF XFree
    <3> QED BY <1>8, <1>12, <2>2, <3>1 DEF DirectionOf, Directions
  <2>3. CASE d = "AR"
    <3>1. \A k \in M : "AL" \notin k.remap
      BY <1>7, <1>11, <2>1, <2>3
    <3>2. pad.x = MaxCoord
      BY <1>9, <2>1, <2>3, <3>1 DEF XFree
    <3> QED BY <1>8, <1>12, <2>3, <3>2 DEF DirectionOf, Directions
  <2>4. CASE d = "AD"
    <3>1. pad.y = MaxCoord
      BY <1>9, <2>1, <2>4 DEF YFree
    <3> QED BY <1>8, <1>12, <2>4, <3>1 DEF DirectionOf, Directions
  <2>5. CASE d = "AU"
    <3>1. \A k \in M : "AD" \notin k.remap
      BY <1>7, <1>11, <2>1, <2>5
    <3>2. pad.y = 0
      BY <1>9, <2>1, <2>5, <3>1 DEF YFree
    <3> QED BY <1>8, <1>12, <2>5, <3>2 DEF DirectionOf, Directions
  <2> QED BY <1>13, <2>2, <2>3, <2>4, <2>5 DEF Directions
<1> QED BY <1>6, <1>13

\* A pad is made to what the settings and the remaps say, and it is that until it is used.
THEOREM StickInvariant == ASSUME Settable PROVE StickSpec => []StickInv
<1>1. StickInit => StickInv
  <2>1. ASSUME StickInit PROVE StickInv
    <3>1. PICK t \in Tried : stickSet = t[1] /\ remaps = t[2]
      BY <2>1 DEF StickInit
    <3>2. t = <<t[1], t[2]>>
      BY DEF Settable
    <3> QED BY <2>1, <3>1, <3>2 DEF StickInit, StickInv
  <2> QED BY <2>1
<1>2. ASSUME StickInv, [StickNext]_stickVars PROVE StickInv'
  <2>1. CASE \E p \in Pads : CallFunctions(p)
    <3>1. PICK p \in Pads : CallFunctions(p)
      BY <2>1
    <3>2. came' = p /\ pad' = Remapped(Adjusted(p), remaps) /\ stickSet' = stickSet /\ remaps' = remaps
      BY <3>1 DEF CallFunctions
    <3>3. Remapped(Adjusted(came), remaps)' = Remapped(Adjusted(p), remaps)
      <4>1. Adjusted(came)' = Adjusted(p)
        <5>1. InDeadzone(came)' = InDeadzone(p)
          BY <3>2 DEF InDeadzone, Square
        <5>2. Scaled(stickSet.originX, came.x)' = Scaled(stickSet.originX, p.x)
          BY <3>2 DEF Scaled, Distance
        <5>3. Scaled(stickSet.originY, came.y)' = Scaled(stickSet.originY, p.y)
          BY <3>2 DEF Scaled, Distance
        <5> QED BY <3>2, <5>1, <5>2, <5>3 DEF Adjusted, Snapped
      <4> QED BY <3>2, <4>1
    <3> QED BY <1>2, <3>2, <3>3 DEF StickInv
  <2>2. CASE SetUpPad
    <3>1. PICK t \in Tried : stickSet' = t[1] /\ remaps' = t[2]
      BY <2>2 DEF SetUpPad
    <3>2. t = <<t[1], t[2]>>
      BY DEF Settable
    <3> QED BY <2>2, <3>1, <3>2 DEF SetUpPad, StickInv
  <2>3. CASE PadUsed
    BY <1>2, <2>3 DEF PadUsed, StickInv
  <2>4. CASE UNCHANGED stickVars
    <3>1. stickSet' = stickSet /\ remaps' = remaps /\ came' = came /\ pad' = pad
      BY <2>4 DEF stickVars
    <3>2. Remapped(Adjusted(came), remaps)' = Remapped(Adjusted(came), remaps)
      <4>1. Adjusted(came)' = Adjusted(came)
        BY <3>1 DEF Adjusted, InDeadzone, Scaled, Snapped, Square, Distance
      <4> QED BY <3>1, <4>1
    <3> QED BY <1>2, <3>1, <3>2 DEF StickInv
  <2> QED BY <1>2, <2>1, <2>2, <2>3, <2>4 DEF StickNext
<1> QED BY <1>1, <1>2, PTL DEF StickSpec

-----------------------------------------------------------------------------
(* What the run "units" says of these parts. *)

\* The variables are in their types: words, bytes and coordinates.
THEOREM PadsTypeCorrect ==
  ASSUME WordsArrive, Settable PROVE PacketSpec /\ StickSpec => []PadTypeOK
<1>1. ASSUME PacketInv, StickInv PROVE PadTypeOK
  <2>1. /\ hooked \in BOOLEAN
        /\ packet.data \in [0 .. 8 -> Byte] /\ sent.data \in [0 .. 8 -> Byte]
    BY <1>1 DEF PacketInv, WellFormed, Packets
  <2>2. rawPad # NoPad => rawPad.buttons \subseteq Word /\ decided.buttons \subseteq Word
    BY <1>1, MovedApart DEF PacketInv, ReceivedPads
  <2>3. <<stickSet, remaps>> \in Tried /\ came \in Pads \cup {NoPad}
    BY <1>1 DEF StickInv
  <2>4. came # NoPad => /\ pad.held \subseteq PadButtons \cup Directions
                        /\ {pad.x, pad.y} \subseteq 0 .. MaxCoord
    BY <1>1, PadInRange
  <2> QED BY <2>1, <2>2, <2>3, <2>4 DEF PadTypeOK
<1> QED BY <1>1, PacketInvariant, StickInvariant, PTL

\* The game gets the pad as the functions decided it (mf_syscon_handler_recieve), the stick is
\* reported as far as it is pushed (padutilAdjustAnalogStick), and of any list of remaps each
\* goes by what was held: what is held then does not depend on their order, and the stick goes
\* where the last one that pushes it says, so that for the stick, too, the order is free as
\* long as no remap starts from it and no two push it to opposite sides (padutilRemap).
THEOREM PadAsDecidedCorrect ==
  ASSUME WordsArrive, Settable PROVE PacketSpec /\ StickSpec => []PadAsDecided
<1>1. ASSUME PacketInv, StickInv PROVE PadAsDecided
  <2>1. PacketTold
    BY <1>1 DEF PacketInv
  <2>2. PushedFurther
    BY <1>1, FurtherPushed
  <2>3. OrderIsFree
    BY <1>1, OrderFree
  <2>4. LastHasItsWay
    BY <1>1, LastPushed
  <2> QED BY <2>1, <2>2, <2>3, <2>4 DEF PadAsDecided
<1> QED BY <1>1, PacketInvariant, StickInvariant, PTL
=============================================================================
