------------------------------- MODULE Strings -------------------------------
(***************************************************************************)
(* Strings in buffers (src/include/util/strutil), as sequences of          *)
(* characters without the NUL that ends them: a caller's buffer and what   *)
(* the last call made of it.                                               *)
(***************************************************************************)
EXTENDS Integers, Sequences, FiniteSets, SequencesExt, FiniteSetsExt

CONSTANTS
  Texts,      \* strings that a caller has
  Size,       \* the size of the buffer
  Blanks,     \* the characters that are trimmed
  Patterns,   \* the wildcards that are registered
  Sections    \* the names they are tried on

VARIABLES
  text,   \* the string in the buffer
  call    \* the last call: what it did, to what and with what, and what it returned

vars == <<text, call>>

TypeOK == Len(text) < Size /\ call.kind \in {"none", "copy", "cat", "trim", "ltrim", "rtrim", "wildcard"}

Init == text = <<>> /\ call = [kind |-> "none"]

-----------------------------------------------------------------------------
\* strutilCopy: the string that is left in the buffer, and the characters copied with the NUL.
Copy(src, max) ==
  IF max = 0 THEN [text |-> <<>>, ret |-> 0]
  ELSE LET n == Min({Len(src), max - 1}) IN [text |-> SubSeq(src, 1, n), ret |-> n + 1]

NCopy(src, n, max) == Copy(src, IF n + 1 > max THEN max ELSE n + 1)

\* strutilCat of a string that has its NUL in the buffer.
Cat(dest, src, max) ==
  LET off  == Len(dest)
      more == Copy(src, max - off)
  IN  IF max = off THEN [text |-> dest, ret |-> off]
      ELSE [text |-> dest \o more.text, ret |-> off + more.ret]

\* strutilCounterPbrk: where the first character is that is not a blank. For none it returns a
\* place in the string of blanks instead, Elsewhere.
Elsewhere == -1
CounterPbrk(src) ==
  LET i == SelectInSeq(src, LAMBDA c : c \notin Blanks) IN IF i = 0 THEN Elsewhere ELSE i

\* strutilCounterReversePbrk: the first character is looked at last, and if it is none of the
\* blanks NULL is returned: 0.
CounterReversePbrk(src) ==
  LET i == SelectLastInSeq(src, LAMBDA c : c \notin Blanks)
  IN  CASE i = 0 -> Elsewhere [] i = 1 -> 0 [] OTHER -> i

Trim(str) ==
  LET kept == SelectSeq(str, LAMBDA c : c \notin Blanks)
  IN  [text |-> kept, ret |-> Len(str) - Len(kept)]

\* strutilLTrim: of blanks alone nothing is left, and the number returned means nothing.
LTrim(str) ==
  LET i == CounterPbrk(str)
  IN  IF i = Elsewhere THEN [text |-> <<>>, ret |-> Elsewhere]
      ELSE [text |-> SubSeq(str, i, Len(str)), ret |-> i - 1]

\* strutilRTrim: blanks alone are left, and the string of blanks is cut instead.
RTrim(str) ==
  LET i == CounterReversePbrk(str)
  IN  CASE i = Elsewhere -> [text |-> str, ret |-> Elsewhere]
        [] i = 0 -> [text |-> str, ret |-> 0]
        [] OTHER -> [text |-> SubSeq(str, 1, i), ret |-> Len(str) - i]

\* strutil_wildcard_test from places in the wildcard and in the name: the wildcard's place is
\* taken back when they differ, the name's is not.
WildcardTest(wc, name, i, j) ==
  LET run  == CHOOSE n \in 0 .. Len(wc) :
                /\ i + n = Len(wc) + 1 \/ (i + n <= Len(wc) /\ wc[i + n] = "*")
                /\ \A k \in 0 .. n - 1 : wc[i + k] # "*"
      Alike(k) == j + k <= Len(name) /\ wc[i + k] \in {"?", name[j + k]}
      bad  == {k \in 0 .. run - 1 : ~Alike(k)}
  IN  IF bad = {} THEN [ok |-> TRUE, i |-> i + run, j |-> j + run]
      ELSE [ok |-> FALSE, i |-> i, j |-> j + Min(bad)]

Wildcard(wc, name) ==
  LET matches[i \in 1 .. Len(wc) + 1, j \in 1 .. Len(name) + 1] ==
        IF i > Len(wc) THEN TRUE
        ELSE LET test == WildcardTest(wc, name, IF wc[i] = "*" THEN i + 1 ELSE i, j) IN
             IF test.ok THEN matches[test.i, test.j]
             ELSE wc[i] = "*" /\ test.j <= Len(name) /\ matches[i, test.j + 1]
  IN  matches[1, 1]

-----------------------------------------------------------------------------
Called(kind, arg, did) ==
  /\ text' = did.text
  /\ call' = [kind |-> kind, old |-> text, arg |-> arg, ret |-> did.ret]

\* A string is copied, all of it or its first n characters, or appended, as is done with titles,
\* messages, labels and the names of buttons.
Write ==
  \E src \in Texts :
    \/ Called("copy", src, Copy(src, Size))
    \/ \E n \in 0 .. Size : Called("copy", SubSeq(src, 1, Min({n, Len(src)})), NCopy(src, n, Size))
    \/ Called("cat", src, Cat(text, src, Size))

Cut ==
  \/ Called("trim", Blanks, Trim(text))
  \/ Called("ltrim", Blanks, LTrim(text))
  \/ Called("rtrim", Blanks, RTrim(text))

\* __inimgr_find_callback tries a wildcard on the name of a section.
Find ==
  \E wc \in Patterns, name \in Sections :
    Called("wildcard", <<wc, name>>, [text |-> text, ret |-> Wildcard(wc, name)])

Next == Write \/ Cut \/ Find

Spec == Init /\ [][Next]_vars

-----------------------------------------------------------------------------
\* What is copied or appended is cut where the buffer ends and nowhere else, with room for the
\* NUL that the number returned counts; what is trimmed loses blanks alone, all of them or those
\* at its end.  strutilRTrim leaves a string whose only other character is the first one as it
\* is, and one of blanks alone, although strutil.h says that they are removed.
CutAsAsked ==
  LET whole == IF call.kind = "cat" THEN call.old \o call.arg ELSE call.arg IN
  /\ call.kind \in {"copy", "cat"} =>
       /\ text = SubSeq(whole, 1, Min({Len(whole), Size - 1}))
       /\ call.ret = Len(text) + 1
  /\ call.kind = "trim" => ToSet(text) \cap Blanks = {} /\ call.ret = Len(call.old) - Len(text)
  /\ call.kind \in {"ltrim", "rtrim"} =>
       LET lost == IF call.kind = "ltrim" THEN SubSeq(call.old, 1, Len(call.old) - Len(text))
                   ELSE SubSeq(call.old, Len(text) + 1, Len(call.old))
           rest == IF call.kind = "ltrim" THEN text ELSE Reverse(text)
       IN  /\ call.old = (IF call.kind = "ltrim" THEN lost \o text ELSE text \o lost)
           /\ ToSet(lost) \subseteq Blanks
           /\ \/ rest = <<>> \/ Head(rest) \notin Blanks
              \/ call.kind = "rtrim" /\ ToSet(Tail(text)) \subseteq Blanks
           /\ call.ret \in {Len(lost), Elsewhere}

\* A name with which a registered wildcard begins finds its callback, and no other name does:
\* the star at its end is not needed, so that a wildcard without one finds longer names, too.
WildcardFinds ==
  call.kind = "wildcard" =>
    LET wc   == call.arg[1]
        word == IF wc # <<>> /\ Last(wc) = "*" THEN Front(wc) ELSE wc
    IN  call.ret = IsPrefix(word, call.arg[2])
=============================================================================
