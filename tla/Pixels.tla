-------------------------------- MODULE Pixels --------------------------------
(***************************************************************************)
(* What the functions of src/include/graphic/pb put: the pixels of a       *)
(* figure and of a text, the color of a pixel.  One drawing at a time.     *)
(***************************************************************************)
EXTENDS Integers, Sequences, FiniteSets, SequencesExt, FiniteSetsExt

CONSTANTS
  Places,   \* coordinates
  Radii,
  Texts,    \* sequences of kinds of bytes: see Step
  Sjis,     \* PB_SJIS_SUPPORT
  PrintfSize,   \* the size of pbPrintf's buffer: 255
  Levels,   \* levels of a channel, 0 .. 255
  Rows      \* misaki8x8.c: the number of glyphs of each row of characters that is there

VARIABLES
  figure,   \* the drawing that was asked for, with its arguments
  put       \* the pixels of a figure, the end of a text, the color of a pixel

vars == <<figure, put>>

None     == [kind |-> "none"]
TypeOK == figure.kind \in {"none", "line", "rect", "fill", "circle", "text", "printf", "color", "glyph"}
Init == figure = None /\ put = {}

Abs(a)       == IF a < 0 THEN -a ELSE a

-----------------------------------------------------------------------------
(* Figures. *)

Point(x, y) == <<x, y>>

\* The steps over the shorter side while the longer one is walked.
Sides(long, short) ==
  FoldLeft(LAMBDA done, i :
             LET e == done.e + short IN
             IF e > long THEN [e |-> e - long, at |-> Append(done.at, Last(done.at) + 1)]
             ELSE [e |-> e, at |-> Append(done.at, Last(done.at))],
           [e |-> 0, at |-> <<0>>], [i \in 1 .. long + 1 |-> i]).at

\* pbLine: the ends are swapped in x and in y, each for itself.
Line(sx, sy, ex, ey) ==
  LET x  == Min({sx, ex})
      y  == Min({sy, ey})
      dx == Max({sx, ex}) - x
      dy == Max({sy, ey}) - y
  IN  IF dx = 0 THEN {Point(x, y + i) : i \in 0 .. dy}
      ELSE IF dy = 0 THEN {Point(x + i, y) : i \in 0 .. dx}
      ELSE IF dx > dy THEN {Point(x + i, y + Sides(dx, dy)[i + 2]) : i \in 0 .. dx}
      ELSE {Point(x + Sides(dy, dx)[i + 2], y + i) : i \in 0 .. dy}

LineRect(sx, sy, ex, ey) ==
  Line(sx, sy, ex, sy) \cup Line(ex, sy, ex, ey) \cup Line(ex, ey, sx, ey) \cup Line(sx, ey, sx, sy)

FillRect(sx, sy, ex, ey) ==
  {Point(x, y) : x \in Min({sx, ex}) .. Max({sx, ex}) - 1, y \in Min({sy, ey}) .. Max({sy, ey}) - 1}

\* The eight points of pbLineCircle for one of the circle.
Eight(x, y, cx, cy) ==
  {Point(x + a * cy, y + b * cx) : a, b \in {-1, 1}} \cup {Point(x + a * cx, y + b * cy) : a, b \in {-1, 1}}

\* pbLineCircle: one round of the loop for each cx up to cy.
Round(now) ==
  LET d  == now.d + (IF now.d >= 0 THEN 10 + 4 * now.cx - 4 * now.cy ELSE 6 + 4 * now.cx)
      cy == IF now.d >= 0 THEN now.cy - 1 ELSE now.cy
  IN  [cx |-> now.cx + 1, cy |-> cy, d |-> d, at |-> now.at \cup {<<now.cx, cy>>}]
LineCircle(x, y, radius) ==
  LET ends == [cx |-> 0, cy |-> radius, d |-> 3 - 2 * radius, at |-> {}]
      arc  == FoldLeft(LAMBDA now, i : IF now.cx <= now.cy THEN Round(now) ELSE now,
                       ends, [i \in 1 .. radius + 1 |-> i]).at
  IN  IF radius = 0 THEN {} ELSE Eight(x, y, 0, radius) \cup UNION {Eight(x, y, p[1], p[2]) : p \in arc}

-----------------------------------------------------------------------------
(* Text.  Bytes are of these kinds: "ascii", "newline"; and those from 0x80 on, which with   *)
(* PB_SJIS_SUPPORT are "kana", of half width, or "wide", the first or second byte of two.    *)

CharWidth  == 6
WcharWidth == 8
CharHeight == 8

\* One round of the loop of pbPrint, of which the rest of the text is str.
PrintOne(at, str) ==
  IF Head(str) = "newline" THEN [x |-> 0, y |-> at.y + CharHeight, bytes |-> 1]
  ELSE IF Sjis /\ Head(str) = "wide"
  THEN IF Len(str) > 1 THEN [at EXCEPT !.x = @ + WcharWidth, !.bytes = 2] ELSE [at EXCEPT !.bytes = 1]
  ELSE [at EXCEPT !.x = @ + CharWidth, !.bytes = 1]

\* pbPrint: the end of the text and the number of its bytes.
PbPrint(str) ==
  LET walk == FoldLeft(LAMBDA now, i :
                IF now.i >= Len(str) THEN now
                ELSE LET next == PrintOne(now.at, SubSeq(str, now.i + 1, Len(str)))
                     IN  [at |-> next, i |-> now.i + next.bytes],
                [at |-> [x |-> 0, y |-> 0, bytes |-> 0], i |-> 0], str)
  IN  [x |-> walk.at.x, y |-> walk.at.y, i |-> walk.i]

PbPutChar(chr) == PbPrint(<<chr>>)

\* pbPrintf: as much of the text as there is room for.
PbPrintf(str) == PbPrint(SubSeq(str, 1, Min({Len(str), PrintfSize - 1})))

\* pbMeasureNString: n is negative for all of the text, pbMeasureString.
MeasureNString(str, n) ==
  FoldLeft(LAMBDA now, i :
    IF now.i >= Len(str) \/ now.n = 0 THEN now
    ELSE LET n1   == IF now.n > 0 THEN now.n - 1 ELSE now.n
             wide == Sjis /\ str[now.i + 1] = "wide"
         IN  IF wide /\ n1 # 0 /\ now.i + 1 < Len(str)
             THEN [len |-> now.len + WcharWidth, i |-> now.i + 2, n |-> n1 - 1]
             ELSE [len |-> IF wide THEN now.len ELSE now.len + CharWidth, i |-> now.i + 1, n |-> n1],
    [len |-> 0, i |-> 0, n |-> n], str).len

\* pb_get_glyph_index_by_sjis: bytes are of eight bits.
GlyphIndexBySjis(hi, lo) ==
  LET first  == (hi - 129 - (IF hi > 159 THEN 64 ELSE 0)) % 256
      second == lo - 64 - (IF lo > 126 THEN 1 ELSE 0)
      row    == (2 * first + (IF second > 93 THEN 1 ELSE 0)) % 256
      cell   == second % 94
  IN  IF row >= 15 THEN (row - 7) * 94 + cell - 1 ELSE row * 94 + cell

-----------------------------------------------------------------------------
(* Colors.  A pixel of 16 bits is a number; one of 32 bits is its bytes.   *)

Color(r, g, b, a) == [red |-> r, green |-> g, blue |-> b, alpha |-> a]

ColorGet8888(c) == <<c.red, c.green, c.blue, c.alpha>>
ColorGet4444(c) ==
  c.red \div 16 + 16 * (c.green \div 16) + 256 * (c.blue \div 16) + 4096 * (c.alpha \div 16)
ColorGet5551(c) ==
  c.red \div 8 + 32 * (c.green \div 8) + 1024 * (c.blue \div 8) + (IF c.alpha > 127 THEN 32768 ELSE 0)
ColorGet5650(c) == c.red \div 8 + 32 * (c.green \div 4) + 2048 * (c.blue \div 8)

ColorParse8888(p) == Color(p[1], p[2], p[3], p[4])
ColorParse4444(p) ==
  Color(16 * (p % 16), 16 * ((p \div 16) % 16), 16 * ((p \div 256) % 16), 16 * ((p \div 4096) % 16))
ColorParse5551(p) ==
  Color(8 * (p % 32), 8 * ((p \div 32) % 32), 8 * ((p \div 1024) % 32), IF p >= 32768 THEN 255 ELSE 0)
ColorParse5650(p) ==
  Color(8 * (p % 32), 4 * ((p \div 32) % 64), 8 * ((p \div 2048) % 32), 255)

Get(format, c) ==
  CASE format = "8888" -> ColorGet8888(c) [] format = "4444" -> ColorGet4444(c)
    [] format = "5551" -> ColorGet5551(c) [] OTHER -> ColorGet5650(c)
Parse(format, p) ==
  CASE format = "8888" -> ColorParse8888(p) [] format = "4444" -> ColorParse4444(p)
    [] format = "5551" -> ColorParse5551(p) [] OTHER -> ColorParse5650(p)

\* PB_BLEND_FUNC with 8 bits: the shift of a negative number is to the next lower one.
BlendFunc(src, dst, alpha) == ((src + 1 - dst) * alpha) \div 256 + dst

\* pb_color_blend_*: the alpha of what is put is not set when the color is neither transparent
\* nor opaque; it is "any".
Blend(format, c, pixel, any) ==
  LET d == Parse(format, pixel) IN
  IF c.alpha = 0 THEN pixel
  ELSE IF c.alpha = 255 THEN Get(format, c)
  ELSE Get(format, Color(BlendFunc(c.red, d.red, c.alpha), BlendFunc(c.green, d.green, c.alpha),
                         BlendFunc(c.blue, d.blue, c.alpha), any))

-----------------------------------------------------------------------------
Asked(f, result) == figure = None /\ figure' = f /\ put' = result

Figures ==
  \E sx, sy, ex, ey \in Places :
    LET args == <<sx, sy, ex, ey>> IN
    \/ Asked([kind |-> "line", args |-> args], Line(sx, sy, ex, ey))
    \/ Asked([kind |-> "rect", args |-> args], LineRect(sx, sy, ex, ey))
    \/ Asked([kind |-> "fill", args |-> args], FillRect(sx, sy, ex, ey))

Circle == \E r \in Radii : Asked([kind |-> "circle", args |-> r], LineCircle(0, 0, r))

Text ==
  \/ \E str \in Texts : \/ Asked([kind |-> "text", args |-> str], PbPrint(str))
                        \/ Asked([kind |-> "printf", args |-> str], PbPrintf(str))
  \/ \E chr \in {"ascii", "newline"} : Asked([kind |-> "text", args |-> <<chr>>], PbPutChar(chr))

\* A color is blended with a pixel that has been put.
Pixel ==
  \E format \in {"8888", "4444", "5551", "5650"}, src, dst, alpha \in Levels, any \in {0, 255} :
    LET c == Color(src, dst, src, alpha)
        d == Color(dst, src, src, 255)
    IN  Asked([kind |-> "color", format |-> format, src |-> c, dst |-> d],
              Blend(format, c, Get(format, d), any))

Glyph ==
  \E hi \in 129 .. 159 \cup 224 .. 239, lo \in {64, 126, 128, 158, 159, 252} :
    Asked([kind |-> "glyph", args |-> <<hi, lo>>], GlyphIndexBySjis(hi, lo))

\* The next drawing.
Done == figure # None /\ figure' = None /\ put' = {}

Next == Figures \/ Circle \/ Text \/ Pixel \/ Glyph \/ Done

Spec == Init /\ [][Next]_vars

-----------------------------------------------------------------------------
Near(p, q)     == p # q /\ Abs(p[1] - q[1]) <= 1 /\ Abs(p[2] - q[2]) <= 1

\* A line that goes up in both directions, or in none, joins its ends without a gap and leaves the
\* straight line by less than a pixel; the border of a rectangle is the figure without its inside.
\* A line that goes up in one direction and down in the other is drawn between the other two
\* corners: it is not among the lines that the program draws.
FigureAsked ==
  LET a == figure.args IN
  /\ figure.kind = "line" /\ (a[3] - a[1]) * (a[4] - a[2]) >= 0 =>
       /\ {<<a[1], a[2]>>, <<a[3], a[4]>>} \subseteq put
       /\ \A p \in put \ {<<a[1], a[2]>>} : \E q \in put :
            /\ Near(p, q)
            /\ Abs(q[1] - a[1]) + Abs(q[2] - a[2]) < Abs(p[1] - a[1]) + Abs(p[2] - a[2])
       /\ \A p \in put : LET off == (p[1] - a[1]) * (a[4] - a[2]) - (p[2] - a[2]) * (a[3] - a[1])
                         IN  Abs(off) <= Max({Abs(a[3] - a[1]), Abs(a[4] - a[2])})
  /\ figure.kind = "rect" =>
       /\ put \cap FillRect(Min({a[1], a[3]}) + 1, Min({a[2], a[4]}) + 1,
                            Max({a[1], a[3]}), Max({a[2], a[4]})) = {} \/ a[1] = a[3] \/ a[2] = a[4]
       /\ FillRect(a[1], a[2], a[3], a[4]) \subseteq
            put \cup FillRect(Min({a[1], a[3]}) + 1, Min({a[2], a[4]}) + 1,
                              Max({a[1], a[3]}), Max({a[2], a[4]}))

\* A circle is closed, and no point of it is more than a pixel inside or half a pixel outside.
CircleRound ==
  figure.kind = "circle" /\ figure.args > 0 =>
    /\ \A p \in put : LET dd == 4 * (p[1] * p[1] + p[2] * p[2]) IN
         /\ dd <= (2 * figure.args + 1) * (2 * figure.args + 1)
         /\ dd >= (2 * figure.args - 2) * (2 * figure.args - 2)
    /\ \A p \in put : Cardinality({q \in put : Near(p, q)}) >= 2

\* The width that is measured is the one that is printed, for a text of one line, and all of the text
\* is printed, or what pbPrintf has room for; the first bytes of a text are never measured as more.
TextMeasured ==
  figure.kind \in {"text", "printf"} =>
    LET str == figure.args
        n   == IF figure.kind = "text" THEN Len(str) ELSE Min({Len(str), PrintfSize - 1})
    IN  /\ put.i = n
        /\ ~Contains(str, "newline") =>
             /\ n = Len(str) => MeasureNString(str, -1) = put.x
             /\ MeasureNString(str, n) <= put.x

\* Each channel of what is put lies between the color and the pixel that was there, as far as the
\* format can tell; an opaque color replaces the pixel and a transparent one leaves it.
BlendBetween ==
  figure.kind = "color" =>
    LET Seen(c) == Parse(figure.format, Get(figure.format, c))
        r == Parse(figure.format, put)
        s == Seen(figure.src)
        d == Seen(figure.dst)
    IN  /\ \A ch \in {"red", "green", "blue"} :
             r[ch] \in Min({s[ch], d[ch]}) .. Max({s[ch], d[ch]})
        /\ figure.src.alpha = 0 => put = Get(figure.format, figure.dst)
        /\ figure.src.alpha = 255 => put = Get(figure.format, figure.src)

\* A character's glyph is behind those of the rows before its own and the cells before it.  The
\* eighth row is left out: the font's seventh has a glyph too few, which the code makes up for
\* from the sixteenth row on.
GlyphInFont ==
  figure.kind = "glyph" =>
    LET hi == figure.args[1]
        lo == figure.args[2]
        row  == 2 * (hi - (IF hi < 160 THEN 129 ELSE 193)) + (IF lo >= 159 THEN 2 ELSE 1)
        cell == IF lo >= 159 THEN lo - 159 ELSE IF lo >= 128 THEN lo - 65 ELSE lo - 64
    IN  row \in DOMAIN Rows /\ row # 8 /\ cell < Rows[row] =>
          put = MapThenSumSet(LAMBDA r : Rows[r], {q \in DOMAIN Rows : q < row}) + cell
=============================================================================
