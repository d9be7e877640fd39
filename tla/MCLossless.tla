----------------------------- MODULE MCLossless ------------------------------
(* Small pictures for LosslessEncoder: matches of up to eight pixels, from  *)
(* two on, hashes and cache slots that collide, and a search by two or      *)
(* three workers from seven pixels on.                                      *)
EXTENDS LosslessEncoder

MCIters(quality) == IF quality <= 75 THEN 3 ELSE 5
MCRows(quality) == IF quality > 50 THEN 3 ELSE IF quality > 25 THEN 2 ELSE 1
MCPairHash(a, b) == (a + 2 * b) % 4
MCColorHash(c) == <<0, 2, 3, 3>>[c + 1]
MCStale == <<LiteralPixel(3), CopyPixel(2, 5)>>

\* The costs of literals by colour, of a hit, of lengths, and of distances of
\* a plane code of up to four and above it.
Model(literal, hit, lens, near, far) ==
    [lit |-> [c \in 0..3 |-> literal + c], hit |-> hit, len |-> [k \in 0..7 |-> lens[k + 1]],
     dist |-> [d \in 1..140 |-> IF d <= 4 THEN near ELSE far]]
Even == Model(4, 3, <<1, 1, 2, 2, 3, 3, 3, 3>>, 2, 3)
Dear == Model(3, 2, <<0, 4, 4, 4, 4, 4, 4, 4>>, 0, 7)
Cheap == Model(2, 1, <<1, 3, 3, 3, 3, 1, 1, 1>>, 0, 0)

Picture(w, h, pixels, quality, procs, tiles, cm) ==
    [argb |-> [i \in 0..w * h - 1 |-> pixels[i + 1]], width |-> w, height |-> h,
     quality |-> quality, procs |-> procs, tiles |-> tiles, cm |-> cm]

\* Tilings of four by three pixels in tiles of two by two.
OneSymbol == [t \in 0..3 |-> 0]
Tiles(s) == [t \in 0..Len(s) - 1 |-> s[t + 1]]

\* Four by three pixels: the first row free, the others by a rule.
Rows == [1..4 -> {0, 1}] \cup {<<2, 2, 3, 2>>, <<3, 3, 3, 1>>, <<0, 2, 3, 0>>}
Shift(r, by) == [k \in 1..4 |-> r[((k + by) % 4) + 1]]
Below(r, rule) == CASE rule = "same" -> r \o r
                    [] rule = "shift" -> Shift(r, 0) \o Shift(r, 1)
                    [] rule = "flat" -> <<r[1], r[1], r[1], r[1]>> \o Shift(r, 3)
Settings == {<<90, 1, Tiles(<<0, 1, 0, 1>>), Dear>>, <<100, 3, Tiles(<<0, 1, 1, 0>>), Even>>,
             <<60, 2, Tiles(<<0, 0, 1, 1>>), Even>>, <<20, 2, OneSymbol, Even>>}
Small == {Picture(4, 3, r \o Below(r, rule), s[1], s[2], s[3], s[4]) :
              r \in Rows, rule \in {"same", "shift", "flat"}, s \in Settings}

\* Six by three, whose matches overlap in many ways.
Long == {<<2, 1, 2, 1, 1, 2, 1, 2, 1, 2, 1, 1, 2, 1, 1, 2, 1, 1>>,
         <<2, 1, 0, 2, 2, 2, 2, 0, 2, 2, 2, 2, 2, 2, 0, 0, 2, 2>>,
         <<0, 0, 1, 0, 0, 1, 0, 0, 1, 0, 0, 1, 0, 0, 1, 0, 0, 1>>,
         <<1, 0, 2, 1, 2, 1, 2, 1, 2, 1, 1, 0, 2, 1, 2, 1, 1, 2>>,
         <<0, 0, 2, 1, 2, 1, 1, 2, 1, 2, 1, 1, 2, 1, 1, 2, 1, 2>>,
         <<3, 3, 3, 3, 3, 3, 3, 3, 3, 3, 3, 3, 3, 3, 1, 0, 0, 1>>,
         <<1, 1, 1, 1, 1, 1, 1, 1, 1, 1, 1, 1, 1, 1, 1, 1, 1, 1>>}
Large == {Picture(6, 3, pixels, 100, n, Tiles(<<0, 1, 1, 0, 1, 1>>), cm) :
              pixels \in Long, n \in {1, 3}, cm \in {Dear, Cheap}}

\* Three by five: three rows of tiles, of which the last has no pair.
Tall == {Picture(3, 5, <<1, 0, 1, 1, 0, 1, 1, 0, 1, 2, 2, 2, 2, 2, 0>>, 60, 1, Tiles(t), Even) :
             t \in {<<0, 0, 0, 0, 0, 1>>, <<0, 0, 0, 0, 1, 1>>, <<0, 1, 0, 1, 1, 1>>}}

MCPictures == Small \cup Large \cup Tall
=============================================================================
