------------------------------ MODULE MCEntropy ------------------------------
(***************************************************************************)
(* Pictures for the grouping of histograms.  Most are one column of tiles   *)
(* of 32 by 32 pixels: fewer tokens in a tile are never worth codes of      *)
(* their own.                                                               *)
(***************************************************************************)
EXTENDS Histograms

Tinted(r, g, b, times) == [mode |-> "literal", a |-> 255, r |-> r, g |-> g, b |-> b, len |-> 1, times |-> times]
Grey(g, times) == Tinted(0, g, 0, times)
CopyOf(len, dist) == [mode |-> "copy", len |-> len, dist |-> dist, times |-> 1]
Cached(idx, times) == [mode |-> "cache", idx |-> idx, len |-> 1, times |-> times]

\* A tile of four greys, in shares of 64 pixels of its 1024.
Four(a, b, c, d) ==
    SelectSeq(<<Grey(20, 64 * a), Grey(60, 64 * b), Grey(100, 64 * c), Grey(140, 64 * d)>>, LAMBDA v : v.times > 0)
Column(tiles, quality) ==
    [refs |-> FlattenSeq(tiles), xsize |-> 32, bits |-> 5, quality |-> quality, cacheBits |-> 2,
     ysize |-> FoldLeft(LAMBDA n, v : n + v.len * v.times, 0, FlattenSeq(tiles)) \div 32]

Dark == Four(12, 4, 0, 0)
Light == Four(0, 1, 3, 12)
Flat == Four(0, 0, 0, 16)
Warm == <<Tinted(40, 60, 0, 512), Tinted(90, 60, 9, 512)>>
Noise == <<Tinted(7, 20, 5, 256), Tinted(70, 90, 60, 256), Tinted(130, 160, 120, 256), Tinted(200, 250, 190, 256)>>
Many == <<Cached(1, 500), Cached(3, 500), CopyOf(24, 3)>>
\* A copy that covers the next tile, and one that covers it and a half more.
Long == <<Grey(20, 1020), CopyOf(1028, 1)>>
Longer == <<Grey(100, 1000), CopyOf(1560, 121), Grey(20, 512)>>

Small == {<<a, b, c, d>> : a \in {Dark, Warm}, b \in {Dark, Light, Many}, c \in {Dark, Flat, Long}, d \in {Light, Noise, Longer}}
Six == <<Four(2, 1, 0, 13), Four(4, 12, 0, 0), Four(0, 3, 4, 9), Four(0, 15, 0, 1), Four(0, 8, 7, 1), Four(0, 1, 0, 15)>>
Nine == Six \o <<Noise, Long, Warm>>
Twelve == <<Warm, Dark, Noise, Light, Many, Warm, Flat, Noise, Dark, Light, Many, Flat>>
Large == Twelve \o Six

\* Four tiles of four by four pixels, in rows.
Square(quality) ==
    [refs |-> [k \in 1..16 |-> Grey(IF k % 2 = 0 THEN 20 ELSE 140, 4)], xsize |-> 8, ysize |-> 8, bits |-> 2,
     quality |-> quality, cacheBits |-> 0]

MCPictures ==
    {Column(s, q) : s \in Small, q \in {10, 80, 95}}
      \cup {Column(s, q) : s \in {Nine, Twelve, Large}, q \in {10, 30, 40, 60, 80, 95, 100}}
      \cup {Square(q) : q \in {10, 80, 95}}
\* A run of equal tokens starts in one tile, as Histograms assumes.
ASSUME RunsStartInOneTile ==
    \A p \in MCPictures : \A k \in DOMAIN p.refs : p.refs[k].times > 1 => p.refs[k].len = 1
=============================================================================
