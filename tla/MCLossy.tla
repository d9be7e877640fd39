------------------------------- MODULE MCLossy -------------------------------
(***************************************************************************)
(* Small pictures for LossyCodec: frames of two to four macroblocks of six  *)
(* kinds, alone and one after another.  Tokens arrive whole, but for the    *)
(* last, for two thirds, or not even the sizes of their partitions.         *)
(***************************************************************************)
EXTENDS LossyCodec

Block(levels) == [n \in 0 .. 15 |-> IF n \in DOMAIN levels THEN levels[n] ELSE 0]
At(n, v) == [k \in {n} |-> v]
Few(v0, v2) == [k \in {0, 2} |-> IF k = 0 THEN v0 ELSE v2]
Plane(n, blocks) == [k \in 0 .. n - 1 |-> IF k \in DOMAIN blocks THEN Block(blocks[k]) ELSE Zeros]
Mixed(a, b) == [k \in 0 .. 15 |-> ((a * k + b) % NumBModes)]
Same(mode) == [k \in 0 .. 15 |-> mode]
None == [k \in {} |-> Zeros]

MB(type, modes, uvMode, dc, y, uv) ==
    [MBType |-> type, Modes |-> modes, UVMode |-> uvMode, dc |-> Block(dc), y |-> Plane(16, y),
     uv |-> Plane(8, uv)]

Flat16 == MB(0, Same(DCPred), DCPred, None, None, None)
Flat4 == MB(1, Mixed(3, 4), VPred, None, None, None)
Full16 == MB(0, Same(TMPred), DCPred, Few(3, -1), [k \in {0, 7, 15} |-> At(1 + (k % 4), 1 + k)],
             At(3, At(0, -2)))
Full4 == MB(1, Mixed(7, 1), HPred, None,
            [k \in {0, 5, 12, 15} |->
                CASE k = 0 -> [n \in {0, 2, 4, 15} |-> <<5, 0, 11, 0, 40>>[IF n = 15 THEN 5 ELSE n + 1]]
                  [] k = 5 -> Few(7, -9)
                  [] k = 12 -> At(15, 4)
                  [] OTHER -> [n \in 0 .. 15 |-> IF n = 3 THEN -70 ELSE IF n \in {1, 5, 9} THEN 20 ELSE 0]],
            [k \in {2, 7} |-> Few(2, k - 5)])
NoDC16 == MB(0, Same(VPred), TMPred, None, [k \in {3, 12} |-> At(3, 2)], At(0, At(0, 3)))
OnlyUV4 == MB(1, Mixed(1, 0), DCPred, None, None, At(4, At(0, 1)))

\* One segment, no filter, one partition, unless changed.
Plain(w, h, mbs) ==
    [w |-> w, h |-> h, mbs |-> mbs, method |-> 4, cpus |-> FALSE, parts |-> 1,
     numSegs |-> 1, quants |-> <<9>>, betas |-> <<0>>, map |-> [i \in 1 .. w * h |-> 0],
     strength |-> 0, simple |-> FALSE, sharpness |-> 0, dqUVDC |-> 0, dqUVAC |-> 0]

Segmented(p, quants, map) ==
    [p EXCEPT !.numSegs = Len(quants), !.quants = quants,
              !.betas = [s \in 1 .. Len(quants) |-> 40 * (s - 1)], !.map = map]
Filtered(p, strength, simple, sharpness) ==
    [p EXCEPT !.strength = strength, !.simple = simple, !.sharpness = sharpness]

Square == Plain(2, 2, <<Full16, Full4, Flat16, OnlyUV4>>)
Square2 == Plain(2, 2, <<Full4, NoDC16, Flat4, Full16>>)
Skips == Plain(2, 2, <<Full16, Flat4, Flat16, Full16>>)
Tall == Plain(1, 3, <<Full16, Full4, Full16>>)
Tall2 == Plain(1, 3, <<NoDC16, Flat4, Full16>>)
Wide == Plain(3, 1, <<Full16, OnlyUV4, NoDC16>>)
Line == Plain(3, 1, <<Full16, Flat16, Full16>>)
Column == Plain(1, 3, <<Full16, Flat4, Full16>>)
Empty == Plain(2, 1, <<Flat16, Flat4>>)

Kinds ==
    {Square, Wide, Line, Column, Empty,
     [Square2 EXCEPT !.method = 2],
     [Tall2 EXCEPT !.method = 2],
     [Tall EXCEPT !.cpus = TRUE],
     [Filtered(Segmented(Tall2, <<4, 12>>, <<1, 0, 1>>), 60, TRUE, 0) EXCEPT !.cpus = TRUE],
     [Tall EXCEPT !.parts = 2],
     [Tall EXCEPT !.parts = 4, !.dqUVDC = -3, !.dqUVAC = 2],
     Filtered(Skips, 60, FALSE, 5),
     Filtered(Segmented(Square, <<5, 9, 9>>, <<2, 0, 1, 2>>), 100, FALSE, 0),
     Filtered(Segmented(Square2, <<3, 8, 3, 14>>, <<3, 2, 1, 0>>), 80, FALSE, 5),
     Segmented(Skips, <<6, 7>>, <<0, 0, 0, 0>>),
     [Segmented(Square2, <<6, 14, 14>>, <<2, 1, 0, 2>>) EXCEPT !.dqUVDC = -4, !.dqUVAC = -2]}

\* What follows on the same encoder and decoder.
Followers == {Square2, Filtered(Skips, 60, FALSE, 5),
              Filtered(Segmented(Tall2, <<4, 12>>, <<1, 0, 1>>), 60, TRUE, 0)}

MCPictures == {<<p>> : p \in Kinds} \cup {<<p, q>> : p \in Kinds, q \in Followers}

MCCuts(n) == {-2, -1, n \div 3, n - 1, n}
=============================================================================
