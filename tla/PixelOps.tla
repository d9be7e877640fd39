------------------------------- MODULE PixelOps -------------------------------
(***************************************************************************)
(* Arithmetic on pixels: the predictors and colour deltas of the encoder,   *)
(* their counterparts of the decoder, the rounding of the near-lossless     *)
(* passes and the packing of palette numbers.  A pixel is <<alpha, red,     *)
(* green, blue>>, each 0..255.                                              *)
(***************************************************************************)
EXTENDS Integers, Sequences, FiniteSetsExt, Functions

Channels == 1..4
Byte == 0..255
Pixel == Byte \X Byte \X Byte \X Byte
ARGBBlack == <<255, 0, 0, 0>>
Zero == <<0, 0, 0, 0>>
Channelwise(Op(_, _), a, b) == <<Op(a[1], b[1]), Op(a[2], b[2]), Op(a[3], b[3]), Op(a[4], b[4])>>
Absolute(d) == IF d < 0 THEN -d ELSE d
Int8(v) == IF v > 127 THEN v - 256 ELSE v
ClampByte(v) == IF v < 0 THEN 0 ELSE IF v > 255 THEN 255 ELSE v
Half(d) == IF d < 0 THEN -((-d) \div 2) ELSE d \div 2      \* towards zero

SubPixels(a, b) == LET sub(u, v) == (u - v) % 256 IN Channelwise(sub, a, b)
AddPixels(a, b) == LET add(u, v) == (u + v) % 256 IN Channelwise(add, a, b)
Avg2(a, b) == LET avg(u, v) == (u + v) \div 2 IN Channelwise(avg, a, b)

Far(p, q) == LET far(u, v) == Absolute(u - v)
                 d == Channelwise(far, p, q)
             IN  d[1] + d[2] + d[3] + d[4]
SelectPred(left, top, topLeft) == IF Far(left, topLeft) - Far(top, topLeft) <= 0 THEN top ELSE left
SelectPredictor(left, top, topLeft) == IF Far(left, topLeft) - Far(top, topLeft) <= 0 THEN top ELSE left
ClampAddSubFull(a, b, c) == [k \in Channels |-> ClampByte(a[k] + b[k] - c[k])]
ClampAddSubHalf(avg, c) == [k \in Channels |-> ClampByte(avg[k] + Half(avg[k] - c[k]))]

\* The predictors by number; the eleventh is one side's own.
Predicted(mode, left, top, topRight, topLeft, selected) ==
    CASE mode = 1 -> left
      [] mode = 2 -> top
      [] mode = 3 -> topRight
      [] mode = 4 -> topLeft
      [] mode = 5 -> Avg2(Avg2(left, topRight), top)
      [] mode = 6 -> Avg2(left, topLeft)
      [] mode = 7 -> Avg2(left, top)
      [] mode = 8 -> Avg2(topLeft, top)
      [] mode = 9 -> Avg2(top, topRight)
      [] mode = 10 -> Avg2(Avg2(left, topLeft), Avg2(top, topRight))
      [] mode = 11 -> selected
      [] mode = 12 -> ClampAddSubFull(left, top, topLeft)
      [] mode = 13 -> ClampAddSubHalf(Avg2(left, top), topLeft)
      [] OTHER -> ARGBBlack

-----------------------------------------------------------------------------
(* Green and colours *)

SubtractGreenPixel(p) == <<p[1], (p[2] - p[3]) % 256, p[3], (p[4] - p[3]) % 256>>
AddGreen(p) == <<p[1], (p[2] + p[3]) % 256, p[3], (p[4] + p[3]) % 256>>

\* Multipliers are <<greenToRed, greenToBlue, redToBlue>>, each -128..127.
Delta(m, color) == (m * Int8(color)) \div 32
ColorTransformDelta(m, color) == Int8(Delta(m, color) % 256)
ApplyColorTransformPixel(m, p) ==
    <<p[1], (p[2] - ColorTransformDelta(m[1], p[3])) % 256, p[3],
      (p[4] - ColorTransformDelta(m[2], p[3]) - ColorTransformDelta(m[3], p[2])) % 256>>
\* Packed as blue, green and red of a pixel of the sub-image, and read from there.
PackMultipliers(m) == <<0, m[3] % 256, m[2] % 256, m[1] % 256>>
ColorInversePixel(code, p) ==
    LET red == (p[2] + Delta(Int8(code[4]), p[3])) % 256
    IN  <<p[1], red, p[3], (p[4] + Delta(Int8(code[3]), p[3]) + Delta(Int8(code[2]), red)) % 256>>

-----------------------------------------------------------------------------
(* Near-lossless *)

\* mutant: the value is raised by a whole step before it is cut down.
FindClosestDiscretizedUp(a, bits) ==
    LET biased == a + 2^bits - 1 + ((a \div 2^bits) % 2)
    IN  IF biased > 255 THEN 255 ELSE biased - (biased % 2^bits)
FindClosestDiscretized(a, bits) ==
    LET biased == a + (2^bits - 1) \div 2 + ((a \div 2^bits) % 2)
    IN  IF biased > 255 THEN 255 ELSE biased - (biased % 2^bits)
ClosestDiscretizedArgb(p, bits) == [k \in Channels |-> FindClosestDiscretized(p[k], bits)]
IsNear(a, b, limit) == \A k \in Channels : Absolute(a[k] - b[k]) < limit
IsSmooth(prevRow, currRow, nextRow, x, limit) ==
    /\ IsNear(currRow[x], currRow[x - 1], limit)
    /\ IsNear(currRow[x], currRow[x + 1], limit)
    /\ IsNear(currRow[x], prevRow[x], limit)
    /\ IsNear(currRow[x], nextRow[x], limit)
MaxLimitBits == 5
NearLosslessBits(quality) == MaxLimitBits - quality \div 20
NearPixel(prevRow, currRow, nextRow, x, bits) ==
    IF x \in {0, Cardinality(DOMAIN currRow) - 1} \/ IsSmooth(prevRow, currRow, nextRow, x, 2^bits) THEN currRow[x]
    ELSE ClosestDiscretizedArgb(currRow[x], bits)

-----------------------------------------------------------------------------
(* Palettes *)

Darker(c, d) == \E k \in Channels : c[k] < d[k] /\ \A j \in 1..k - 1 : c[j] = d[j]
SortedColors(colors) ==
    [i \in 0..Cardinality(colors) - 1 |-> CHOOSE c \in colors : Cardinality({d \in colors : Darker(d, c)}) = i]
\* A colour the table does not hold ends the probe at a slot that says 0.
Lookup(palette, c) == IF \E i \in DOMAIN palette : palette[i] = c
                      THEN CHOOSE i \in DOMAIN palette : palette[i] = c
                      ELSE 0
\* Numbers of so many bits, the first in the lowest.
PackedWord(indices, bitsPerPixel) ==
    LET few == Cardinality(DOMAIN indices)
        lowest[k \in 0..few] ==
            IF k = 0 THEN 0
            ELSE lowest[k - 1] + (indices[k - 1] % 2^bitsPerPixel) * 2^((k - 1) * bitsPerPixel)
    IN  <<255, 0, lowest[few], 0>>
IndexIn(word, k, bitsPerPixel) == (word[3] \div 2^(k * bitsPerPixel)) % 2^bitsPerPixel

DeltaPalette(palette) ==
    [i \in DOMAIN palette |-> IF i = 0 THEN palette[0] ELSE SubPixels(palette[i], palette[i - 1])]
\* The map has a colour for every number its bits can say, unused ones zero.
ExpandColorMap(deltas, bits) ==
    LET map[i \in 0..2^(8 \div 2^bits) - 1] ==
            IF i = 0 THEN deltas[0] ELSE IF i \in DOMAIN deltas THEN AddPixels(deltas[i], map[i - 1]) ELSE Zero
    IN  map
=============================================================================
