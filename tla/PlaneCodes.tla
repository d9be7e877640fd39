----------------------------- MODULE PlaneCodes -----------------------------
(***************************************************************************)
(* Distances of a backward reference as the bitstream writes them.  The    *)
(* 120 pixels closest to the current one, above it or to its left, have    *)
(* codes of their own, in the order of CodeToPlane; any other distance is  *)
(* written as itself plus 120.                                             *)
(***************************************************************************)
EXTENDS Integers, Sequences

CodeToPlaneCodesCount == 120

\* Sixteen times the rows up, plus eight less the columns to the left.
CodeToPlane ==
    <<24, 7, 23, 25, 40, 6, 39, 41, 22, 26, 38, 42, 56, 5, 55, 57, 21, 27,
      54, 58, 37, 43, 72, 4, 71, 73, 20, 28, 53, 59, 70, 74, 36, 44, 88,
      69, 75, 52, 60, 3, 87, 89, 19, 29, 86, 90, 35, 45, 68, 76, 85, 91,
      51, 61, 104, 2, 103, 105, 18, 30, 102, 106, 34, 46, 84, 92, 67, 77,
      101, 107, 50, 62, 120, 1, 119, 121, 83, 93, 17, 31, 100, 108, 66, 78,
      118, 122, 33, 47, 117, 123, 49, 63, 99, 109, 82, 94, 0, 116, 124, 65,
      79, 16, 32, 98, 110, 48, 115, 125, 81, 95, 64, 114, 126, 97, 111, 80,
      113, 127, 96, 112>>

\* The code of a place, which planeToCodeLUT holds less one.
PlaneToCode(place) == CHOOSE i \in 1..CodeToPlaneCodesCount : CodeToPlane[i] = place

\* A pixel is at most eight columns to the left, or seven to the right in a
\* row further up.
DistanceToPlaneCode(xsize, dist) ==
    LET yoffset == dist \div xsize
        xoffset == dist - yoffset * xsize
    IN  IF xoffset <= 8 /\ yoffset < 8 THEN PlaneToCode(16 * yoffset + 8 - xoffset)
        ELSE IF xoffset > xsize - 8 /\ yoffset < 7
             THEN PlaneToCode(16 * (yoffset + 1) + 8 + (xsize - xoffset))
        ELSE dist + CodeToPlaneCodesCount

\* Below one, and past 30 bits, a distance is one.
PlaneCodeToDistance(xsize, planeCode) ==
    LET yoffset == CodeToPlane[planeCode] \div 16
        xoffset == 8 - (CodeToPlane[planeCode] % 16)
        dist == yoffset * xsize + xoffset
    IN  CASE planeCode <= 0 -> 1
          [] planeCode > CodeToPlaneCodesCount -> planeCode - CodeToPlaneCodesCount
          [] OTHER -> IF (yoffset > 0 /\ xsize > 1073741824 \div yoffset) \/ dist < 1
                      THEN 1 ELSE dist

\* Lengths and distance codes are written as a prefix code, and bits that say
\* which of the values of that code it is.
BitsLog2Floor(n) == CHOOSE b \in 0..30 : 2^b <= n /\ n < 2^(b + 1)
PrefixEncode(value) ==
    LET high == BitsLog2Floor(value - 1)
    IN  IF value - 1 < 2 THEN [code |-> value - 1, bits |-> 0, extra |-> 0]
        ELSE [code |-> 2 * high + (((value - 1) \div 2^(high - 1)) % 2),
              bits |-> high - 1, extra |-> (value - 1) % 2^(high - 1)]

\* getCopyDistance, which also reads lengths: the code says how many of the
\* bits that were written after it are read.
GetCopyDistance(prefix) ==
    LET bits == (prefix.code - 2) \div 2
    IN  IF prefix.code < 4 THEN prefix.code + 1
        ELSE (2 + (prefix.code % 2)) * 2^bits + (prefix.extra % 2^bits) + 1

=============================================================================
