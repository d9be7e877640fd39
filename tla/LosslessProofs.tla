---------------------------- MODULE LosslessProofs ----------------------------
(***************************************************************************)
(* The lossless coder for every picture, every option and every number of  *)
(* goroutines.  Both ways of sharing a loop hand out every index exactly   *)
(* once.  The distance the decoder computes from a plane code is the one   *)
(* the encoder made the code from.  Every tile of a transform is handled   *)
(* once.  A picture comes back from the decoder as it was given to the     *)
(* encoder, and one that was rounded first comes back close to it.  For    *)
(* the last two the invariant says which picture lies between any two of   *)
(* the transforms, and how much of it each array holds already.            *)
(***************************************************************************)
EXTENDS Transforms, PlaneCodes, FiniteSetTheorems, TLAPS

\* What \div and % give for naturals.
LEMMA Division ==
  ASSUME NEW n \in Nat, NEW d \in Nat, d >= 1
  PROVE  /\ n \div d \in Nat /\ (n \div d) * d <= n /\ n < (n \div d) * d + d
         /\ n % d \in 0..(d - 1) /\ n = (n \div d) * d + (n % d)
  OBVIOUS

-----------------------------------------------------------------------------
(* Induction over the natural numbers *)

\* A set that holds 0 and the successor of each of its elements holds every
\* natural number: below one it lacks, the successor would map a finite set
\* one to one into a smaller one.
LEMMA CountUp ==
    ASSUME NEW T \in SUBSET Nat, 0 \in T, \A n \in T : n + 1 \in T, NEW m \in Nat
    PROVE  m \in T
<1> SUFFICES ASSUME m \notin T PROVE FALSE
    OBVIOUS
<1> DEFINE S == T \cap (0 .. m)
           succ == [k \in S |-> k + 1]
<1>1. IsFiniteSet(S)
    <2>1. IsFiniteSet(0 .. m) /\ S \subseteq 0 .. m
        BY FS_Interval
    <2>2. QED
        BY <2>1, FS_Subset
<1>2. 0 \in S /\ succ \in [S -> S \ {0}] /\ \A i, j \in S : succ[i] = succ[j] => i = j
    OBVIOUS
<1> HIDE DEF S, succ
<1>3. IsFiniteSet(S \ {0}) /\ Cardinality(S \ {0}) = Cardinality(S) - 1
    BY <1>1, <1>2, FS_RemoveElement
<1>4. Cardinality(S \ {0}) < Cardinality(S)
    BY <1>1, <1>3, FS_CardinalityType
<1>5. \E i, j \in S : i # j /\ succ[i] = succ[j]
    BY <1>1, <1>2, <1>3, <1>4, FS_PigeonHole
<1>6. QED
    BY <1>2, <1>5

\* What Min of a set of natural numbers is.
LEMMA NatMin ==
    ASSUME NEW T \in SUBSET Nat, T # {}
    PROVE  Min(T) \in T /\ \A t \in T : Min(T) <= t
<1>1. \E x \in T : \A t \in T : x <= t
    <2> SUFFICES ASSUME \A x \in T : \E t \in T : ~(x <= t) PROVE FALSE
        OBVIOUS
    <2> DEFINE Below == {n \in Nat : \A m \in 0 .. n : m \notin T}
    <2>1. 0 \in Below
        OBVIOUS
    <2>2. \A n \in Below : n + 1 \in Below
        OBVIOUS
    <2>3. PICK x \in T : TRUE
        OBVIOUS
    <2>4. Below \in SUBSET Nat /\ x \in Nat
        OBVIOUS
    <2>5. \A n \in Below : n \notin T
        OBVIOUS
    <2> HIDE DEF Below
    <2>6. x \in Below
        BY <2>1, <2>2, <2>4, CountUp
    <2>7. QED
        BY <2>3, <2>5, <2>6
<1>2. QED
    BY <1>1 DEF Min

-----------------------------------------------------------------------------
(* Shares of a loop *)

\* A later share starts where an earlier one has ended.
LEMMA Apart ==
  ASSUME NEW r \in Nat, NEW v \in Nat, NEW w \in Nat, v < w
  PROVE  v * r + r <= w * r /\ w * r \in Nat /\ v * r \in Nat
  <1>1. PICK d \in Nat : w = v + 1 + d
    <2>1. w - v - 1 \in Nat /\ w = v + 1 + (w - v - 1)
      OBVIOUS
    <2> QED
      BY <2>1
  <1>2. w * r = v * r + r + d * r /\ d * r \in Nat /\ v * r \in Nat
    BY <1>1
  <1> QED
    BY <1>2

\* The shares are large enough for all of it.
LEMMA Enough ==
  ASSUME NEW n \in Nat, NEW k \in Nat, k >= 1
  PROVE  RoundedUp(n, k) \in Nat /\ n <= k * RoundedUp(n, k)
  <1> DEFINE m == n + k - 1
             r == m \div k
  <1>1. m \in Nat
    OBVIOUS
  <1>2. r \in Nat /\ m < r * k + k
    BY <1>1, Division
  <1>3. RoundedUp(n, k) = r
    BY DEF RoundedUp
  <1> HIDE DEF r
  <1>4. k * r = r * k /\ r * k \in Nat
    BY <1>2
  <1> QED
    BY <1>2, <1>3, <1>4

\* Shares rounded up (the rows of tiles of ResidualImage, the positions of
\* fillParallel, the tiles histogramRemap goes over): each index belongs to the
\* range of exactly one worker, although the last ranges may be short or empty.
THEOREM RoundedUpSharesOnce ==
  ASSUME NEW n \in Nat, NEW k \in Nat, k >= 1, NEW i \in 0..n - 1
  PROVE  \E w \in 0..k - 1 :
           /\ i \in ShareStart(RoundedUp(n, k), w)..ShareEnd(n, RoundedUp(n, k), w) - 1
           /\ \A v \in 0..k - 1 :
                i \in ShareStart(RoundedUp(n, k), v)..ShareEnd(n, RoundedUp(n, k), v) - 1 => v = w
  <1> DEFINE r == RoundedUp(n, k)
  <1>1. r \in Nat /\ n <= k * r
    BY Enough
  <1> HIDE DEF r
  <1>2. r >= 1
    <2>1. CASE r = 0
      <3>1. k * r = 0
        BY <2>1
      <3> QED
        BY <1>1, <3>1
    <2> QED
      BY <1>1, <2>1
  <1> DEFINE w == i \div r
  <1>3. w \in Nat /\ w * r <= i /\ i < w * r + r
    BY <1>1, <1>2, Division
  <1> HIDE DEF w
  <1>4. w \in 0..k - 1
    <2>1. CASE w = k
      BY <1>1, <1>3, <2>1
    <2>2. CASE k < w
      <3>1. k * r + r <= w * r /\ k * r \in Nat /\ w * r \in Nat
        BY <1>1, <1>3, <2>2, Apart
      <3> QED
        BY <1>1, <1>2, <1>3, <3>1
    <2> QED
      BY <1>3, <2>1, <2>2
  <1>5. i \in ShareStart(r, w)..ShareEnd(n, r, w) - 1
    <2>1. w * r \in Nat /\ n \in Nat /\ i \in Int /\ i < n
      BY <1>1, <1>3
    <2>2. ShareStart(r, w) = w * r
      BY DEF ShareStart
    <2>3. ShareEnd(n, r, w) = IF w * r + r < n THEN w * r + r ELSE n
      BY <2>2 DEF ShareEnd
    <2>4. i <= ShareEnd(n, r, w) - 1 /\ ShareEnd(n, r, w) \in Nat
      BY <1>1, <1>3, <2>1, <2>3
    <2> QED
      BY <1>3, <2>1, <2>2, <2>4
  <1>6. ASSUME NEW v \in 0..k - 1, i \in ShareStart(r, v)..ShareEnd(n, r, v) - 1
        PROVE  v = w
    <2>1. v * r \in Nat /\ v * r <= i /\ i < v * r + r
      <3>1. v * r \in Nat
        BY <1>1
      <3> QED
        BY <1>1, <1>6, <3>1 DEF ShareStart, ShareEnd
    <2>2. CASE v < w
      BY <1>1, <1>3, <2>1, <2>2, Apart
    <2>3. CASE w < v
      BY <1>1, <1>3, <2>1, <2>3, Apart
    <2> QED
      BY <1>3, <2>2, <2>3
  <1> QED
    BY <1>4, <1>5, <1>6 DEF r

\* Shares rounded down, the last worker going on to the end (the rows of
\* colorSpaceInverseTransformParallel and argbToNRGBA): each row belongs to the
\* range of exactly one worker, also when there are fewer rows than workers.
THEOREM RoundedDownSharesOnce ==
  ASSUME NEW n \in Nat, NEW k \in Nat, k >= 1, NEW i \in 0..n - 1
  PROVE  \E w \in 0..k - 1 :
           /\ i \in DownStart(n, k, w)..DownEnd(n, k, w) - 1
           /\ \A v \in 0..k - 1 : i \in DownStart(n, k, v)..DownEnd(n, k, v) - 1 => v = w
  <1> DEFINE r == RoundedDown(n, k)
             last == k - 1
  <1>1. r \in Nat /\ r * k <= n
    BY Division DEF RoundedDown
  <1> HIDE DEF r
  <1>2. last \in Nat /\ last * r \in Nat /\ last * r + r = r * k
    BY <1>1
  <1>3. \A v \in 0..k - 1 : /\ DownStart(n, k, v) = v * r
                            /\ DownEnd(n, k, v) = IF v = last THEN n ELSE v * r + r
    BY DEF DownStart, DownEnd, r
  <1> HIDE DEF last
  <1>4. CASE last * r <= i
    <2>1. last \in 0..k - 1
      BY <1>2 DEF last
    <2>2. i \in DownStart(n, k, last)..DownEnd(n, k, last) - 1
      BY <1>2, <1>3, <1>4, <2>1
    <2>3. ASSUME NEW v \in 0..k - 1, i \in DownStart(n, k, v)..DownEnd(n, k, v) - 1
          PROVE  v = last
      <3>1. CASE v < last
        <4>1. v * r + r <= last * r /\ v * r \in Nat
          BY <1>1, <1>2, <3>1, Apart
        <4>2. i < v * r + r
          BY <1>1, <1>2, <1>3, <2>3, <3>1, <4>1
        <4> QED
          BY <1>1, <1>2, <1>4, <4>1, <4>2
      <3> QED
        BY <3>1 DEF last
    <2> QED
      BY <2>1, <2>2, <2>3
  <1>5. CASE i < last * r
    <2>1. r >= 1
      <3>1. CASE r = 0
        <4>1. last * r = 0
          BY <1>2, <3>1
        <4> QED
          BY <1>5, <4>1
      <3> QED
        BY <1>1, <3>1
    <2> DEFINE w == i \div r
    <2>2. w \in Nat /\ w * r <= i /\ i < w * r + r
      BY <1>1, <2>1, Division
    <2> HIDE DEF w
    <2>3. w < last
      <3>1. w # last
        BY <1>1, <1>2, <1>5, <2>2
      <3>2. CASE last < w
        <4>1. last * r + r <= w * r /\ w * r \in Nat
          BY <1>1, <1>2, <2>2, <3>2, Apart
        <4> QED
          BY <1>1, <1>2, <1>5, <2>2, <4>1
      <3> QED
        BY <1>2, <2>2, <3>1, <3>2
    <2>4. w \in 0..k - 1
      BY <1>2, <2>2, <2>3 DEF last
    <2>5. i \in DownStart(n, k, w)..DownEnd(n, k, w) - 1
      <3>1. w * r \in Nat
        BY <1>1, <2>2
      <3> QED
        <4>1. DownStart(n, k, w) = w * r /\ DownEnd(n, k, w) = w * r + r
          BY <1>2, <1>3, <2>2, <2>3, <2>4
        <4> QED
          BY <1>1, <2>2, <3>1, <4>1
    <2>6. ASSUME NEW v \in 0..k - 1, i \in DownStart(n, k, v)..DownEnd(n, k, v) - 1
          PROVE  v = w
      <3>0. v * r \in Nat /\ v * r <= i
        <4>1. v * r \in Nat
          BY <1>1
        <4> QED
          BY <1>3, <2>6, <4>1
      <3>1. v # last
        BY <1>5, <3>0
      <3>2. i < v * r + r
        BY <1>1, <1>3, <2>6, <3>0, <3>1
      <3>3. CASE v < w
        BY <1>1, <2>2, <3>0, <3>2, <3>3, Apart
      <3>4. CASE w < v
        BY <1>1, <2>2, <3>0, <3>2, <3>4, Apart
      <3> QED
        BY <2>2, <3>3, <3>4
    <2> QED
      BY <2>4, <2>5, <2>6
  <1> QED
    BY <1>2, <1>4, <1>5

-----------------------------------------------------------------------------
(* Distances *)

\* The header of a picture has 14 bits for its width, less one.
Widths == 1..16384

\* The bounds of a width, without its numeral.
LEMMA WidthFacts ==
  ASSUME NEW columns \in Widths
  PROVE  columns \in Nat /\ columns >= 1 /\ columns <= 16384
  BY SMT DEF Widths

\* The table names every place there is: in the row of the pixel itself one to
\* eight columns to the left, and in each of seven rows above it sixteen columns.
LEMMA Table == \A c \in (0..7) \union (16..127) : \E i \in 1..120 : CodeToPlane[i] = c
  BY SMTT(60) DEF CodeToPlane

\* So planeToCodeLUT has a code for each of them, and the table leads back.
LEMMA CodeOfPlace ==
  ASSUME NEW c \in (0..7) \union (16..127)
  PROVE  PlaneToCode(c) \in 1..120 /\ CodeToPlane[PlaneToCode(c)] = c
  <1>1. \E i \in 1..CodeToPlaneCodesCount : CodeToPlane[i] = c
    BY Table DEF CodeToPlaneCodesCount
  <1> QED
    BY <1>1 DEF PlaneToCode, CodeToPlaneCodesCount

\* The distance of a place is read back from its code.  The guard against
\* overflow of PlaneCodeToDistance does not bite for widths of 14 bits.
LEMMA DistanceOfPlace ==
  ASSUME NEW columns \in Widths,
         NEW rows \in 0..7, NEW c \in 0..15,
         16 * rows + c \in (0..7) \union (16..127), rows * columns + (8 - c) >= 1
  PROVE  PlaneCodeToDistance(columns, PlaneToCode(16 * rows + c)) = rows * columns + (8 - c)
  <1>0. columns \in Nat /\ columns >= 1 /\ columns <= 16384
    BY WidthFacts
  <1>1. /\ PlaneToCode(16 * rows + c) \in 1..120
        /\ CodeToPlane[PlaneToCode(16 * rows + c)] = 16 * rows + c
    BY CodeOfPlace
  <1>2. (16 * rows + c) \div 16 = rows /\ (16 * rows + c) % 16 = c
    OBVIOUS
  <1> DEFINE k == PlaneToCode(16 * rows + c)
  <1>3. k \in 1..120 /\ CodeToPlane[k] \div 16 = rows /\ CodeToPlane[k] % 16 = c
    BY <1>1, <1>2
  <1> HIDE DEF k
  <1>4. ~(rows > 0 /\ columns > 1073741824 \div rows)
    <2>1. rows = 0 \/ rows = 1 \/ rows = 2 \/ rows = 3 \/ rows = 4 \/ rows = 5 \/ rows = 6 \/ rows = 7
      OBVIOUS
    <2> QED
      BY <1>0, <2>1, SMT
  <1>5. PlaneCodeToDistance(columns, k) = rows * columns + (8 - c)
    BY <1>0, <1>3, <1>4, SMT DEF PlaneCodeToDistance, CodeToPlaneCodesCount
  <1> QED
    BY <1>5 DEF k

\* A distance written by DistanceToPlaneCode is the one PlaneCodeToDistance
\* reads: in all three cases of the encoder, the short codes of places to the
\* left, of places to the right in a row above, and the plain distance.
THEOREM DistanceSurvives ==
  ASSUME NEW columns \in Widths, NEW dist \in Nat \ {0}
  PROVE  PlaneCodeToDistance(columns, DistanceToPlaneCode(columns, dist)) = dist
  <1>0. dist \in Nat /\ dist >= 1 /\ columns \in Nat /\ columns >= 1 /\ columns <= 16384
    BY WidthFacts
  <1>5. /\ dist \div columns \in Nat
        /\ dist % columns \in 0..(columns - 1)
        /\ dist = (dist \div columns) * columns + (dist % columns)
    BY <1>0
  <1> DEFINE rows == dist \div columns
             x == dist - rows * columns
  <1>1. rows \in Nat /\ x \in 0..(columns - 1) /\ dist = rows * columns + x
    <2>1. rows \in Nat /\ dist % columns \in 0..(columns - 1) /\ dist = rows * columns + (dist % columns)
      BY <1>5
    <2> HIDE DEF rows
    <2>2. rows * columns \in Nat
      BY <1>0, <2>1
    <2>3. x = dist % columns
      BY <1>0, <2>1, <2>2
    <2> QED
      BY <2>1, <2>3
  <1>9. DistanceToPlaneCode(columns, dist) =
            IF x <= 8 /\ rows < 8 THEN PlaneToCode(16 * rows + 8 - x)
            ELSE IF x > columns - 8 /\ rows < 7 THEN PlaneToCode(16 * (rows + 1) + 8 + (columns - x))
            ELSE dist + 120
    BY DEF DistanceToPlaneCode, CodeToPlaneCodesCount
  <1> HIDE DEF rows, x
  <1>6. ASSUME NEW v \in 0..7, NEW c \in 0..15,
               16 * v + c \in (0..7) \union (16..127), v * columns + (8 - c) = dist,
               DistanceToPlaneCode(columns, dist) = PlaneToCode(16 * v + c)
        PROVE  PlaneCodeToDistance(columns, DistanceToPlaneCode(columns, dist)) = dist
    <2>1. v * columns + (8 - c) >= 1
      BY <1>0, <1>6
    <2>2. PlaneCodeToDistance(columns, PlaneToCode(16 * v + c)) = v * columns + (8 - c)
      BY <1>6, <2>1, DistanceOfPlace, Zenon
    <2> QED
      BY <1>6, <2>2
  <1>2. CASE x <= 8 /\ rows < 8
    <2> DEFINE c == 8 - x
    <2>1. rows = 0 => x >= 1
      BY <1>0, <1>1
    <2>2. rows \in 0..7 /\ c \in 0..15 /\ 16 * rows + c \in (0..7) \union (16..127)
      <3>1. rows \in 0..7 /\ x \in 0..8
        BY <1>0, <1>1, <1>2
      <3>2. c \in 0..8 /\ (rows = 0 => c \in 0..7)
        BY <2>1, <3>1
      <3> QED
        BY <3>1, <3>2
    <2>3. rows * columns + (8 - c) = dist
      BY <1>0, <1>1, <1>2
    <2>4. DistanceToPlaneCode(columns, dist) = PlaneToCode(16 * rows + c)
      <3>1. 16 * rows + 8 - x = 16 * rows + c
        BY <1>0, <1>1
      <3> QED
        BY <1>2, <1>9, <3>1
    <2> HIDE DEF c
    <2> QED
      BY <1>6, <2>2, <2>3, <2>4
  <1>3. CASE ~(x <= 8 /\ rows < 8) /\ x > columns - 8 /\ rows < 7
    <2> DEFINE v == rows + 1
               c == 8 + (columns - x)
    <2>1. rows * columns \in Nat /\ v * columns = rows * columns + columns
      BY <1>0, <1>1
    <2>2. v \in 1..7 /\ c \in 9..15
      BY <1>0, <1>1, <1>3
    <2>3. v * columns + (8 - c) = dist
      BY <1>0, <1>1, <2>1
    <2>4. DistanceToPlaneCode(columns, dist) = PlaneToCode(16 * v + c)
      <3>1. 16 * (rows + 1) + 8 + (columns - x) = 16 * v + c
        BY <1>0, <1>1
      <3> QED
        BY <1>3, <1>9, <3>1
    <2> HIDE DEF c, v
    <2>5. v \in 0..7 /\ c \in 0..15 /\ 16 * v + c \in (0..7) \union (16..127)
      BY <2>2
    <2> QED
      BY <1>6, <2>3, <2>4, <2>5
  <1>4. CASE ~(x <= 8 /\ rows < 8) /\ ~(x > columns - 8 /\ rows < 7)
    <2>1. DistanceToPlaneCode(columns, dist) = dist + 120
      BY <1>4, <1>9
    <2>2. dist + 120 > 120 /\ (dist + 120) - 120 = dist
      BY <1>0
    <2> QED
      BY <1>0, <2>1, SMT DEF PlaneCodeToDistance, CodeToPlaneCodesCount
  <1> QED
    BY <1>2, <1>3, <1>4

-----------------------------------------------------------------------------
(* Pixels there and back *)

LEMMA PixelParts ==
  /\ \A p \in Pixel : /\ p[1] \in Byte /\ p[2] \in Byte /\ p[3] \in Byte /\ p[4] \in Byte
                      /\ p = <<p[1], p[2], p[3], p[4]>>
  /\ \A a, b, c, d \in Byte : <<a, b, c, d>> \in Pixel
  BY DEF Pixel

LEMMA Constants == Zero \in Pixel /\ ARGBBlack \in Pixel
  BY DEF Zero, ARGBBlack, Pixel, Byte

\* A value whose four channels are integers, as a predictor gives.
IsGuess(g) == \A k \in Channels : g[k] \in Int

LEMMA Residual ==
  ASSUME NEW p \in Pixel, NEW g, IsGuess(g)
  PROVE  /\ SubPixels(p, g) \in Pixel
         /\ AddPixels(SubPixels(p, g), g) = p
  <1>1. \A u \in Byte, v \in Int : (u - v) % 256 \in Byte /\ (((u - v) % 256) + v) % 256 = u
    BY DEF Byte
  <1>2. g[1] \in Int /\ g[2] \in Int /\ g[3] \in Int /\ g[4] \in Int
    BY DEF IsGuess, Channels
  <1>3. SubPixels(p, g) = <<(p[1] - g[1]) % 256, (p[2] - g[2]) % 256, (p[3] - g[3]) % 256, (p[4] - g[4]) % 256>>
    BY DEF SubPixels, Channelwise
  <1>4. AddPixels(SubPixels(p, g), g)
          = <<(((p[1] - g[1]) % 256) + g[1]) % 256, (((p[2] - g[2]) % 256) + g[2]) % 256,
              (((p[3] - g[3]) % 256) + g[3]) % 256, (((p[4] - g[4]) % 256) + g[4]) % 256>>
    BY <1>3 DEF AddPixels, Channelwise
  <1>5. p[1] \in Byte /\ p[2] \in Byte /\ p[3] \in Byte /\ p[4] \in Byte /\ p = <<p[1], p[2], p[3], p[4]>>
    BY PixelParts
  <1>6. SubPixels(p, g) \in Pixel
    <2>1. /\ (p[1] - g[1]) % 256 \in Byte /\ (p[2] - g[2]) % 256 \in Byte
          /\ (p[3] - g[3]) % 256 \in Byte /\ (p[4] - g[4]) % 256 \in Byte
      BY <1>1, <1>2, <1>5
    <2> QED
      BY <1>3, <2>1, PixelParts
  <1>7. AddPixels(SubPixels(p, g), g) = <<p[1], p[2], p[3], p[4]>>
    BY <1>1, <1>2, <1>4, <1>5
  <1> QED
    BY <1>5, <1>6, <1>7

LEMMA GreenBack ==
  ASSUME NEW p \in Pixel
  PROVE  SubtractGreenPixel(p) \in Pixel /\ AddGreen(SubtractGreenPixel(p)) = p
  <1>1. \A u, v \in Byte : (u - v) % 256 \in Byte /\ (((u - v) % 256) + v) % 256 = u
    BY DEF Byte
  <1>2. SubtractGreenPixel(p) = <<p[1], (p[2] - p[3]) % 256, p[3], (p[4] - p[3]) % 256>>
    BY DEF SubtractGreenPixel
  <1>3. AddGreen(SubtractGreenPixel(p)) = <<p[1], (((p[2] - p[3]) % 256) + p[3]) % 256, p[3], (((p[4] - p[3]) % 256) + p[3]) % 256>>
    BY <1>2 DEF AddGreen
  <1> QED
    BY <1>1, <1>2, <1>3, PixelParts

\* Multipliers as the searches find them.
IsMultiplier(m) == m[1] \in -128..127 /\ m[2] \in -128..127 /\ m[3] \in -128..127

LEMMA Signed ==
  /\ \A v \in -128..127 : v % 256 \in Byte /\ Int8(v % 256) = v
  /\ \A v \in Byte : Int8(v) \in Int
  /\ \A d \in Int : Int8(d % 256) \in Int
  /\ \A u \in Byte, d \in Int : (((u - Int8(d % 256)) % 256) + d) % 256 = u
  <1>1. \A v \in -128..127 : v % 256 \in Byte /\ Int8(v % 256) = v
    BY DEF Int8, Byte
  <1>2. \A v \in Byte : Int8(v) \in Int
    BY DEF Int8, Byte
  <1>3. \A d \in Int : Int8(d % 256) \in Int
    BY DEF Int8
  <1>4. \A u \in Byte, d \in Int : (((u - Int8(d % 256)) % 256) + d) % 256 = u
    BY DEF Int8, Byte
  <1> QED
    BY <1>1, <1>2, <1>3, <1>4

LEMMA DeltaType ==
  ASSUME NEW m \in Int, NEW c \in Byte
  PROVE  Delta(m, c) \in Int
  <1>1. Int8(c) \in Int
    BY Signed
  <1>2. m * Int8(c) \in Int
    BY <1>1
  <1> QED
    BY <1>2 DEF Delta

LEMMA ColorsBack ==
  ASSUME NEW p \in Pixel, NEW m, IsMultiplier(m)
  PROVE  /\ ApplyColorTransformPixel(m, p) \in Pixel
         /\ ColorInversePixel(PackMultipliers(m), ApplyColorTransformPixel(m, p)) = p
  <1>1. m[1] \in -128..127 /\ m[2] \in -128..127 /\ m[3] \in -128..127
    BY DEF IsMultiplier
  <1>2. p[1] \in Byte /\ p[2] \in Byte /\ p[3] \in Byte /\ p[4] \in Byte /\ p = <<p[1], p[2], p[3], p[4]>>
    BY PixelParts
  <1> DEFINE a == Delta(m[1], p[3])
             b == Delta(m[2], p[3])
             c == Delta(m[3], p[2])
             q == ApplyColorTransformPixel(m, p)
             code == PackMultipliers(m)
  <1>3. a \in Int /\ b \in Int /\ c \in Int
    <2>1. m[1] \in Int /\ m[2] \in Int /\ m[3] \in Int
      BY <1>1
    <2> QED
      BY <1>2, <2>1, DeltaType
  <1>4. q = <<p[1], (p[2] - Int8(a % 256)) % 256, p[3], (p[4] - Int8(b % 256) - Int8(c % 256)) % 256>>
    BY DEF ApplyColorTransformPixel, ColorTransformDelta
  <1>5. Int8(code[4]) = m[1] /\ Int8(code[3]) = m[2] /\ Int8(code[2]) = m[3]
    BY <1>1, Signed DEF PackMultipliers
  <1>6. q[1] = p[1] /\ q[2] = (p[2] - Int8(a % 256)) % 256 /\ q[3] = p[3]
        /\ q[4] = (p[4] - Int8(b % 256) - Int8(c % 256)) % 256
    BY <1>4
  <1> HIDE DEF a, b, c, q, code
  <1>7. Int8(a % 256) \in Int /\ Int8(b % 256) \in Int /\ Int8(c % 256) \in Int
    BY <1>3, Signed
  <1>8. q[2] \in Byte /\ q[4] \in Byte /\ q \in Pixel
    <2>1. \A v \in Int : v % 256 \in Byte
      BY DEF Byte
    <2>2. q[2] \in Byte /\ q[4] \in Byte
      <3>1. p[2] - Int8(a % 256) \in Int /\ p[4] - Int8(b % 256) - Int8(c % 256) \in Int
        BY <1>2, <1>7 DEF Byte
      <3> QED
        BY <1>6, <2>1, <3>1
    <2> QED
      BY <1>2, <1>4, <1>6, <2>2, PixelParts
  <1>9. (q[2] + Delta(Int8(code[4]), q[3])) % 256 = p[2]
    <2>1. Delta(Int8(code[4]), q[3]) = a
      BY <1>5, <1>6 DEF a
    <2> QED
      BY <1>2, <1>3, <1>6, <2>1, Signed
  <1>10. (q[4] + Delta(Int8(code[3]), q[3]) + Delta(Int8(code[2]), p[2])) % 256 = p[4]
    <2>1. Delta(Int8(code[3]), q[3]) = b /\ Delta(Int8(code[2]), p[2]) = c
      BY <1>5, <1>6 DEF b, c
    <2>2. \A u \in Byte, d, e \in Int : (((u - Int8(d % 256) - Int8(e % 256)) % 256) + d + e) % 256 = u
      <3>1. \A d \in Int : Int8(d % 256) = d % 256 \/ Int8(d % 256) = (d % 256) - 256
        BY DEF Int8
      <3>2. \A u \in Byte, d, e, f, g \in Int :
               (f = d % 256 \/ f = (d % 256) - 256) /\ (g = e % 256 \/ g = (e % 256) - 256)
                 => (((u - f - g) % 256) + d + e) % 256 = u
        BY DEF Byte
      <3>3. TAKE u \in Byte, d, e \in Int
      <3>4. Int8(d % 256) \in Int /\ Int8(e % 256) \in Int
        BY Signed
      <3> QED
        BY <3>1, <3>2, <3>4
    <2> QED
      BY <1>2, <1>3, <1>6, <2>1, <2>2
  <1>11. ColorInversePixel(code, q)
           = <<q[1], (q[2] + Delta(Int8(code[4]), q[3])) % 256, q[3],
               (q[4] + Delta(Int8(code[3]), q[3])
                  + Delta(Int8(code[2]), (q[2] + Delta(Int8(code[4]), q[3])) % 256)) % 256>>
    BY DEF ColorInversePixel
  <1>12. ColorInversePixel(code, q) = <<p[1], p[2], p[3], p[4]>>
    BY <1>6, <1>9, <1>10, <1>11
  <1> QED
    BY <1>2, <1>8, <1>12 DEF q, code
LEMMA Averages == \A a, b \in Pixel : Avg2(a, b) \in Pixel
  <1>1. \A u, v \in Byte : (u + v) \div 2 \in Byte
    BY DEF Byte
  <1>2. TAKE a, b \in Pixel
  <1>3. Avg2(a, b) = <<(a[1] + b[1]) \div 2, (a[2] + b[2]) \div 2, (a[3] + b[3]) \div 2, (a[4] + b[4]) \div 2>>
    BY DEF Avg2, Channelwise
  <1>4. /\ (a[1] + b[1]) \div 2 \in Byte /\ (a[2] + b[2]) \div 2 \in Byte
        /\ (a[3] + b[3]) \div 2 \in Byte /\ (a[4] + b[4]) \div 2 \in Byte
    BY <1>1, PixelParts
  <1> QED
    BY <1>3, <1>4, PixelParts

\* Every predictor makes four integers of four pixels.
LEMMA Guesses ==
  ASSUME NEW mode, NEW left \in Pixel, NEW top \in Pixel, NEW topRight \in Pixel, NEW topLeft \in Pixel,
         NEW selected \in Pixel
  PROVE  IsGuess(Predicted(mode, left, top, topRight, topLeft, selected))
  <1>1. \A p \in Pixel : IsGuess(p)
    <2>1. \A v \in Byte : v \in Int
      BY DEF Byte
    <2> QED
      BY <2>1, PixelParts DEF IsGuess, Channels
  <1>2. \A v \in Int : ClampByte(v) \in Int /\ Half(v) \in Int
    BY DEF ClampByte, Half
  <1>3. IsGuess(ClampAddSubFull(left, top, topLeft))
    <2>1. \A k \in Channels : left[k] + top[k] - topLeft[k] \in Int
      BY <1>1 DEF IsGuess
    <2> QED
      BY <1>2, <2>1 DEF IsGuess, ClampAddSubFull
  <1>4. ASSUME NEW a \in Pixel PROVE IsGuess(ClampAddSubHalf(a, topLeft))
    <2>1. \A k \in Channels : a[k] - topLeft[k] \in Int /\ a[k] \in Int
      BY <1>1 DEF IsGuess
    <2>2. \A k \in Channels : a[k] + Half(a[k] - topLeft[k]) \in Int
      BY <1>2, <2>1
    <2> QED
      BY <1>2, <2>2 DEF IsGuess, ClampAddSubHalf
  <1>5. IsGuess(ARGBBlack)
    BY <1>1, Constants
  <1>6. /\ IsGuess(Avg2(Avg2(left, topRight), top)) /\ IsGuess(Avg2(left, topLeft)) /\ IsGuess(Avg2(left, top))
        /\ IsGuess(Avg2(topLeft, top)) /\ IsGuess(Avg2(top, topRight))
        /\ IsGuess(Avg2(Avg2(left, topLeft), Avg2(top, topRight)))
        /\ IsGuess(ClampAddSubHalf(Avg2(left, top), topLeft))
    BY <1>1, <1>4, Averages
  <1> QED
    BY <1>1, <1>3, <1>5, <1>6 DEF Predicted

LEMMA SelectedType ==
  \A left, top, topLeft \in Pixel : SelectPredictor(left, top, topLeft) \in Pixel
  BY DEF SelectPredictor

LEMMA SelectedAlike ==
  \A left, top, topLeft : SelectPred(left, top, topLeft) = SelectPredictor(left, top, topLeft)
  BY DEF SelectPred, SelectPredictor

-----------------------------------------------------------------------------
(* Tiles and widths *)

LEMMA Powers == \A b \in 0..9 : 2^b \in 1..512
  <1>1. /\ 2^0 = 1 /\ 2^1 = 2 /\ 2^2 = 4 /\ 2^3 = 8 /\ 2^4 = 16 /\ 2^5 = 32 /\ 2^6 = 64
        /\ 2^7 = 128 /\ 2^8 = 256 /\ 2^9 = 512
    OBVIOUS
  <1>2. TAKE b \in 0..9
  <1>3. \/ b = 0 \/ b = 1 \/ b = 2 \/ b = 3 \/ b = 4 \/ b = 5 \/ b = 6 \/ b = 7 \/ b = 8 \/ b = 9
    OBVIOUS
  <1>4. CASE b = 0
    BY <1>1, <1>4
  <1>5. CASE b = 1
    BY <1>1, <1>5
  <1>6. CASE b = 2
    BY <1>1, <1>6
  <1>7. CASE b = 3
    BY <1>1, <1>7
  <1>8. CASE b = 4
    BY <1>1, <1>8
  <1>9. CASE b = 5
    BY <1>1, <1>9
  <1>10. CASE b = 6
    BY <1>1, <1>10
  <1>11. CASE b = 7
    BY <1>1, <1>11
  <1>12. CASE b = 8
    BY <1>1, <1>12
  <1>13. CASE b = 9
    BY <1>1, <1>13
  <1> QED
    BY <1>3, <1>4, <1>5, <1>6, <1>7, <1>8, <1>9, <1>10, <1>11, <1>12, <1>13

LEMMA Grows ==
  ASSUME NEW a \in Nat, NEW b \in Nat, NEW d \in Nat, a <= b
  PROVE  a * d <= b * d /\ a * d \in Nat /\ b * d \in Nat
  <1>1. PICK e \in Nat : b = a + e
    <2>1. b - a \in Nat /\ b = a + (b - a)
      OBVIOUS
    <2> QED
      BY <2>1
  <1>2. b * d = a * d + e * d /\ e * d \in Nat /\ a * d \in Nat
    BY <1>1
  <1> QED
    BY <1>2

\* A cell of a table of so many columns, and where it is.
LEMMA Cell ==
  ASSUME NEW columns \in Nat, NEW r \in Nat, NEW c \in 0..columns - 1
  PROVE  /\ r * columns + c \in Nat
         /\ (r * columns + c) \div columns = r /\ (r * columns + c) % columns = c
         /\ \A rows \in Nat : r < rows => r * columns + c < rows * columns /\ r * columns + c < columns * rows
  <1>1. r * columns \in Nat /\ columns >= 1
    OBVIOUS
  <1>2. PICK i \in Nat : i = r * columns + c
    BY <1>1
  <1>3. PICK e, f : e = i \div columns /\ f = i % columns
    OBVIOUS
  <1>4. e \in Nat /\ f \in 0..columns - 1 /\ i = e * columns + f
    BY <1>1, <1>2, <1>3, Division
  <1>5. e = r /\ f = c
    <2>1. CASE e < r
      <3>1. e * columns + columns <= r * columns
        BY <1>4, <2>1, Apart
      <3> QED
        BY <1>1, <1>2, <1>4, <3>1
    <2>2. CASE r < e
      <3>1. r * columns + columns <= e * columns /\ e * columns \in Nat
        BY <1>4, <2>2, Apart
      <3> QED
        BY <1>1, <1>2, <1>4, <3>1
    <2>3. CASE e = r
      BY <1>1, <1>2, <1>4, <2>3
    <2> QED
      BY <1>4, <2>1, <2>2, <2>3
  <1>6. ASSUME NEW rows \in Nat, r < rows PROVE i < rows * columns /\ i < columns * rows
    <2>1. r * columns + columns <= rows * columns /\ rows * columns \in Nat
      BY <1>6, Apart
    <2>2. columns * rows = rows * columns
      OBVIOUS
    <2> QED
      BY <1>1, <1>2, <2>1, <2>2
  <1> QED
    BY <1>2, <1>3, <1>5, <1>6

LEMMA InCell ==
  ASSUME NEW columns \in Nat, NEW rows \in Nat, NEW i \in 0..rows * columns - 1
  PROVE  /\ columns >= 1
         /\ i \div columns \in 0..rows - 1 /\ i % columns \in 0..columns - 1
         /\ i = (i \div columns) * columns + (i % columns)
         /\ (i \div columns) * columns \in Nat
  <1>1. columns >= 1 /\ rows >= 1 /\ rows * columns \in Nat /\ i \in Nat
    <2>1. rows * columns \in Nat
      OBVIOUS
    <2>2. columns = 0 => rows * columns = 0
      OBVIOUS
    <2>3. rows = 0 => rows * columns = 0
      OBVIOUS
    <2> QED
      BY <2>1, <2>2, <2>3
  <1>2. PICK e, f : e = i \div columns /\ f = i % columns
    OBVIOUS
  <1>3. e \in Nat /\ f \in 0..columns - 1 /\ i = e * columns + f /\ e * columns <= i
    BY <1>1, <1>2, Division
  <1>4. e < rows
    <2>1. SUFFICES ASSUME rows <= e PROVE FALSE
      BY <1>3
    <2>2. rows * columns <= e * columns
      BY <1>3, <2>1, Grows
    <2>3. e * columns \in Nat
      BY <1>3
    <2> QED
      BY <1>1, <1>3, <2>2, <2>3
  <1>5. e * columns \in Nat
    BY <1>3
  <1> QED
    BY <1>1, <1>2, <1>3, <1>4, <1>5

\* Tiles cover a line, and a place in it lies in one of them.
LEMMA Covering ==
  ASSUME NEW n \in Nat \ {0}, NEW b \in 0..9
  PROVE  /\ SubSampleSize(n, b) \in Nat \ {0}
         /\ \A x \in 0..n - 1 : x \div 2^b \in 0..SubSampleSize(n, b) - 1
  <1>1. PICK d : d = 2^b
    OBVIOUS
  <1>2. d \in Nat /\ d >= 1 /\ n + d - 1 \in Nat
    <2>1. 2^b \in 1..512
      BY Powers
    <2> QED
      BY <1>1, <2>1
  <1>3. PICK s : s = (n + d - 1) \div d
    OBVIOUS
  <1>4. s \in Nat /\ n + d - 1 < s * d + d
    BY <1>2, <1>3, Division
  <1>5. s * d \in Nat /\ n <= s * d
    BY <1>2, <1>4
  <1>6. s # 0
    <2>1. s = 0 => s * d = 0
      BY <1>2
    <2> QED
      BY <1>5, <2>1
  <1>7. ASSUME NEW x \in 0..n - 1 PROVE x \div d \in 0..s - 1
    <2>1. x \in 0..s * d - 1
      BY <1>5
    <2> QED
      BY <1>2, <1>4, <2>1, InCell
  <1> QED
    BY <1>1, <1>3, <1>4, <1>6, <1>7 DEF SubSampleSize

LEMMA OnePerWord == \A n \in Nat : SubSampleSize(n, 0) = n
  <1>1. 2^0 = 1
    OBVIOUS
  <1>2. \A n \in Nat : (n + 1 - 1) \div 1 = n
    OBVIOUS
  <1> QED
    BY <1>1, <1>2 DEF SubSampleSize

LEMMA MinTwo == \A a, b \in Int : Min({a, b}) = IF a <= b THEN a ELSE b
  BY DEF Min

LEMMA MaxTwo == \A a, b \in Int : Max({a, b}) = IF a >= b THEN a ELSE b
  BY DEF Max

-----------------------------------------------------------------------------
(* Arrays *)

IsArray(a) == Cap(a) \in Nat /\ DOMAIN a = 0..Cap(a) - 1

LEMMA ArrayOf ==
  ASSUME NEW k \in Nat, NEW a, DOMAIN a = 0..k - 1
  PROVE  IsArray(a) /\ Cap(a) = k
  <1>1. Cardinality(0..k - 1) = k
    BY FS_Interval
  <1> QED
    BY <1>1 DEF IsArray, Cap

LEMMA NoArray == IsArray(None) /\ Cap(None) = 0
  <1>1. DOMAIN None = 0..0 - 1
    BY DEF None
  <1> QED
    BY <1>1, ArrayOf

LEMMA ReusedArray ==
  ASSUME NEW a, IsArray(a), NEW n \in Nat
  PROVE  IsArray(Reused(a, n)) /\ Cap(Reused(a, n)) \in Nat /\ Cap(Reused(a, n)) >= n
  <1>1. DOMAIN Zeros(n) = 0..n - 1
    BY DEF Zeros
  <1>2. IsArray(Zeros(n)) /\ Cap(Zeros(n)) = n
    BY <1>1, ArrayOf
  <1> QED
    BY <1>2 DEF Reused, IsArray

LEMMA OverwrittenArray ==
  ASSUME NEW a, IsArray(a), NEW n \in Nat, Cap(a) >= n, NEW f
  PROVE  /\ IsArray(Overwrite(a, n, f)) /\ Cap(Overwrite(a, n, f)) = Cap(a)
         /\ \A i \in 0..n - 1 : Overwrite(a, n, f)[i] = f[i]
  <1>1. DOMAIN Overwrite(a, n, f) = 0..Cap(a) - 1
    BY DEF Overwrite, IsArray
  <1>2. \A i \in 0..n - 1 : i \in DOMAIN a
    BY DEF IsArray
  <1> QED
    BY <1>1, <1>2, ArrayOf DEF IsArray, Overwrite

\* Sequences whose elements are not told.
IsSequence(s) == s \in Seq(Range(s))

LEMMA SequenceOf ==
  ASSUME NEW S, NEW s \in Seq(S)
  PROVE  IsSequence(s)
  <1>1. DOMAIN s = 1..Len(s) /\ Len(s) \in Nat
    OBVIOUS
  <1>2. \A k \in 1..Len(s) : s[k] \in Range(s)
    BY <1>1 DEF Range
  <1>3. s \in Seq(Range(s))
    BY <1>1, <1>2
  <1> QED
    BY <1>3 DEF IsSequence

LEMMA Empty == IsSequence(<<>>)
  BY DEF IsSequence

LEMMA Appended ==
  ASSUME NEW s, IsSequence(s), NEW e
  PROVE  /\ IsSequence(Append(s, e))
         /\ Len(s) \in Nat /\ Len(Append(s, e)) = Len(s) + 1
         /\ \A k \in 1..Len(s) : Append(s, e)[k] = s[k]
         /\ Append(s, e)[Len(s) + 1] = e
  <1>1. PICK S : S = Range(s) \cup {e}
    OBVIOUS
  <1>2. s \in Seq(S) /\ e \in S
    BY <1>1 DEF IsSequence
  <1>3. /\ Append(s, e) \in Seq(S) /\ Len(s) \in Nat /\ Len(Append(s, e)) = Len(s) + 1
        /\ \A k \in 1..Len(s) : Append(s, e)[k] = s[k]
        /\ Append(s, e)[Len(s) + 1] = e
    BY <1>2
  <1>5. IsSequence(Append(s, e))
    BY <1>3, SequenceOf
  <1> QED
    BY <1>3, <1>5

LEMMA Tailed ==
  ASSUME NEW s, IsSequence(s), s # <<>>
  PROVE  /\ IsSequence(Tail(s)) /\ Len(s) \in Nat \ {0} /\ Head(s) = s[1]
         /\ Len(Tail(s)) = Len(s) - 1 /\ \A k \in 1..Len(s) - 1 : Tail(s)[k] = s[k + 1]
         /\ Head(s) \in Range(s) /\ Range(Tail(s)) \subseteq Range(s)
  <1>1. s \in Seq(Range(s)) /\ s # <<>>
    BY DEF IsSequence
  <1>2. /\ Tail(s) \in Seq(Range(s)) /\ Len(s) \in Nat \ {0} /\ Head(s) = s[1] /\ Head(s) \in Range(s)
        /\ Len(Tail(s)) = Len(s) - 1 /\ \A k \in 1..Len(s) - 1 : Tail(s)[k] = s[k + 1]
    BY <1>1
  <1>4. IsSequence(Tail(s))
    BY <1>2, SequenceOf
  <1>5. Range(Tail(s)) \subseteq Range(s)
    <2>1. \A k \in 1..Len(s) - 1 : k + 1 \in 1..Len(s) /\ s[k + 1] \in Range(s)
      BY <1>2 DEF Range
    <2> QED
      BY <1>2, <2>1 DEF Range
  <1> QED
    BY <1>2, <1>4, <1>5

-----------------------------------------------------------------------------
(* The invariant *)

Size == Width * Height
CodeBits == PaletteCodeBits(Cardinality(Colors))
CodedWidth == IF UsePalette THEN SubSampleSize(Width, CodeBits) ELSE Width

TypeInv ==
  /\ IsSequence(queue) /\ \A j \in Range(queue) : IsPicture(j)
  /\ stage \in {"idle", "near", "transform", "tiles", "residuals", "header", "inverse", "shown"}
  /\ stage # "idle" => IsPicture(job)
  /\ DOMAIN mem = 1..3 /\ \A i \in 1..3 : IsArray(mem[i])
  /\ argb \in 1..3 /\ residuals \in 1..3
  /\ IsArray(pixels) /\ IsArray(transformBuf)

\* What a tile of the colour transform says.
Multipliers(code) == <<Int8(code[4]), Int8(code[3]), Int8(code[2])>>
IsCode(code) == PackMultipliers(Multipliers(code)) = code /\ IsMultiplier(Multipliers(code))

Sound(t) ==
  /\ t.xsize = CodedWidth
  /\ t.type = "ColorIndexing" => t.bits = CodeBits /\ t.data = Palette
  /\ t.type = "SubtractGreen" => t.bits = 0
  /\ t.type \in {"Predictor", "CrossColor"} => t.bits = TransformBits
  /\ t.type = "CrossColor" =>
        \A i \in 0..SubSampleSize(CodedWidth, TransformBits) * TileYSize - 1 : IsCode(t.data[i])

\* The transforms applied, and those that are left.
Listed ==
  /\ Len(transforms) + Len(todo) = Len(Chosen)
  /\ \A k \in 1..Len(transforms) : transforms[k].type = Chosen[k] /\ Sound(transforms[k])
  /\ \A k \in 1..Len(todo) : todo[k] = Chosen[Len(transforms) + k]
  /\ currentWidth = IF Len(transforms) = 0 THEN Width ELSE CodedWidth
Line ==
  /\ IsSequence(transforms) /\ IsSequence(todo)
  /\ stage # "idle" => Listed
  /\ stage = "near" => Len(transforms) = 0 /\ IsNearLossless
  /\ stage \in {"tiles", "residuals"} => Len(todo) > 0
  /\ stage = "tiles" => Head(todo) \in {"Predictor", "CrossColor"}
  /\ stage = "residuals" => Head(todo) = "Predictor"
  /\ stage \in {"header", "inverse", "shown"} => Len(todo) = 0

\* A tile was handled if the worker it belongs to has gone past it.
Tiling ==
  stage = "tiles" =>
      /\ DOMAIN at = Procs /\ \A w \in Procs : at[w] \in Nat
      /\ DOMAIN visits = 0..NumTiles - 1 /\ DOMAIN data = 0..NumTiles - 1
      /\ \A t \in 0..NumTiles - 1, w \in 0..NumWorkers - 1 :
            t \div TileXSize \in TyStart(w)..TyEnd(w) - 1 =>
               visits[t] = IF t < TyStart(w) * TileXSize + at[w] THEN 1 ELSE 0
      /\ Head(todo) = "CrossColor" => \A t \in 0..NumTiles - 1 : visits[t] # 0 => IsCode(data[t])

\* The decoder allocates for the sizes it has read.
Sized ==
  stage \in {"header", "inverse"} =>
      stream.width = Width /\ stream.height = Height /\ xsize \in Nat \ {0}

-----------------------------------------------------------------------------
(* What follows from the options *)

LEMMA Coarseness ==
  ASSUME NEW bits \in Int, IsPicture(job)
  PROVE  ClampBits(bits) \in 0..9
  <1> DEFINE start == Max({MinBits, Min({bits, MaxBits})})
             Fine(b) == b = MaxBits \/ Sampled(b) <= MaxHuffImageSize
             coarse == CHOOSE b \in start..MaxBits :
                     /\ b = MaxBits \/ Sampled(b) <= MaxHuffImageSize
                     /\ \A c \in start..b - 1 : Sampled(c) > MaxHuffImageSize
             single == CHOOSE b \in MinBits..coarse :
                     /\ b = MinBits \/ Sampled(b - 1) # 1
                     /\ \A c \in b..coarse - 1 : Sampled(c) = 1
             Few == {b \in start..MaxBits : b = MaxBits \/ ~(Sampled(b) > MaxHuffImageSize)}
             Lone == {b \in MinBits..coarse : \A c \in b..coarse - 1 : Sampled(c) = 1}
  <1>1. start \in 2..9 /\ MinBits = 2 /\ MaxBits = 9
    <2>1. Min({bits, 9}) = IF bits <= 9 THEN bits ELSE 9
      BY MinTwo
    <2>2. Min({bits, 9}) \in Int /\ Min({bits, 9}) <= 9
      BY <2>1
    <2>3. Max({2, Min({bits, 9})}) = IF 2 >= Min({bits, 9}) THEN 2 ELSE Min({bits, 9})
      BY <2>2, MaxTwo
    <2> QED
      BY <2>2, <2>3 DEF MinBits, MaxBits
  <1>2. \A b \in 0..9 : Sampled(b) \in Int
    <2>1. Width \in Nat \ {0} /\ Height \in Nat \ {0}
      BY DEF IsPicture, Width, Height
    <2>2. TAKE b \in 0..9
    <2>3. SubSampleSize(Width, b) \in Nat /\ SubSampleSize(Height, b) \in Nat
      BY <2>1, Covering
    <2> QED
      BY <2>3 DEF Sampled
  <1> HIDE DEF start
  <1>3. coarse \in start..9
    <2>1. 9 \in Few /\ Few \in SUBSET Nat
      BY <1>1
    <2>2. PICK b : b = Min(Few)
      OBVIOUS
    <2> HIDE DEF Few
    <2>3. b \in Few /\ \A c \in Few : b <= c
      BY <2>1, <2>2, NatMin
    <2>4. b \in start..MaxBits /\ (b = MaxBits \/ ~(Sampled(b) > MaxHuffImageSize))
          /\ \A c \in start..b - 1 : Sampled(c) > MaxHuffImageSize
      BY <1>1, <2>3 DEF Few
    <2>5. b \in start..MaxBits /\ (b = MaxBits \/ Sampled(b) <= MaxHuffImageSize)
          /\ \A c \in start..b - 1 : Sampled(c) > MaxHuffImageSize
      <3>1. b \in 0..9
        BY <1>1, <2>4
      <3> QED
        BY <2>4, <3>1, <1>2 DEF MaxHuffImageSize
    <2> QED
      BY <1>1, <2>5
  <1> HIDE DEF coarse, Few
  <1>4. single \in 2..9
    <2>1. coarse \in Lone /\ Lone \in SUBSET Nat
      BY <1>1, <1>3
    <2>2. PICK b : b = Min(Lone)
      OBVIOUS
    <2>3. b \in Lone /\ \A c \in Lone : b <= c
      <3> HIDE DEF Lone
      <3> QED
        BY <2>1, <2>2, NatMin
    <2>4. b \in MinBits..coarse /\ \A c \in b..coarse - 1 : Sampled(c) = 1
      BY <2>3
    <2>5. b = MinBits \/ Sampled(b - 1) # 1
      <3>1. SUFFICES ASSUME b # MinBits, Sampled(b - 1) = 1 PROVE FALSE
        OBVIOUS
      <3>2. b - 1 \in MinBits..coarse /\ \A c \in b - 1..coarse - 1 : c = b - 1 \/ c \in b..coarse - 1
        BY <1>1, <1>3, <2>4, <3>1
      <3>3. b - 1 \in Lone
        BY <2>4, <3>1, <3>2
      <3> HIDE DEF Lone
      <3> QED
        BY <1>1, <1>3, <2>3, <2>4, <3>3
    <2> HIDE DEF Lone
    <2>6. single \in MinBits..coarse
      BY <2>4, <2>5
    <2> QED
      BY <1>1, <1>3, <2>6
  <1> HIDE DEF single, Lone
  <1>5. ClampBits(bits) = IF Sampled(coarse) # 1 THEN coarse ELSE single
    BY DEF ClampBits, start, coarse, single
  <1> QED
    BY <1>1, <1>3, <1>4, <1>5

LEMMA JobFacts ==
  IsPicture(job) =>
      /\ Width \in Nat \ {0} /\ Height \in Nat \ {0} /\ Size \in Nat \ {0}
      /\ CodeBits \in 0..3 /\ CodedWidth \in Nat \ {0} /\ (~UsePalette \/ CodeBits = 0 => CodedWidth = Width)
      /\ TransformBits \in 0..9 /\ TileYSize \in Nat \ {0}
      /\ SubSampleSize(CodedWidth, TransformBits) \in Nat \ {0}
  <1> SUFFICES ASSUME IsPicture(job)
               PROVE  /\ Width \in Nat \ {0} /\ Height \in Nat \ {0} /\ Size \in Nat \ {0}
                      /\ CodeBits \in 0..3 /\ CodedWidth \in Nat \ {0}
                      /\ (~UsePalette \/ CodeBits = 0 => CodedWidth = Width)
                      /\ TransformBits \in 0..9 /\ TileYSize \in Nat \ {0}
                      /\ SubSampleSize(CodedWidth, TransformBits) \in Nat \ {0}
    OBVIOUS
  <1>1. Width \in Nat \ {0} /\ Height \in Nat \ {0} /\ job.method \in Nat
    BY DEF IsPicture, Width, Height
  <1>2. Size \in Nat \ {0}
    <2>1. \A v, w \in Nat \ {0} : v * w \in Nat \ {0}
      OBVIOUS
    <2> QED
      BY <1>1, <2>1 DEF Size
  <1>3. CodeBits \in 0..3
    BY DEF CodeBits, PaletteCodeBits
  <1>4. CodedWidth \in Nat \ {0}
    <2>1. SubSampleSize(Width, CodeBits) \in Nat \ {0}
      <3>1. CodeBits \in 0..9
        BY <1>3
      <3> QED
        BY <1>1, <3>1, Covering
    <2> QED
      BY <1>1, <2>1 DEF CodedWidth
  <1>5. ~UsePalette \/ CodeBits = 0 => CodedWidth = Width
    <2>1. SubSampleSize(Width, 0) = Width
      BY <1>1, OnePerWord
    <2> QED
      BY <2>1 DEF CodedWidth
  <1>6. TransformBits \in 0..9
    <2>1. HistoBits \in 0..9
      <3>1. (IF UsePalette THEN 9 - job.method ELSE 7 - job.method) \in Int
        BY <1>1
      <3> QED
        BY <3>1, Coarseness DEF HistoBits
    <2> DEFINE most == IF job.method < 4 THEN 6 ELSE IF job.method > 4 THEN 4 ELSE 5
    <2>2. most \in 0..9
      OBVIOUS
    <2> HIDE DEF most
    <2>3. Min({HistoBits, most}) = IF HistoBits <= most THEN HistoBits ELSE most
      BY <2>1, <2>2, MinTwo
    <2>4. TransformBits = Min({HistoBits, most})
      BY DEF TransformBits, most
    <2> QED
      BY <2>1, <2>2, <2>3, <2>4
  <1>7. TileYSize \in Nat \ {0} /\ SubSampleSize(CodedWidth, TransformBits) \in Nat \ {0}
    BY <1>1, <1>4, <1>6, Covering DEF TileYSize
  <1> QED
    BY <1>1, <1>2, <1>3, <1>4, <1>5, <1>6, <1>7

Types == {"ColorIndexing", "SubtractGreen", "Predictor", "CrossColor"}

LEMMA ChosenFacts ==
  /\ IsSequence(Chosen) /\ Len(Chosen) \in 0..3
  /\ \A k \in 1..Len(Chosen) : Chosen[k] \in Types /\ (Chosen[k] = "ColorIndexing" <=> UsePalette /\ k = 1)
  /\ UsePalette => Len(Chosen) >= 1 /\ (Len(Chosen) > 1 => UsePredict) /\ Len(Chosen) <= 2
  /\ UsePalette => \A k \in 2..Len(Chosen) : Chosen[k] = "Predictor"
  <1>1. ASSUME NEW c \in Seq(Types) PROVE IsSequence(c) /\ \A k \in 1..Len(c) : c[k] \in Types
    BY SequenceOf
  <1>2. CASE UsePalette
    <2> DEFINE a == <<"ColorIndexing">>
               b == IF UsePredict THEN <<"Predictor">> ELSE <<>>
    <2>1. Chosen = a \o b
      BY <1>2, Zenon DEF Chosen
    <2>2. /\ a \in Seq(Types) /\ Len(a) = 1 /\ a[1] = "ColorIndexing"
          /\ b \in Seq(Types) /\ Len(b) \in 0..1 /\ (Len(b) = 1 => UsePredict /\ b[1] = "Predictor")
      <3>1. "ColorIndexing" \in Types /\ "Predictor" \in Types
        BY DEF Types
      <3>2. a \in Seq(Types) /\ Len(a) = 1 /\ a[1] = "ColorIndexing"
        BY <3>1
      <3>3. CASE UsePredict
        <4>1. b = <<"Predictor">>
          BY <3>3
        <4> HIDE DEF b
        <4>2. b \in Seq(Types) /\ Len(b) = 1 /\ b[1] = "Predictor"
          BY <3>1, <4>1
        <4> QED
          BY <3>2, <3>3, <4>2
      <3>4. CASE ~UsePredict
        <4>1. b = <<>>
          BY <3>4
        <4> HIDE DEF b
        <4>2. b \in Seq(Types) /\ Len(b) = 0
          BY <4>1
        <4> QED
          BY <3>2, <4>2
      <3> QED
        BY <3>3, <3>4
    <2> HIDE DEF a, b
    <2>3. /\ Chosen \in Seq(Types) /\ Len(Chosen) = 1 + Len(b) /\ Chosen[1] = "ColorIndexing"
          /\ (Len(b) = 1 => Chosen[2] = b[1])
      <3>1. \A u, v \in Seq(Types) : /\ u \o v \in Seq(Types) /\ Len(u \o v) = Len(u) + Len(v)
                                     /\ (Len(u) = 1 => (u \o v)[1] = u[1])
                                     /\ (Len(u) = 1 /\ Len(v) = 1 => (u \o v)[2] = v[1])
        OBVIOUS
      <3> QED
        BY <2>1, <2>2, <3>1
    <2>4. \A k \in 1..Len(Chosen) : k = 1 \/ (k = 2 /\ Chosen[k] = "Predictor")
      <3>1. Len(b) = 0 \/ Len(b) = 1
        BY <2>2
      <3>2. PICK n, m : n = Len(Chosen) /\ m = Len(b)
        OBVIOUS
      <3>3. n = 1 \/ (n = 2 /\ m = 1)
        <4>1. n = 1 + m /\ (m = 0 \/ m = 1)
          BY <2>3, <3>1, <3>2
        <4> QED
          BY <4>1
      <3>4. \A k \in 1..n : k = 1 \/ (k = 2 /\ m = 1)
        BY <3>3
      <3> QED
        BY <2>2, <2>3, <3>2, <3>4
    <2>5. IsSequence(Chosen) /\ \A k \in 1..Len(Chosen) : Chosen[k] \in Types
      BY <1>1, <2>3
    <2> QED
      BY <1>2, <2>2, <2>3, <2>4, <2>5
  <1>3. CASE ~UsePalette
    <2> DEFINE a == IF job.quality >= 25 THEN <<"SubtractGreen">> ELSE <<>>
               b == IF UsePredict THEN <<"Predictor">> ELSE <<>>
               c == IF job.quality >= 50 THEN <<"CrossColor">> ELSE <<>>
               Others == {"SubtractGreen", "Predictor", "CrossColor"}
    <2>1. Chosen = (a \o b) \o c
      BY <1>3, Zenon DEF Chosen
    <2>2. a \in Seq(Others) /\ b \in Seq(Others) /\ c \in Seq(Others) /\ Len(a) \in 0..1 /\ Len(b) \in 0..1 /\ Len(c) \in 0..1
      <3>1. \A e \in Others : <<e>> \in Seq(Others) /\ Len(<<e>>) = 1
        OBVIOUS
      <3>2. <<>> \in Seq(Others) /\ Len(<<>>) = 0
        OBVIOUS
      <3>3. "SubtractGreen" \in Others /\ "Predictor" \in Others /\ "CrossColor" \in Others
        OBVIOUS
      <3> HIDE DEF Others
      <3> QED
        BY <3>1, <3>2, <3>3
    <2> HIDE DEF a, b, c
    <2>3. (a \o b) \in Seq(Others) /\ Len(a \o b) = Len(a) + Len(b)
      BY <2>2
    <2>4. Chosen \in Seq(Others) /\ Len(Chosen) = Len(a) + Len(b) + Len(c)
      <3> HIDE DEF Others
      <3> QED
        BY <2>1, <2>2, <2>3
    <2>5. \A k \in 1..Len(Chosen) : Chosen[k] \in Others
      <3> HIDE DEF Others
      <3> QED
        BY <2>4
    <2>6. Chosen \in Seq(Types)
      <3>1. Others \subseteq Types
        BY DEF Types
      <3> HIDE DEF Others
      <3> QED
        BY <2>4, <3>1
    <2>7. IsSequence(Chosen) /\ \A k \in 1..Len(Chosen) : Chosen[k] \in Types
      BY <1>1, <2>6
    <2>8. Len(Chosen) \in 0..3
      <3>1. \A u, v, w \in 0..1 : u + v + w \in 0..3
        OBVIOUS
      <3> QED
        BY <2>2, <2>4, <3>1
    <2> QED
      BY <1>3, <2>5, <2>7, <2>8
  <1> QED
    BY <1>2, <1>3

LEMMA SameJob ==
  ASSUME job' = job
  PROVE  /\ Width' = Width /\ Height' = Height /\ Size' = Size /\ (UsePalette' <=> UsePalette)
         /\ Palette' = Palette /\ Chosen' = Chosen /\ CodeBits' = CodeBits /\ CodedWidth' = CodedWidth
         /\ TransformBits' = TransformBits /\ TileYSize' = TileYSize
         /\ (IsNearLossless' <=> IsNearLossless) /\ LimitBits' = LimitBits /\ UsePredict' = UsePredict
         /\ \A t : Sound(t)' <=> Sound(t)
  <1>1. Width' = Width /\ Height' = Height /\ Colors' = Colors
    BY DEF Width, Height, Colors
  <1>2. Size' = Size /\ UsePalette' = UsePalette /\ Palette' = Palette
    BY <1>1 DEF Size, UsePalette, Palette
  <1>3. CodeBits' = CodeBits
    BY <1>1 DEF CodeBits
  <1>4. CodedWidth' = CodedWidth
    BY <1>1, <1>2, <1>3 DEF CodedWidth
  <1>5. UsePredict' = UsePredict
    BY <1>2 DEF UsePredict
  <1>6. Chosen' = Chosen
    BY <1>2, <1>5 DEF Chosen
  <1>8. \A b : ClampBits(b)' = ClampBits(b)
    BY DEF ClampBits, Sampled, Width, Height
  <1>9. HistoBits' = HistoBits
    BY <1>2, <1>8 DEF HistoBits
  <1>10. TransformBits' = TransformBits
    BY <1>9 DEF TransformBits
  <1>11. TileYSize' = TileYSize
    BY <1>1, <1>10 DEF TileYSize
  <1>12. LimitBits' = LimitBits
    BY DEF LimitBits
  <1>13. IsNearLossless' = IsNearLossless
    BY <1>1, <1>12 DEF IsNearLossless
  <1>15. \A t : Sound(t)' = Sound(t)
    BY <1>2, <1>3, <1>4, <1>10, <1>11 DEF Sound
  <1> QED
    BY <1>1, <1>2, <1>3, <1>4, <1>6, <1>10, <1>11, <1>12, <1>5, <1>13, <1>15

LEMMA SameTiles ==
  ASSUME job' = job, currentWidth' = currentWidth
  PROVE  /\ TileXSize' = TileXSize /\ NumTiles' = NumTiles /\ NumWorkers' = NumWorkers /\ Count' = Count
         /\ (\A w : TyStart(w)' = TyStart(w) /\ TyEnd(w)' = TyEnd(w))
         /\ (\A i : TileOf(i)' = TileOf(i))
  <1>1. TransformBits' = TransformBits /\ TileYSize' = TileYSize /\ Height' = Height
    BY SameJob
  <1>2. TileXSize' = TileXSize
    BY <1>1 DEF TileXSize
  <1>3. NumTiles' = NumTiles
    BY <1>1, <1>2 DEF NumTiles
  <1>4. NumWorkers' = NumWorkers
    BY <1>1, <1>3 DEF NumWorkers
  <1>5. RowsPerWorker' = RowsPerWorker
    BY <1>1, <1>4 DEF RowsPerWorker
  <1> QED
    BY <1>1, <1>2, <1>3, <1>4, <1>5 DEF TyStart, TyEnd, TileOf, Count

Basic == TypeInv /\ Line /\ Tiling /\ Sized

\* How wide the pixels are while a transform other than the palette is made.
LEMMA WidthNow ==
  ASSUME Line, stage # "idle", Len(todo) > 0, IsPicture(job)
  PROVE  /\ Head(todo) \in Types
         /\ Head(todo) # "ColorIndexing" => currentWidth = CodedWidth /\ (Len(transforms) > 0 \/ CodedWidth = Width)
         /\ Head(todo) = "ColorIndexing" => UsePalette /\ Len(transforms) = 0
         /\ Head(todo) = Chosen[Len(transforms) + 1] /\ Len(transforms) + 1 \in 1..Len(Chosen)
  <1>1. IsSequence(transforms) /\ IsSequence(todo) /\ Listed
    BY DEF Line
  <1>2. Len(transforms) \in Nat /\ Len(todo) \in Nat
    BY <1>1 DEF IsSequence
  <1>3. Head(todo) = todo[1]
    BY <1>1 DEF IsSequence
  <1>4. Head(todo) = Chosen[Len(transforms) + 1] /\ Len(transforms) + Len(todo) = Len(Chosen)
    <2>1. 1 \in 1..Len(todo)
      BY <1>2
    <2> QED
      BY <1>1, <1>3, <2>1 DEF Listed
  <1>5. Len(Chosen) \in 0..3
    BY ChosenFacts
  <1>6. Len(transforms) + 1 \in 1..Len(Chosen)
    BY <1>2, <1>4, <1>5
  <1>7. Head(todo) \in Types /\ (Head(todo) = "ColorIndexing" <=> UsePalette /\ Len(transforms) + 1 = 1)
    BY <1>4, <1>6, ChosenFacts
  <1>8. CASE Len(transforms) = 0
    <2>1. currentWidth = Width
      BY <1>1, <1>8 DEF Listed
    <2>2. ~UsePalette => CodedWidth = Width
      BY JobFacts
    <2> QED
      BY <1>4, <1>6, <1>7, <1>8, <2>1, <2>2
  <1>9. CASE Len(transforms) # 0
    <2>1. currentWidth = CodedWidth
      BY <1>1, <1>9 DEF Listed
    <2> QED
      BY <1>2, <1>4, <1>6, <1>7, <1>9, <2>1
  <1> QED
    BY <1>8, <1>9

LEMMA Init_Basic == Init => Basic
  <1> SUFFICES ASSUME Init PROVE Basic
    OBVIOUS
  <1>1. TypeInv
    <2>1. IsSequence(queue) /\ \A j \in Range(queue) : IsPicture(j)
      BY TransformsAssumption DEF Init, IsSequence
    <2>2. DOMAIN mem = 1..3 /\ \A i \in 1..3 : mem[i] = None
      BY DEF Init
    <2> QED
      BY <2>1, <2>2, NoArray DEF Init, TypeInv
  <1>2. Line
    BY Empty DEF Init, Line
  <1>3. Tiling
    BY DEF Init, Tiling
  <1>4. Sized
    BY DEF Init, Sized
  <1> QED
    BY <1>1, <1>2, <1>3, <1>4 DEF Basic

-----------------------------------------------------------------------------
(* Tiles *)

LEMMA TileFacts ==
  ASSUME Line, stage # "idle", IsPicture(job)
  PROVE  /\ currentWidth \in Nat \ {0} /\ Count \in Nat \ {0}
         /\ TileXSize \in Nat \ {0} /\ NumTiles \in Nat \ {0}
         /\ NumWorkers \in Nat \ {0} /\ 0..NumWorkers - 1 \subseteq Procs
  <1>1. currentWidth \in Nat \ {0}
    BY JobFacts DEF Line, Listed
  <1>2. TileXSize \in Nat \ {0}
    BY <1>1, JobFacts, Covering DEF TileXSize
  <1>3. \A v, w \in Nat \ {0} : v * w \in Nat \ {0}
    OBVIOUS
  <1>4. Count \in Nat \ {0} /\ NumTiles \in Nat \ {0}
    BY <1>1, <1>2, <1>3, JobFacts DEF Count, NumTiles
  <1>5. MaxProcs \in Nat \ {0} /\ TileYSize \in Nat \ {0}
    BY JobFacts, TransformsAssumption
  <1>6. Min({MaxProcs, TileYSize}) = IF MaxProcs <= TileYSize THEN MaxProcs ELSE TileYSize
    BY <1>5, MinTwo
  <1>7. NumWorkers \in Nat \ {0} /\ NumWorkers <= MaxProcs
    BY <1>5, <1>6 DEF NumWorkers
  <1>8. 0..NumWorkers - 1 \subseteq Procs
    BY <1>5, <1>7 DEF Procs
  <1> QED
    BY <1>1, <1>2, <1>4, <1>7, <1>8

Mine(t, w) == t \div TileXSize \in TyStart(w)..TyEnd(w) - 1

LEMMA TileOwner ==
  ASSUME Line, stage # "idle", IsPicture(job), NEW t \in 0..NumTiles - 1
  PROVE  \E w \in 0..NumWorkers - 1 : Mine(t, w) /\ \A v \in 0..NumWorkers - 1 : Mine(t, v) => v = w
  <1>1. TileXSize \in Nat \ {0} /\ NumWorkers \in Nat \ {0} /\ TileYSize \in Nat \ {0}
    BY TileFacts, JobFacts
  <1>2. t \in 0..TileYSize * TileXSize - 1
    <2>1. TileXSize * TileYSize = TileYSize * TileXSize
      BY <1>1
    <2> QED
      BY <2>1 DEF NumTiles
  <1>3. t \div TileXSize \in 0..TileYSize - 1
    BY <1>1, <1>2, InCell
  <1> DEFINE i == t \div TileXSize
             k == NumWorkers
             n == TileYSize
  <1>4. \E w \in 0..k - 1 :
           /\ i \in ShareStart(RoundedUp(n, k), w)..ShareEnd(n, RoundedUp(n, k), w) - 1
           /\ \A v \in 0..k - 1 :
                i \in ShareStart(RoundedUp(n, k), v)..ShareEnd(n, RoundedUp(n, k), v) - 1 => v = w
    <2>1. n \in Nat /\ k \in Nat /\ k >= 1 /\ i \in 0..n - 1
      BY <1>1, <1>3
    <2> HIDE DEF i, k, n
    <2> QED
      BY <2>1, RoundedUpSharesOnce
  <1> QED
    BY <1>4 DEF Mine, TyStart, TyEnd, RowsPerWorker

\* The tile a worker is at is its own.
LEMMA NextIsMine ==
  ASSUME Line, stage # "idle", IsPicture(job), NEW w \in 0..NumWorkers - 1, NEW k \in Nat,
         NEW t, t = TyStart(w) * TileXSize + k, t < TyEnd(w) * TileXSize
  PROVE  t \in 0..NumTiles - 1 /\ Mine(t, w)
  <1>1. TileXSize \in Nat \ {0} /\ NumWorkers \in Nat \ {0} /\ TileYSize \in Nat \ {0}
    BY TileFacts, JobFacts
  <1>2. RowsPerWorker \in Nat
    BY <1>1, Enough DEF RowsPerWorker
  <1>3. TyStart(w) \in Nat /\ TyEnd(w) \in Nat /\ TyEnd(w) <= TileYSize
    <2>1. w * RowsPerWorker \in Nat
      BY <1>2
    <2> QED
      BY <1>1, <1>2, <2>1 DEF TyStart, TyEnd, ShareStart, ShareEnd
  <1>4. TyStart(w) * TileXSize \in Nat /\ TyEnd(w) * TileXSize \in Nat
    BY <1>1, <1>3
  <1>5. t \in 0..TyEnd(w) * TileXSize - 1
    BY <1>4
  <1>6. t \div TileXSize \in 0..TyEnd(w) - 1 /\ t = (t \div TileXSize) * TileXSize + (t % TileXSize)
        /\ t % TileXSize \in 0..TileXSize - 1
    BY <1>1, <1>3, <1>5, InCell
  <1>7. TyStart(w) <= t \div TileXSize
    <2>1. PICK q, r : q = t \div TileXSize /\ r = t % TileXSize
      OBVIOUS
    <2>2. q \in Nat /\ t = q * TileXSize + r /\ r < TileXSize /\ r \in Nat
      BY <1>1, <1>6, <2>1
    <2>3. SUFFICES ASSUME q < TyStart(w) PROVE FALSE
      BY <1>3, <2>1, <2>2
    <2>4. q * TileXSize + TileXSize <= TyStart(w) * TileXSize /\ q * TileXSize \in Nat
      BY <1>1, <1>3, <2>2, <2>3, Apart
    <2> QED
      BY <1>1, <1>4, <2>2, <2>4
  <1>8. TyEnd(w) * TileXSize <= TileYSize * TileXSize /\ TileYSize * TileXSize = TileXSize * TileYSize
    BY <1>1, <1>3, Grows
  <1>9. t \in 0..NumTiles - 1
    <2>1. TileXSize * TileYSize \in Nat
      BY <1>1
    <2> QED
      BY <1>4, <1>5, <1>8, <2>1 DEF NumTiles
  <1> QED
    BY <1>3, <1>6, <1>7, <1>9 DEF Mine

LEMMA TileInRange ==
  ASSUME Line, stage # "idle", IsPicture(job), NEW i \in 0..Count - 1
  PROVE  TileOf(i) \in 0..NumTiles - 1
  <1>1. /\ TileXSize \in Nat \ {0} /\ TileYSize \in Nat \ {0} /\ currentWidth \in Nat \ {0} /\ Height \in Nat \ {0}
        /\ TransformBits \in 0..9
    BY TileFacts, JobFacts
  <1>2. currentWidth * Height = Height * currentWidth
    BY <1>1
  <1>3. i \in 0..Height * currentWidth - 1
    BY <1>2 DEF Count
  <1>4. i \div currentWidth \in 0..Height - 1 /\ i % currentWidth \in 0..currentWidth - 1
    BY <1>1, <1>3, InCell
  <1>5. /\ (i \div currentWidth) \div 2^TransformBits \in 0..TileYSize - 1
        /\ (i % currentWidth) \div 2^TransformBits \in 0..TileXSize - 1
    BY <1>1, <1>4, Covering DEF TileXSize, TileYSize
  <1> DEFINE r == (i \div currentWidth) \div 2^TransformBits
             c == (i % currentWidth) \div 2^TransformBits
  <1>6. r * TileXSize + c \in Nat /\ r * TileXSize + c < TileXSize * TileYSize
    <2>1. r \in Nat /\ r < TileYSize /\ c \in 0..TileXSize - 1 /\ TileYSize \in Nat /\ TileXSize \in Nat
      BY <1>1, <1>5
    <2> HIDE DEF r, c
    <2> QED
      BY <2>1, Cell
  <1>7. TileXSize * TileYSize \in Nat
    BY <1>1
  <1> QED
    BY <1>6, <1>7 DEF TileOf, NumTiles

LEMMA LineSame ==
  ASSUME Line, stage # "idle", job' = job, transforms' = transforms, todo' = todo, currentWidth' = currentWidth
  PROVE  IsSequence(transforms)' /\ IsSequence(todo)' /\ Listed'
  <1>1. IsSequence(transforms) /\ IsSequence(todo) /\ Listed
    BY DEF Line
  <1>2. IsSequence(transforms)' /\ IsSequence(todo)'
    BY <1>1 DEF IsSequence
  <1>3. Listed'
    <2>1. /\ Len(transforms') + Len(todo') = Len(Chosen')
          /\ currentWidth' = IF Len(transforms') = 0 THEN Width' ELSE CodedWidth'
      BY <1>1, SameJob DEF Listed
    <2>2. ASSUME NEW k \in 1..Len(transforms')
          PROVE  transforms'[k].type = Chosen'[k] /\ Sound(transforms[k])'
      <3>1. transforms[k].type = Chosen[k] /\ Sound(transforms[k])
        BY <1>1, <2>2 DEF Listed
      <3>2. Sound(transforms[k])' 
        BY <3>1, SameJob DEF Sound
      <3> QED
        BY <3>1, <3>2, SameJob
    <2>3. ASSUME NEW k \in 1..Len(todo') PROVE todo'[k] = Chosen'[Len(transforms') + k]
      BY <1>1, <2>3, SameJob DEF Listed
    <2> QED
      BY <2>1, <2>2, <2>3 DEF Listed
  <1> QED
    BY <1>2, <1>3

\* A transform was applied: it goes from one list to the other.
LEMMA LineNext ==
  ASSUME Line, stage # "idle", Len(todo) > 0, IsPicture(job), job' = job, NEW type, NEW bits, NEW values,
         Head(todo) = type, Applied(type, bits, values), currentWidth' = CodedWidth,
         \A t : t.type = type /\ t.bits = bits /\ t.xsize = CodedWidth /\ t.data = values => Sound(t)
  PROVE  Line'
  <1>1. IsSequence(transforms) /\ IsSequence(todo) /\ Listed
    BY DEF Line
  <1>2. PICK t : t = [type |-> type, bits |-> bits, xsize |-> currentWidth', ysize |-> Height, data |-> values]
    OBVIOUS
  <1>3. transforms' = Append(transforms, t) /\ todo' = Tail(todo) /\ stage' = "transform"
    BY <1>2 DEF Applied
  <1>4. t.type = type /\ Sound(t)
    BY <1>2
  <1>5. /\ IsSequence(transforms') /\ Len(transforms) \in Nat /\ Len(transforms') = Len(transforms) + 1
        /\ (\A k \in 1..Len(transforms) : transforms'[k] = transforms[k])
        /\ transforms'[Len(transforms) + 1] = t
    BY <1>1, <1>3, Appended
  <1>6. /\ IsSequence(todo') /\ Len(todo) \in Nat \ {0} /\ Head(todo) = todo[1]
        /\ Len(todo') = Len(todo) - 1 /\ \A k \in 1..Len(todo) - 1 : todo'[k] = todo[k + 1]
    <2>1. todo # <<>>
      BY <1>1
    <2> QED
      BY <1>1, <1>3, <2>1, Tailed
  <1>7. Listed'
    <2>1. Len(transforms') + Len(todo') = Len(Chosen')
      <3>1. Len(transforms) + Len(todo) = Len(Chosen) /\ Len(Chosen') = Len(Chosen)
        BY <1>1, SameJob DEF Listed
      <3>2. \A u, v \in Nat : (u + 1) + (v - 1) = u + v
        OBVIOUS
      <3> QED
        BY <1>5, <1>6, <3>1, <3>2
    <2>2. ASSUME NEW k \in 1..Len(transforms')
          PROVE  transforms'[k].type = Chosen'[k] /\ Sound(transforms[k])'
      <3>1. transforms'[k].type = Chosen[k] /\ Sound(transforms'[k])
        <4>1. CASE k \in 1..Len(transforms)
          BY <1>1, <1>5, <4>1 DEF Listed
        <4>2. CASE k = Len(transforms) + 1
          <5>1. transforms'[k] = t
            BY <1>5, <4>2
          <5>2. type = Chosen[k]
            <6>1. 1 \in 1..Len(todo)
              BY <1>6
            <6>2. todo[1] = Chosen[Len(transforms) + 1]
              BY <1>1, <6>1 DEF Listed
            <6> QED
              BY <1>6, <4>2, <6>2
          <5> QED
            BY <1>4, <5>1, <5>2
        <4> QED
          BY <1>5, <4>1, <4>2
      <3>2. PICK u : u = transforms'[k]
        OBVIOUS
      <3>3. Sound(u)'
        BY <3>1, <3>2, SameJob
      <3>4. Sound(transforms[k])'
        BY <3>2, <3>3 DEF Sound
      <3> QED
        BY <3>1, <3>4, SameJob
    <2>3. ASSUME NEW k \in 1..Len(todo') PROVE todo'[k] = Chosen'[Len(transforms') + k]
      <3>1. k \in 1..Len(todo) - 1 /\ k + 1 \in 1..Len(todo)
        BY <1>6
      <3>2. todo'[k] = Chosen[Len(transforms) + (k + 1)]
        BY <1>1, <1>6, <3>1 DEF Listed
      <3>3. Len(transforms) + (k + 1) = Len(transforms') + k
        BY <1>5
      <3> QED
        BY <3>2, <3>3, SameJob
    <2>4. currentWidth' = IF Len(transforms') = 0 THEN Width' ELSE CodedWidth'
      BY <1>5, SameJob
    <2> QED
      BY <2>1, <2>2, <2>3, <2>4 DEF Listed
  <1> QED
    BY <1>3, <1>5, <1>6, <1>7 DEF Line

LEMMA FreeOther ==
  ASSUME TypeInv
  PROVE  Free \in 1..3 /\ Free # argb /\ Free # residuals
  <1>1. argb \in 1..3 /\ residuals \in 1..3
    BY DEF TypeInv
  <1>2. \E i \in 1..3 : i \notin {argb, residuals}
    <2>1. 1 \notin {argb, residuals} \/ 2 \notin {argb, residuals} \/ 3 \notin {argb, residuals}
      OBVIOUS
    <2> QED
      BY <2>1
  <1> QED
    BY <1>2 DEF Free

LEMMA SameDomain ==
  ASSUME NEW a, IsArray(a), NEW b, DOMAIN b = DOMAIN a
  PROVE  IsArray(b) /\ Cap(b) = Cap(a)
  BY DEF IsArray, Cap

LEMMA MemPut ==
  ASSUME TypeInv, NEW i \in 1..3, NEW a, IsArray(a), mem' = [mem EXCEPT ![i] = a]
  PROVE  /\ DOMAIN mem' = 1..3 /\ \A k \in 1..3 : IsArray(mem'[k])
         /\ mem'[i] = a /\ \A k \in 1..3 \ {i} : mem'[k] = mem[k]
  BY DEF TypeInv

LEMMA TypeNext ==
  ASSUME TypeInv, stage # "idle", queue' = queue, job' = job,
         stage' \in {"idle", "near", "transform", "tiles", "residuals", "header", "inverse", "shown"},
         DOMAIN mem' = 1..3, \A i \in 1..3 : IsArray(mem'[i]), argb' \in 1..3, residuals' \in 1..3,
         IsArray(pixels'), IsArray(transformBuf')
  PROVE  TypeInv'
  BY DEF TypeInv, IsSequence, IsPicture

LEMMA MemSame == ASSUME TypeInv, mem' = mem PROVE DOMAIN mem' = 1..3 /\ \A i \in 1..3 : IsArray(mem'[i])
  BY DEF TypeInv

LEMMA Begin_Basic ==
  ASSUME Basic, Begin
  PROVE  Basic'
  <1>1. TypeInv
    BY DEF Basic
  <1>2. queue # <<>> /\ queue' = Tail(queue) /\ job' = Head(queue) /\ IsSequence(queue)
    BY <1>1 DEF Begin, TypeInv
  <1>3. IsSequence(queue') /\ Range(queue') \subseteq Range(queue) /\ job' \in Range(queue)
    BY <1>2, Tailed
  <1>4. IsPicture(job')
    BY <1>1, <1>3 DEF TypeInv
  <1> DEFINE n == job'.width * job'.height
             to == IF Cap(mem[argb]) >= n THEN argb ELSE Free
  <1>5. n \in Nat
    BY <1>4 DEF IsPicture
  <1>6. /\ argb' = to /\ residuals' = residuals /\ pixels' = pixels /\ transformBuf' = transformBuf
        /\ mem' = [mem EXCEPT ![to] = Overwrite(Reused(mem[argb], n), n, job'.argb)]
        /\ stage' = IF IsNearLossless' THEN "near" ELSE "transform"
        /\ currentWidth' = job'.width /\ transforms' = <<>> /\ todo' = Chosen'
    BY DEF Begin, reading, undoing
  <1>7. TypeInv'
    <2>1. to \in 1..3 /\ argb \in 1..3 /\ IsArray(mem[argb])
      BY <1>1, FreeOther DEF TypeInv
    <2> HIDE DEF n, to
    <2>2. IsArray(Reused(mem[argb], n)) /\ Cap(Reused(mem[argb], n)) >= n
      BY <1>5, <2>1, ReusedArray
    <2>3. IsArray(Overwrite(Reused(mem[argb], n), n, job'.argb))
      BY <1>5, <2>2, OverwrittenArray
    <2>4. DOMAIN mem' = 1..3 /\ \A k \in 1..3 : IsArray(mem'[k])
      BY <1>1, <1>6, <2>1, <2>3, MemPut
    <2> QED
      BY <1>1, <1>3, <1>4, <1>6, <2>1, <2>4 DEF TypeInv, IsSequence
  <1>8. Line'
    <2>1. (/\ IsSequence(Chosen) /\ Len(Chosen) \in 0..3)'
      BY ChosenFacts, PTL
    <2>2. IsSequence(transforms') /\ IsSequence(todo')
      BY <1>6, <2>1, Empty
    <2>3. Len(transforms') = 0
      BY <1>6
    <2>4. Listed'
      BY <1>6, <2>1, <2>3 DEF Listed, Width
    <2> QED
      BY <1>6, <2>2, <2>3, <2>4 DEF Line
  <1>9. Tiling'
    BY <1>6 DEF Tiling
  <1> QED
    BY <1>6, <1>7, <1>8, <1>9 DEF Basic, Sized

LEMMA NearRow_Basic ==
  ASSUME Basic, NearRow
  PROVE  Basic'
  <1>1. TypeInv /\ Line /\ stage = "near" /\ IsPicture(job)
    BY DEF Basic, NearRow, TypeInv
  <1>2. PICK a : mem' = [mem EXCEPT ![Free] = a] /\ IsArray(a)
    <2> DEFINE from == IF near = LimitBits THEN argb ELSE Free
               rows == IF y = 0 THEN <<None, Row(mem[from], Width, 0), Row(mem[from], Width, 1)>> ELSE scratch
               below == IF y \in 1..Height - 2 THEN Row(mem[from], Width, y + 1) ELSE rows[3]
               inner == y \in 1..Height - 2
               new == [x \in 0..Width - 1 |-> IF inner THEN NearPixel(rows[1], rows[2], below, x, near)
                                               ELSE mem[from][y * Width + x]]
               into == IF near = LimitBits /\ y = 0 THEN Zeros(Width * Height) ELSE mem[Free]
               a == [i \in DOMAIN into |-> IF InRow(i, Width, y) THEN new[i % Width] ELSE into[i]]
    <2>1. mem' = [mem EXCEPT ![Free] = a]
      BY DEF NearRow
    <2>2. IsArray(into)
      <3>1. Width * Height \in Nat
        BY <1>1, JobFacts DEF Size
      <3>2. IsArray(Zeros(Width * Height))
        <4>1. DOMAIN Zeros(Width * Height) = 0..Width * Height - 1
          BY DEF Zeros
        <4> QED
          BY <3>1, <4>1, ArrayOf
      <3> QED
        BY <1>1, <3>2, FreeOther DEF TypeInv
    <2>3. DOMAIN a = DOMAIN into
      OBVIOUS
    <2> HIDE DEF a, into
    <2>4. IsArray(a)
      BY <2>2, <2>3, SameDomain
    <2> QED
      BY <2>1, <2>4
  <1>3. DOMAIN mem' = 1..3 /\ \A k \in 1..3 : IsArray(mem'[k])
    BY <1>1, <1>2, FreeOther, MemPut
  <1>4. /\ queue' = queue /\ job' = job /\ stage' = stage /\ argb' = argb /\ residuals' = residuals
        /\ todo' = todo /\ currentWidth' = currentWidth /\ transforms' = transforms
        /\ pixels' = pixels /\ transformBuf' = transformBuf
    BY DEF NearRow, reading, undoing
  <1>5. TypeInv'
    BY <1>1, <1>3, <1>4, TypeNext DEF TypeInv
  <1>6. Line'
    BY <1>1, <1>4, LineSame, SameJob DEF Line
  <1> QED
    BY <1>1, <1>4, <1>5, <1>6 DEF Basic, Tiling, Sized

LEMMA NextNearPass_Basic ==
  ASSUME Basic, NextNearPass
  PROVE  Basic'
  <1>1. TypeInv /\ Line /\ stage = "near" /\ IsPicture(job)
    BY DEF Basic, NextNearPass, TypeInv
  <1>2. /\ queue' = queue /\ job' = job /\ argb' = argb /\ residuals' = residuals
        /\ todo' = todo /\ currentWidth' = currentWidth /\ transforms' = transforms
        /\ pixels' = pixels /\ transformBuf' = transformBuf
    BY DEF NextNearPass, reading, undoing
  <1>3. /\ stage' \in {"near", "transform"}
        /\ mem' = mem \/ mem' = [mem EXCEPT ![argb] = Overwrite(@, Width * Height, mem[Free])]
    BY <1>1 DEF NextNearPass
  <1>4. DOMAIN mem' = 1..3 /\ \A k \in 1..3 : IsArray(mem'[k])
    <2>1. IsArray(Overwrite(mem[argb], Width * Height, mem[Free])) /\ argb \in 1..3
      <3>1. DOMAIN Overwrite(mem[argb], Width * Height, mem[Free]) = DOMAIN mem[argb]
        BY DEF Overwrite
      <3>2. IsArray(mem[argb]) /\ argb \in 1..3
        BY <1>1 DEF TypeInv
      <3> QED
        BY <3>1, <3>2, SameDomain
    <2>2. ASSUME mem' = [mem EXCEPT ![argb] = Overwrite(@, Width * Height, mem[Free])]
          PROVE  DOMAIN mem' = 1..3 /\ \A k \in 1..3 : IsArray(mem'[k])
      <3>1. mem' = [mem EXCEPT ![argb] = Overwrite(mem[argb], Width * Height, mem[Free])]
        BY <2>2
      <3> QED
        BY <1>1, <2>1, <3>1, MemPut
    <2> QED
      BY <1>1, <1>3, <2>2, MemSame
  <1>5. TypeInv'
    BY <1>1, <1>2, <1>3, <1>4, TypeNext DEF TypeInv
  <1>6. Line'
    BY <1>1, <1>2, <1>3, LineSame, SameJob DEF Line
  <1> QED
    BY <1>3, <1>5, <1>6 DEF Basic, Tiling, Sized

LEMMA SubtractGreen_Basic ==
  ASSUME Basic, SubtractGreen
  PROVE  Basic'
  <1>1. TypeInv /\ Line /\ stage = "transform" /\ IsPicture(job) /\ todo # <<>> /\ Head(todo) = "SubtractGreen"
    BY DEF Basic, SubtractGreen, Transform, TypeInv
  <1>2. Len(todo) > 0
    BY <1>1 DEF Line, IsSequence
  <1>3. /\ queue' = queue /\ job' = job /\ argb' = argb /\ residuals' = residuals
        /\ currentWidth' = currentWidth /\ Applied("SubtractGreen", 0, None)
        /\ pixels' = pixels /\ transformBuf' = transformBuf
    BY DEF SubtractGreen, reading, undoing
  <1>4. stage' = "transform"
    BY <1>3 DEF Applied
  <1>5. DOMAIN mem' = 1..3 /\ \A k \in 1..3 : IsArray(mem'[k])
    <2> DEFINE a == [i \in DOMAIN mem[argb] |-> IF i < Count THEN SubtractGreenPixel(mem[argb][i]) ELSE mem[argb][i]]
    <2>1. mem' = [mem EXCEPT ![argb] = a]
      BY DEF SubtractGreen
    <2>2. DOMAIN a = DOMAIN mem[argb]
      OBVIOUS
    <2> HIDE DEF a
    <2>3. argb \in 1..3 /\ IsArray(mem[argb])
      BY <1>1 DEF TypeInv
    <2>4. IsArray(a)
      BY <2>2, <2>3, SameDomain
    <2> QED
      BY <1>1, <2>1, <2>3, <2>4, MemPut
  <1>6. TypeInv'
    BY <1>1, <1>3, <1>4, <1>5, TypeNext DEF TypeInv
  <1>7. Line'
    <2>1. currentWidth' = CodedWidth
      BY <1>1, <1>2, <1>3, WidthNow
    <2>2. \A t : t.type = "SubtractGreen" /\ t.bits = 0 /\ t.xsize = CodedWidth /\ t.data = None => Sound(t)
      BY DEF Sound
    <2> QED
      BY <1>1, <1>2, <1>3, <2>1, <2>2, LineNext
  <1> QED
    BY <1>4, <1>6, <1>7 DEF Basic, Tiling, Sized

LEMMA ApplyPalette_Basic ==
  ASSUME Basic, ApplyPalette
  PROVE  Basic'
  <1>1. TypeInv /\ Line /\ stage = "transform" /\ IsPicture(job) /\ todo # <<>> /\ Head(todo) = "ColorIndexing"
    BY DEF Basic, ApplyPalette, Transform, TypeInv
  <1>2. Len(todo) > 0
    BY <1>1 DEF Line, IsSequence
  <1>3. /\ queue' = queue /\ job' = job /\ argb' = Free /\ residuals' = residuals
        /\ currentWidth' = SubSampleSize(Width, CodeBits) /\ Applied("ColorIndexing", CodeBits, Palette)
        /\ mem' = [mem EXCEPT ![Free] = Packed(CodeBits)]
        /\ pixels' = pixels /\ transformBuf' = transformBuf
    BY DEF ApplyPalette, reading, undoing, CodeBits
  <1>4. stage' = "transform"
    BY <1>3 DEF Applied
  <1>5. DOMAIN mem' = 1..3 /\ \A k \in 1..3 : IsArray(mem'[k])
    <2>1. DOMAIN Packed(CodeBits) = 0..SubSampleSize(Width, CodeBits) * Height - 1
      BY DEF Packed
    <2>2. SubSampleSize(Width, CodeBits) * Height \in Nat
      <3>1. CodeBits \in 0..9 /\ Width \in Nat \ {0} /\ Height \in Nat
        BY <1>1, JobFacts
      <3>2. SubSampleSize(Width, CodeBits) \in Nat
        BY <3>1, Covering
      <3> QED
        BY <3>1, <3>2
    <2>3. IsArray(Packed(CodeBits))
      BY <2>1, <2>2, ArrayOf
    <2> QED
      BY <1>1, <1>3, <2>3, FreeOther, MemPut
  <1>6. TypeInv'
    BY <1>1, <1>3, <1>4, <1>5, FreeOther, TypeNext DEF TypeInv
  <1>7. Line'
    <2>1. currentWidth' = CodedWidth
      <3>1. UsePalette
        BY <1>1, <1>2, WidthNow
      <3> QED
        BY <1>3, <3>1 DEF CodedWidth
    <2>2. \A t : t.type = "ColorIndexing" /\ t.bits = CodeBits /\ t.xsize = CodedWidth /\ t.data = Palette => Sound(t)
      BY DEF Sound
    <2> QED
      BY <1>1, <1>2, <1>3, <2>1, <2>2, LineNext
  <1> QED
    BY <1>4, <1>6, <1>7 DEF Basic, Tiling, Sized

LEMMA StartTiles_Basic ==
  ASSUME Basic, StartTiles
  PROVE  Basic'
  <1>1. TypeInv /\ Line /\ stage = "transform" /\ IsPicture(job) /\ todo # <<>> /\ Head(todo) \in {"Predictor", "CrossColor"}
    BY DEF Basic, StartTiles, Transform, TypeInv
  <1>2. Len(todo) > 0
    BY <1>1 DEF Line, IsSequence
  <1>3. /\ queue' = queue /\ job' = job /\ argb' = argb /\ residuals' = residuals /\ mem' = mem /\ stage' = "tiles"
        /\ currentWidth' = currentWidth /\ todo' = todo /\ transforms' = transforms
        /\ pixels' = pixels /\ transformBuf' = transformBuf
    BY DEF StartTiles, reading, undoing, encoder
  <1>4. TypeInv'
    BY <1>1, <1>3, MemSame, TypeNext DEF TypeInv
  <1>5. Line'
    BY <1>1, <1>2, <1>3, LineSame DEF Line
  <1>6. Tiling'
    <2>1. /\ at' = [w \in Procs |-> 0] /\ data' = Zeros(NumTiles) /\ visits' = [t \in 0..NumTiles - 1 |-> 0]
      BY DEF StartTiles
    <2>2. NumTiles' = NumTiles /\ NumWorkers' = NumWorkers /\ TileXSize' = TileXSize
          /\ \A w : TyStart(w)' = TyStart(w) /\ TyEnd(w)' = TyEnd(w)
      BY <1>3, SameTiles
    <2>3. TileXSize \in Nat \ {0} /\ 0..NumWorkers - 1 \subseteq Procs /\ TileYSize \in Nat /\ NumWorkers \in Nat \ {0}
      BY <1>1, TileFacts, JobFacts
    <2>4. ASSUME NEW t \in 0..NumTiles - 1, NEW w \in 0..NumWorkers - 1, t \div TileXSize \in TyStart(w)..TyEnd(w) - 1
          PROVE  ~(t < TyStart(w) * TileXSize + at'[w]) /\ visits'[t] = 0
      <3>1. at'[w] = 0 /\ visits'[t] = 0
        BY <2>1, <2>3
      <3>2. PICK q : q = t \div TileXSize
        OBVIOUS
      <3>3. q \in Nat /\ q * TileXSize <= t /\ q * TileXSize \in Nat
        <4>1. t \in Nat /\ TileXSize \in Nat /\ TileXSize >= 1
          BY <1>1, <2>3, TileFacts
        <4>2. q \in Nat /\ q * TileXSize <= t
          BY <3>2, <4>1, Division
        <4> QED
          BY <4>1, <4>2
      <3>4. TyStart(w) \in Nat
        <4>1. RowsPerWorker \in Nat
          BY <2>3, Enough DEF RowsPerWorker
        <4>2. w * RowsPerWorker \in Nat
          BY <4>1
        <4> QED
          BY <4>2 DEF TyStart, ShareStart
      <3>5. TyStart(w) <= q
        BY <2>4, <3>2, <3>4
      <3>6. TyStart(w) * TileXSize <= q * TileXSize /\ TyStart(w) * TileXSize \in Nat
        BY <2>3, <3>3, <3>4, <3>5, Grows
      <3> QED
        BY <3>1, <3>3, <3>6
    <2>5. DOMAIN data' = 0..NumTiles - 1 /\ DOMAIN visits' = 0..NumTiles - 1 /\ \A t \in 0..NumTiles - 1 : visits'[t] = 0
      BY <2>1 DEF Zeros
    <2>6. DOMAIN at' = Procs /\ \A w \in Procs : at'[w] \in Nat
      BY <2>1
    <2> QED
      BY <1>3, <2>2, <2>4, <2>5, <2>6 DEF Tiling
  <1> QED
    BY <1>3, <1>4, <1>5, <1>6 DEF Basic, Sized

\* A tile was handled by the worker it belongs to.
LEMMA NextTile_Basic ==
  ASSUME Basic, stage = "tiles", NEW w \in Procs, NEW t \in DOMAIN data, NextTile(w, t), NEW c,
         data' = [data EXCEPT ![t] = c], Head(todo) = "CrossColor" => IsCode(c),
         DOMAIN mem' = 1..3, \A k \in 1..3 : IsArray(mem'[k])
  PROVE  Basic'
  <1>1. TypeInv /\ Line /\ Tiling /\ IsPicture(job) /\ Len(todo) > 0
    BY DEF Basic, TypeInv, Line
  <1>2. /\ queue' = queue /\ job' = job /\ argb' = argb /\ residuals' = residuals /\ stage' = "tiles"
        /\ currentWidth' = currentWidth /\ todo' = todo /\ transforms' = transforms
        /\ pixels' = pixels /\ transformBuf' = transformBuf
    BY DEF NextTile, reading, undoing
  <1>3. TypeInv'
    BY <1>1, <1>2, TypeNext DEF TypeInv
  <1>4. Line'
    BY <1>1, <1>2, LineSame DEF Line
  <1>5. Tiling'
    <2>1. /\ w < NumWorkers /\ t = TyStart(w) * TileXSize + at[w] /\ t < TyEnd(w) * TileXSize
          /\ at' = [at EXCEPT ![w] = @ + 1] /\ visits' = [visits EXCEPT ![t] = @ + 1]
      BY DEF NextTile
    <2>2. NumTiles' = NumTiles /\ NumWorkers' = NumWorkers /\ TileXSize' = TileXSize
          /\ \A v : TyStart(v)' = TyStart(v) /\ TyEnd(v)' = TyEnd(v)
      BY <1>2, SameTiles
    <2>3. TileXSize \in Nat \ {0} /\ 0..NumWorkers - 1 \subseteq Procs /\ TileYSize \in Nat /\ NumWorkers \in Nat \ {0}
      BY <1>1, TileFacts, JobFacts
    <2>4. w \in 0..NumWorkers - 1
      BY <2>1, <2>3, TransformsAssumption DEF Procs
    <2>5. /\ DOMAIN at = Procs /\ \A v \in Procs : at[v] \in Nat
          /\ DOMAIN visits = 0..NumTiles - 1 /\ DOMAIN data = 0..NumTiles - 1
      BY <1>1 DEF Tiling
    <2>6. t \in 0..NumTiles - 1 /\ Mine(t, w)
      BY <1>1, <2>1, <2>4, <2>5, NextIsMine
    <2>7. /\ DOMAIN at' = Procs /\ \A v \in Procs : at'[v] \in Nat
          /\ at'[w] = at[w] + 1 /\ \A v \in Procs \ {w} : at'[v] = at[v]
          /\ DOMAIN visits' = 0..NumTiles - 1 /\ DOMAIN data' = 0..NumTiles - 1
          /\ visits'[t] = visits[t] + 1 /\ \A u \in (0..NumTiles - 1) \ {t} : visits'[u] = visits[u] /\ data'[u] = data[u]
          /\ data'[t] = c
      BY <2>1, <2>5, <2>6
    <2>8. ASSUME NEW u \in 0..NumTiles - 1, NEW v \in 0..NumWorkers - 1, u \div TileXSize \in TyStart(v)..TyEnd(v) - 1
          PROVE  visits'[u] = IF u < TyStart(v) * TileXSize + at'[v] THEN 1 ELSE 0
      <3>1. visits[u] = IF u < TyStart(v) * TileXSize + at[v] THEN 1 ELSE 0
        BY <1>1, <2>8 DEF Tiling
      <3>2. v \in Procs /\ at[v] \in Nat
        BY <2>3, <2>5
      <3>3. TyStart(v) * TileXSize \in Nat
        <4>1. RowsPerWorker \in Nat
          BY <2>3, Enough DEF RowsPerWorker
        <4>2. v * RowsPerWorker \in Nat
          BY <4>1
        <4>3. TyStart(v) \in Nat
          BY <4>2 DEF TyStart, ShareStart
        <4> QED
          BY <2>3, <4>3
      <3>4. CASE v # w
        <4>1. u # t
          <5>1. Mine(u, v)
            BY <2>8 DEF Mine
          <5>2. u = t => v = w
            BY <1>1, <2>4, <2>6, <5>1, TileOwner
          <5> QED
            BY <3>4, <5>2
        <4> QED
          BY <2>7, <3>1, <3>2, <3>4, <4>1
      <3>5. CASE v = w
        <4>1. CASE u = t
          <5>1. visits[u] = 0
            BY <2>1, <3>1, <3>2, <3>3, <3>5, <4>1
          <5> QED
            BY <2>1, <2>7, <3>2, <3>3, <3>5, <4>1, <5>1
        <4>2. CASE u # t
          <5>1. visits'[u] = visits[u]
            BY <2>7, <4>2
          <5>2. u < TyStart(v) * TileXSize + at[v] <=> u < TyStart(v) * TileXSize + at'[v]
            BY <2>1, <2>7, <3>2, <3>3, <3>5, <4>2
          <5> QED
            BY <3>1, <5>1, <5>2
        <4> QED
          BY <4>1, <4>2
      <3> QED
        BY <3>4, <3>5
    <2>9. ASSUME Head(todo) = "CrossColor", NEW u \in 0..NumTiles - 1, visits'[u] # 0
          PROVE  IsCode(data'[u])
      BY <1>1, <2>7, <2>9 DEF Tiling
    <2> QED
      BY <1>2, <2>2, <2>7, <2>8, <2>9 DEF Tiling
  <1> QED
    BY <1>2, <1>3, <1>4, <1>5 DEF Basic, Sized

LEMMA PackedMultipliers ==
  ASSUME NEW m, m[1] \in -128..127, m[2] \in -128..127, m[3] \in -128..127
  PROVE  LET c == PackMultipliers(m)
         IN  IsCode(c) /\ Multipliers(c)[1] = m[1] /\ Multipliers(c)[2] = m[2] /\ Multipliers(c)[3] = m[3]
  <1> DEFINE c == PackMultipliers(m)
             u == Multipliers(c)
  <1>1. c[4] = m[1] % 256 /\ c[3] = m[2] % 256 /\ c[2] = m[3] % 256
    BY DEF PackMultipliers
  <1>2. u[1] = m[1] /\ u[2] = m[2] /\ u[3] = m[3]
    <2>1. /\ Int8(m[1] % 256) = m[1] /\ Int8(m[2] % 256) = m[2] /\ Int8(m[3] % 256) = m[3]
      BY Signed
    <2>2. u = <<Int8(c[4]), Int8(c[3]), Int8(c[2])>>
      BY DEF Multipliers
    <2> HIDE DEF c, u
    <2> QED
      BY <1>1, <2>1, <2>2
  <1>3. PackMultipliers(u) = c
    BY <1>2 DEF PackMultipliers
  <1> HIDE DEF u, c
  <1> QED
    BY <1>2, <1>3 DEF IsCode, IsMultiplier, u, c

LEMMA PickMode_Basic ==
  ASSUME Basic, NEW w \in Procs, PickMode(w)
  PROVE  Basic'
  <1>1. TypeInv /\ stage = "tiles" /\ Head(todo) = "Predictor" /\ mem' = mem
    BY DEF Basic, PickMode, Handling
  <1>2. PICK t \in DOMAIN data, mode \in LeastEstimate :
          NextTile(w, t) /\ data' = [data EXCEPT ![t] = <<255, 0, mode, 0>>]
    BY DEF PickMode
  <1>3. DOMAIN mem' = 1..3 /\ \A k \in 1..3 : IsArray(mem'[k])
    BY <1>1, MemSame
  <1> QED
    BY <1>1, <1>2, <1>3, NextTile_Basic

LEMMA PickMultipliers_Basic ==
  ASSUME Basic, NEW w \in Procs, PickMultipliers(w)
  PROVE  Basic'
  <1>1. TypeInv /\ stage = "tiles" /\ Head(todo) = "CrossColor" /\ IsPicture(job)
    BY DEF Basic, PickMultipliers, Handling, TypeInv
  <1>2. PICK t \in DOMAIN data, m \in BestMultipliers :
         /\ NextTile(w, t)
         /\ data' = [data EXCEPT ![t] = PackMultipliers(m)]
         /\ mem' = [mem EXCEPT ![argb] = [i \in DOMAIN @ |->
                       IF i < Count /\ TileOf(i) = t THEN ApplyColorTransformPixel(m, @[i]) ELSE @[i]]]
    BY DEF PickMultipliers
  <1>3. IsCode(PackMultipliers(m))
    <2>1. m[1] \in -128..127 /\ m[2] \in -128..127 /\ m[3] \in -128..127
      BY <1>1 DEF IsPicture, BestMultipliers
    <2> QED
      BY <2>1, PackedMultipliers
  <1>4. DOMAIN mem' = 1..3 /\ \A k \in 1..3 : IsArray(mem'[k])
    <2> DEFINE a == [i \in DOMAIN mem[argb] |->
                       IF i < Count /\ TileOf(i) = t THEN ApplyColorTransformPixel(m, mem[argb][i]) ELSE mem[argb][i]]
    <2>1. mem' = [mem EXCEPT ![argb] = a]
      BY <1>2
    <2>2. DOMAIN a = DOMAIN mem[argb]
      OBVIOUS
    <2> HIDE DEF a
    <2>3. argb \in 1..3 /\ IsArray(mem[argb])
      BY <1>1 DEF TypeInv
    <2>4. IsArray(a)
      BY <2>2, <2>3, SameDomain
    <2> QED
      BY <1>1, <2>1, <2>3, <2>4, MemPut
  <1> QED
    BY <1>1, <1>2, <1>3, <1>4, NextTile_Basic

LEMMA AllHandled ==
  ASSUME Basic, stage = "tiles", WorkersDone
  PROVE  \A t \in 0..NumTiles - 1 : visits[t] = 1
  <1>1. TypeInv /\ Line /\ Tiling /\ IsPicture(job)
    BY DEF Basic, TypeInv
  <1>2. TAKE t \in 0..NumTiles - 1
  <1>3. PICK w \in 0..NumWorkers - 1 : Mine(t, w)
    BY <1>1, TileOwner
  <1>4. visits[t] = IF t < TyStart(w) * TileXSize + at[w] THEN 1 ELSE 0
    BY <1>1, <1>3 DEF Tiling, Mine
  <1>5. TyStart(w) * TileXSize + at[w] >= TyEnd(w) * TileXSize
    BY DEF WorkersDone
  <1>6. TileXSize \in Nat \ {0} /\ 0..NumWorkers - 1 \subseteq Procs /\ TileYSize \in Nat /\ NumWorkers \in Nat \ {0}
        /\ NumTiles \in Nat
    BY <1>1, TileFacts, JobFacts
  <1>7. TyStart(w) \in Nat /\ TyEnd(w) \in Nat
    <2>1. RowsPerWorker \in Nat
      BY <1>6, Enough DEF RowsPerWorker
    <2>2. w * RowsPerWorker \in Nat
      BY <2>1
    <2> QED
      BY <1>6, <2>1, <2>2 DEF TyStart, TyEnd, ShareStart, ShareEnd
  <1>8. PICK q, r : q = t \div TileXSize /\ r = t % TileXSize
    OBVIOUS
  <1>9. q \in Nat /\ r \in 0..TileXSize - 1 /\ t = q * TileXSize + r
    BY <1>6, <1>8, Division
  <1>10. q < TyEnd(w)
    BY <1>3, <1>7, <1>8 DEF Mine
  <1>11. q * TileXSize + TileXSize <= TyEnd(w) * TileXSize /\ q * TileXSize \in Nat /\ TyEnd(w) * TileXSize \in Nat
    BY <1>6, <1>7, <1>9, <1>10, Apart
  <1>12. t < TyEnd(w) * TileXSize
    BY <1>6, <1>9, <1>11
  <1>13. TyStart(w) * TileXSize \in Nat /\ at[w] \in Nat
    BY <1>1, <1>6, <1>7 DEF Tiling
  <1> QED
    BY <1>4, <1>5, <1>11, <1>12, <1>13

LEMMA EndColors_Basic ==
  ASSUME Basic, EndColors
  PROVE  Basic'
  <1>1. TypeInv /\ Line /\ Tiling /\ stage = "tiles" /\ IsPicture(job) /\ Len(todo) > 0 /\ Head(todo) = "CrossColor"
    BY DEF Basic, EndColors, Handling, TypeInv, Line
  <1>2. /\ queue' = queue /\ job' = job /\ argb' = argb /\ residuals' = residuals /\ mem' = mem
        /\ currentWidth' = currentWidth /\ Applied("CrossColor", TransformBits, data)
        /\ pixels' = pixels /\ transformBuf' = transformBuf
    BY DEF EndColors, reading, undoing
  <1>3. stage' = "transform"
    BY <1>2 DEF Applied
  <1>4. TypeInv'
    BY <1>1, <1>2, <1>3, MemSame, TypeNext DEF TypeInv
  <1>5. currentWidth = CodedWidth
    BY <1>1, WidthNow
  <1>6. \A i \in 0..SubSampleSize(CodedWidth, TransformBits) * TileYSize - 1 : IsCode(data[i])
    <2>1. NumTiles = SubSampleSize(CodedWidth, TransformBits) * TileYSize
      BY <1>5 DEF NumTiles, TileXSize
    <2>2. \A t \in 0..NumTiles - 1 : visits[t] = 1
      BY <1>1, AllHandled DEF EndColors
    <2>3. \A t \in 0..NumTiles - 1 : IsCode(data[t])
      BY <1>1, <2>2 DEF Tiling
    <2> QED
      BY <2>1, <2>3
  <1>7. \A t : t.type = "CrossColor" /\ t.bits = TransformBits /\ t.xsize = CodedWidth /\ t.data = data => Sound(t)
    BY <1>6 DEF Sound
  <1>8. Line'
    BY <1>1, <1>2, <1>5, <1>7, LineNext
  <1> QED
    BY <1>3, <1>4, <1>8 DEF Basic, Tiling, Sized

LEMMA StartResiduals_Basic ==
  ASSUME Basic, StartResiduals
  PROVE  Basic'
  <1>1. TypeInv /\ Line /\ stage = "tiles" /\ IsPicture(job) /\ Len(todo) > 0 /\ Head(todo) = "Predictor"
    BY DEF Basic, StartResiduals, Handling, TypeInv, Line
  <1>2. /\ queue' = queue /\ job' = job /\ argb' = argb /\ stage' = "residuals"
        /\ residuals' = (IF Cap(mem[residuals]) >= Count THEN residuals ELSE Free)
        /\ mem' = [mem EXCEPT ![residuals'] = Reused(mem[residuals], Count)]
        /\ currentWidth' = currentWidth /\ transforms' = transforms /\ todo' = todo
        /\ pixels' = pixels /\ transformBuf' = transformBuf
    BY DEF StartResiduals, reading, undoing
  <1>3. residuals \in 1..3 /\ residuals' \in 1..3
    BY <1>1, <1>2, FreeOther DEF TypeInv
  <1>4. DOMAIN mem' = 1..3 /\ \A k \in 1..3 : IsArray(mem'[k])
    <2>1. Count \in Nat
      BY <1>1, TileFacts
    <2>2. IsArray(mem[residuals])
      BY <1>1, <1>3 DEF TypeInv
    <2>3. IsArray(Reused(mem[residuals], Count))
      BY <2>1, <2>2, ReusedArray
    <2>4. PICK r \in 1..3 : r = residuals'
      BY <1>3
    <2> QED
      BY <1>1, <1>2, <2>3, <2>4, MemPut
  <1>5. TypeInv'
    BY <1>1, <1>2, <1>3, <1>4, TypeNext DEF TypeInv
  <1>6. Line'
    BY <1>1, <1>2, LineSame DEF Line
  <1> QED
    BY <1>2, <1>5, <1>6 DEF Basic, Tiling, Sized

LEMMA ResidualRow_Basic ==
  ASSUME Basic, ResidualRow
  PROVE  Basic'
  <1>1. TypeInv /\ Line /\ stage = "residuals" /\ IsPicture(job)
    BY DEF Basic, ResidualRow, TypeInv, Line
  <1>2. /\ queue' = queue /\ job' = job /\ argb' = argb /\ residuals' = residuals /\ stage' = stage
        /\ currentWidth' = currentWidth /\ transforms' = transforms /\ todo' = todo
        /\ pixels' = pixels /\ transformBuf' = transformBuf
    BY DEF ResidualRow, reading, undoing
  <1>3. DOMAIN mem' = 1..3 /\ \A k \in 1..3 : IsArray(mem'[k])
    <2> DEFINE a == [i \in DOMAIN mem[residuals] |->
                      IF i < Count /\ InRow(i, currentWidth, y)
                      THEN ResidualPixel(RowAbove, CopiedRow(scratch[1]), i % currentWidth) ELSE mem[residuals][i]]
    <2>1. mem' = [mem EXCEPT ![residuals] = a]
      BY DEF ResidualRow
    <2>2. DOMAIN a = DOMAIN mem[residuals]
      OBVIOUS
    <2> HIDE DEF a
    <2>3. residuals \in 1..3 /\ IsArray(mem[residuals])
      BY <1>1 DEF TypeInv
    <2>4. IsArray(a)
      BY <2>2, <2>3, SameDomain
    <2> QED
      BY <1>1, <2>1, <2>3, <2>4, MemPut
  <1>4. TypeInv'
    BY <1>1, <1>2, <1>3, TypeNext DEF TypeInv
  <1>5. Line'
    BY <1>1, <1>2, LineSame DEF Line
  <1> QED
    BY <1>1, <1>2, <1>4, <1>5 DEF Basic, Tiling, Sized

LEMMA EndResiduals_Basic ==
  ASSUME Basic, EndResiduals
  PROVE  Basic'
  <1>1. TypeInv /\ Line /\ stage = "residuals" /\ IsPicture(job) /\ Len(todo) > 0 /\ Head(todo) = "Predictor"
    BY DEF Basic, EndResiduals, TypeInv, Line
  <1>2. /\ queue' = queue /\ job' = job /\ argb' = residuals /\ residuals' = residuals /\ mem' = mem
        /\ currentWidth' = currentWidth /\ Applied("Predictor", TransformBits, data)
        /\ pixels' = pixels /\ transformBuf' = transformBuf
    BY DEF EndResiduals, reading, undoing
  <1>3. stage' = "transform"
    BY <1>2 DEF Applied
  <1>4. TypeInv'
    BY <1>1, <1>2, <1>3, MemSame, TypeNext DEF TypeInv
  <1>5. currentWidth = CodedWidth
    BY <1>1, WidthNow
  <1>6. \A t : t.type = "Predictor" /\ t.bits = TransformBits /\ t.xsize = CodedWidth /\ t.data = data => Sound(t)
    BY DEF Sound
  <1>7. Line'
    BY <1>1, <1>2, <1>5, <1>6, LineNext
  <1> QED
    BY <1>3, <1>4, <1>7 DEF Basic, Tiling, Sized

\* From the header on, the encoder keeps what it has.
LEMMA Coded_Basic ==
  ASSUME Basic, stage \in {"transform", "header", "inverse", "shown"}, Len(todo) = 0,
         queue' = queue, encoder' = encoder, job' = job,
         stage' \in {"header", "inverse", "shown", "idle"}, IsArray(pixels'), IsArray(transformBuf'),
         stage' \in {"header", "inverse"} => stream'.width = Width /\ stream'.height = Height /\ xsize' \in Nat \ {0}
  PROVE  Basic'
  <1>1. TypeInv /\ Line /\ IsPicture(job)
    BY DEF Basic, TypeInv
  <1>2. mem' = mem /\ argb' = argb /\ residuals' = residuals /\ todo' = todo /\ currentWidth' = currentWidth
        /\ transforms' = transforms
    BY DEF encoder
  <1>3. TypeInv'
    BY <1>1, <1>2, MemSame, TypeNext DEF TypeInv
  <1>4. IsSequence(transforms)' /\ IsSequence(todo)' /\ Listed'
    BY <1>1, <1>2, LineSame
  <1>5. Line'
    BY <1>2, <1>4 DEF Line
  <1>6. Sized'
    BY SameJob DEF Sized
  <1> QED
    BY <1>3, <1>5, <1>6 DEF Basic, Tiling

LEMMA Write_Basic ==
  ASSUME Basic, Write
  PROVE  Basic'
  <1>1. TypeInv /\ Line /\ stage = "transform" /\ Len(todo) = 0 /\ IsPicture(job)
    BY DEF Basic, Write, TypeInv
  <1>2. queue' = queue /\ encoder' = encoder /\ job' = job /\ stage' = "header" /\ pixels' = pixels
        /\ transformBuf' = transformBuf /\ xsize' = Width /\ stream'.width = Width /\ stream'.height = Height
    BY DEF Write
  <1>3. IsArray(pixels') /\ IsArray(transformBuf')
    BY <1>1, <1>2 DEF TypeInv
  <1>4. Width \in Nat \ {0}
    BY <1>1, JobFacts
  <1> QED
    BY <1>1, <1>2, <1>3, <1>4, Coded_Basic

LEMMA ReadTransform_Basic ==
  ASSUME Basic, ReadTransform
  PROVE  Basic'
  <1>1. TypeInv /\ Line /\ stage = "header" /\ Len(todo) = 0 /\ Sized
    BY DEF Basic, ReadTransform, Line
  <1>2. queue' = queue /\ encoder' = encoder /\ job' = job /\ stage' = stage /\ pixels' = pixels
        /\ transformBuf' = transformBuf /\ stream' = stream
    BY DEF ReadTransform
  <1>3. IsArray(pixels') /\ IsArray(transformBuf')
    BY <1>1, <1>2 DEF TypeInv
  <1>4. xsize' \in Nat \ {0}
    <2>1. xsize \in Nat \ {0}
      BY <1>1 DEF Sized
    <2>2. \A n : SubSampleSize(xsize, PaletteCodeBits(n)) \in Nat \ {0}
      <3>1. \A n : PaletteCodeBits(n) \in 0..9
        BY DEF PaletteCodeBits
      <3> QED
        BY <2>1, <3>1, Covering
    <2> QED
      BY <2>1, <2>2 DEF ReadTransform
  <1> QED
    BY <1>1, <1>2, <1>3, <1>4, Coded_Basic DEF Sized

LEMMA DecodePixels_Basic ==
  ASSUME Basic, DecodePixels
  PROVE  Basic'
  <1>1. TypeInv /\ Line /\ stage = "header" /\ Len(todo) = 0 /\ Sized /\ IsPicture(job)
    BY DEF Basic, DecodePixels, Line, TypeInv
  <1>2. queue' = queue /\ encoder' = encoder /\ job' = job /\ stage' = "inverse" /\ stream' = stream /\ xsize' = xsize
    BY DEF DecodePixels
  <1> DEFINE coded == transformWidth' * stream.height
             numAlloc == Max({stream.width * stream.height, coded})
             needed == numAlloc + stream.width * (1 + CacheRows)
  <1>3. pixels' = Overwrite(Reused(pixels, needed), coded, stream.pixels) /\ transformBuf' = Reused(transformBuf, numAlloc)
        /\ transformWidth' = xsize
    BY DEF DecodePixels, UpdateDecoder
  <1>4. numAlloc \in Nat /\ needed \in Nat /\ needed >= coded /\ coded \in Nat
    <2>1. stream.width \in Nat /\ stream.height \in Nat /\ xsize \in Nat /\ 1 + CacheRows \in Nat
      BY <1>1, JobFacts, TransformsAssumption DEF Sized
    <2>2. coded \in Nat /\ stream.width * stream.height \in Nat /\ stream.width * (1 + CacheRows) \in Nat
      BY <1>3, <2>1
    <2> HIDE DEF coded
    <2>3. numAlloc = IF stream.width * stream.height >= coded THEN stream.width * stream.height ELSE coded
      BY <2>2, MaxTwo
    <2> HIDE DEF numAlloc
    <2> QED
      BY <2>2, <2>3
  <1> HIDE DEF coded, numAlloc, needed
  <1>5. IsArray(pixels') /\ IsArray(transformBuf')
    <2>1. IsArray(pixels) /\ IsArray(transformBuf)
      BY <1>1 DEF TypeInv
    <2>2. IsArray(Reused(pixels, needed)) /\ Cap(Reused(pixels, needed)) >= coded /\ IsArray(Reused(transformBuf, numAlloc))
      BY <1>4, <2>1, ReusedArray
    <2> QED
      BY <1>3, <1>4, <2>2, OverwrittenArray
  <1> QED
    BY <1>1, <1>2, <1>5, Coded_Basic DEF Sized

\* Undoing a transform writes into an array, and changes nothing else of size.
LEMMA Undo_Basic ==
  ASSUME Basic, stage = "inverse", decoding' = decoding, DOMAIN transformBuf' = DOMAIN transformBuf
  PROVE  Basic'
  <1>1. TypeInv /\ Line /\ Len(todo) = 0 /\ Sized
    BY DEF Basic, Line
  <1>2. queue' = queue /\ encoder' = encoder /\ job' = job /\ stage' = stage /\ pixels' = pixels
        /\ stream' = stream /\ xsize' = xsize
    BY DEF decoding
  <1>3. IsArray(pixels') /\ IsArray(transformBuf')
    <2>1. IsArray(pixels) /\ IsArray(transformBuf)
      BY <1>1 DEF TypeInv
    <2> QED
      BY <1>2, <2>1, SameDomain
  <1> QED
    BY <1>1, <1>2, <1>3, Coded_Basic DEF Sized

LEMMA Undoing_Basic ==
  ASSUME Basic, \/ AddGreenToBlueAndRed \/ PredictorInverse \/ ColorIndexInverse
                \/ \E w \in Procs : ColorSpaceInverse(w)
  PROVE  Basic'
  <1>1. CASE AddGreenToBlueAndRed
    <2>1. stage = "inverse" /\ decoding' = decoding /\ DOMAIN transformBuf' = DOMAIN transformBuf
      BY <1>1 DEF AddGreenToBlueAndRed, Undo
    <2> QED
      BY <2>1, Undo_Basic
  <1>2. CASE PredictorInverse
    <2>1. stage = "inverse" /\ decoding' = decoding /\ DOMAIN transformBuf' = DOMAIN transformBuf
      BY <1>2 DEF PredictorInverse, Undo
    <2> QED
      BY <2>1, Undo_Basic
  <1>3. CASE ColorIndexInverse
    <2>1. stage = "inverse" /\ decoding' = decoding /\ DOMAIN transformBuf' = DOMAIN transformBuf
      BY <1>3 DEF ColorIndexInverse, Undo
    <2> QED
      BY <2>1, Undo_Basic
  <1>4. ASSUME NEW w \in Procs, ColorSpaceInverse(w) PROVE Basic'
    <2>1. stage = "inverse" /\ decoding' = decoding /\ DOMAIN transformBuf' = DOMAIN transformBuf
      BY <1>4 DEF ColorSpaceInverse, Undo
    <2> QED
      BY <2>1, Undo_Basic
  <1> QED
    BY <1>1, <1>2, <1>3, <1>4

LEMMA ConvertRows_Basic ==
  ASSUME Basic, NEW w \in Procs, ConvertRows(w)
  PROVE  Basic'
  <1>1. TypeInv /\ Line /\ Sized /\ stage = "inverse" /\ Len(todo) = 0
    BY DEF Basic, ConvertRows, Line
  <1>2. queue' = queue /\ encoder' = encoder /\ job' = job /\ stage' \in {"inverse", "shown"} /\ pixels' = pixels
        /\ transformBuf' = transformBuf /\ stream' = stream /\ xsize' = xsize
    BY <1>1 DEF ConvertRows, reading
  <1>3. IsArray(pixels') /\ IsArray(transformBuf')
    BY <1>1, <1>2 DEF TypeInv
  <1> QED
    BY <1>1, <1>2, <1>3, Coded_Basic DEF Sized

LEMMA Release_Basic ==
  ASSUME Basic, Release
  PROVE  Basic'
  <1>1. TypeInv /\ Line /\ stage = "shown" /\ Len(todo) = 0
    BY DEF Basic, Release, Line
  <1>2. queue' = queue /\ encoder' = encoder /\ job' = job /\ stage' = "idle" /\ pixels' = pixels /\ transformBuf' = transformBuf
    BY DEF Release, reading
  <1>3. IsArray(pixels') /\ IsArray(transformBuf')
    BY <1>1, <1>2 DEF TypeInv
  <1> QED
    BY <1>1, <1>2, <1>3, Coded_Basic

LEMMA Still_Basic ==
  ASSUME Basic, UNCHANGED vars
  PROVE  Basic'
  <1>1. UNCHANGED <<queue, job, stage, mem, argb, residuals, todo, currentWidth, transforms, at, data, visits,
                    stream, pixels, transformBuf, xsize>>
    BY DEF vars, encoder, encoding, reading
  <1>2. TypeInv'
    BY <1>1 DEF Basic, TypeInv, IsSequence, IsPicture
  <1>3. Line'
    <2>1. CASE stage = "idle"
      BY <1>1, <2>1 DEF Basic, Line, IsSequence
    <2>2. CASE stage # "idle"
      <3>1. Line
        BY DEF Basic
      <3>2. IsSequence(transforms)' /\ IsSequence(todo)' /\ Listed'
        BY <1>1, <2>2, <3>1, LineSame
      <3>3. IsNearLossless' <=> IsNearLossless
        BY <1>1, SameJob
      <3> QED
        BY <1>1, <3>1, <3>2, <3>3 DEF Line
    <2> QED
      BY <2>1, <2>2
  <1>4. Tiling'
    BY <1>1, SameTiles DEF Basic, Tiling
  <1>5. Sized'
    BY <1>1, SameJob DEF Basic, Sized
  <1> QED
    BY <1>2, <1>3, <1>4, <1>5 DEF Basic

LEMMA Step_Basic == Basic /\ [Next]_vars => Basic'
  <1> SUFFICES ASSUME Basic, [Next]_vars PROVE Basic'
    OBVIOUS
  <1>1. CASE UNCHANGED vars
    BY <1>1, Still_Basic
  <1>2. CASE Begin
    BY <1>2, Begin_Basic
  <1>3. CASE NearRow \/ NextNearPass
    BY <1>3, NearRow_Basic, NextNearPass_Basic
  <1>4. CASE SubtractGreen \/ ApplyPalette
    BY <1>4, SubtractGreen_Basic, ApplyPalette_Basic
  <1>5. CASE StartTiles \/ EndColors \/ StartResiduals \/ ResidualRow \/ EndResiduals
    BY <1>5, StartTiles_Basic, EndColors_Basic, StartResiduals_Basic, ResidualRow_Basic, EndResiduals_Basic
  <1>6. CASE Write \/ ReadTransform \/ DecodePixels
    BY <1>6, Write_Basic, ReadTransform_Basic, DecodePixels_Basic
  <1>7. CASE \E w \in Procs : PickMode(w) \/ PickMultipliers(w) \/ ColorSpaceInverse(w) \/ ConvertRows(w)
    BY <1>7, PickMode_Basic, PickMultipliers_Basic, Undoing_Basic, ConvertRows_Basic
  <1>8. CASE AddGreenToBlueAndRed \/ PredictorInverse \/ ColorIndexInverse
    BY <1>8, Undoing_Basic
  <1>9. CASE Release
    BY <1>9, Release_Basic
  <1>10. CASE Finished
    BY <1>10, Still_Basic DEF Finished
  <1> QED
    BY <1>1, <1>2, <1>3, <1>4, <1>5, <1>6, <1>7, <1>8, <1>9, <1>10 DEF Next

LEMMA AlwaysBasic == Spec => []Basic
  BY Init_Basic, Step_Basic, PTL DEF Spec

\* ResidualImage and ColorSpaceTransform share the rows of tiles among their
\* goroutines: whatever the sizes of the picture and of the tiles and however
\* many goroutines there are, when they are joined every tile was handled by
\* one of them, and by one only.
THEOREM TilesHandledOnce == Spec => []TilesOnce
  <1>1. Basic => TilesOnce
    <2> SUFFICES ASSUME Basic, stage = "tiles", WorkersDone PROVE \A t \in DOMAIN visits : visits[t] = 1
      BY DEF TilesOnce
    <2>1. DOMAIN visits = 0..NumTiles - 1
      BY DEF Basic, Tiling
    <2> QED
      BY <2>1, AllHandled
  <1> QED
    BY <1>1, AlwaysBasic, PTL

-----------------------------------------------------------------------------
(* Numbers packed into a word *)

LEMMA LowestExists ==
  ASSUME NEW n \in Nat, NEW c
  PROVE  \E f : f = [k \in 0..n |-> IF k = 0 THEN 0 ELSE f[k - 1] + c[k - 1]]
  <1> DEFINE T == {m \in Nat : m <= n => \E f : f = [k \in 0..m |-> IF k = 0 THEN 0 ELSE f[k - 1] + c[k - 1]]}
  <1>1. 0 \in T
    <2>1. PICK f : f = [k \in 0..0 |-> 0]
      OBVIOUS
    <2>2. f = [k \in 0..0 |-> IF k = 0 THEN 0 ELSE f[k - 1] + c[k - 1]]
      BY <2>1
    <2> QED
      BY <2>2
  <1>2. ASSUME NEW m \in T PROVE m + 1 \in T
    <2>1. m \in Nat /\ m + 1 \in Nat
      OBVIOUS
    <2>2. SUFFICES ASSUME m + 1 <= n
                   PROVE  \E f : f = [k \in 0..m + 1 |-> IF k = 0 THEN 0 ELSE f[k - 1] + c[k - 1]]
      BY <2>1
    <2>3. PICK f : f = [k \in 0..m |-> IF k = 0 THEN 0 ELSE f[k - 1] + c[k - 1]]
      BY <2>1, <2>2
    <2>4. PICK g : g = [k \in 0..m + 1 |-> IF k = m + 1 THEN f[m] + c[m] ELSE f[k]]
      OBVIOUS
    <2>5. ASSUME NEW k \in 0..m + 1 PROVE g[k] = IF k = 0 THEN 0 ELSE g[k - 1] + c[k - 1]
      <3>1. CASE k = m + 1
        <4>1. g[k] = f[m] + c[m] /\ k - 1 = m /\ g[m] = f[m] /\ k # 0
          BY <2>1, <2>4, <3>1
        <4> QED
          BY <4>1
      <3>2. CASE k # m + 1
        <4>1. k \in 0..m /\ g[k] = f[k] /\ (k # 0 => k - 1 \in 0..m /\ g[k - 1] = f[k - 1])
          BY <2>1, <2>4, <3>2
        <4>2. f[k] = IF k = 0 THEN 0 ELSE f[k - 1] + c[k - 1]
          BY <2>3, <4>1
        <4> QED
          BY <4>1, <4>2
      <3> QED
        BY <3>1, <3>2
    <2>6. g = [k \in 0..m + 1 |-> IF k = 0 THEN 0 ELSE g[k - 1] + c[k - 1]]
      BY <2>4, <2>5
    <2> QED
      BY <2>6
  <1>3. T \in SUBSET Nat
    OBVIOUS
  <1> HIDE DEF T
  <1>4. n \in T
    BY <1>1, <1>2, <1>3, CountUp
  <1> QED
    BY <1>4 DEF T

\* Numbers of so many bits, and the places of a word they go to.
Weights(n, bits, d, w) ==
  /\ bits \in {1, 2, 4, 8} /\ n \in Nat \ {0} /\ n * bits <= 8
  /\ d = 2^bits /\ w = [k \in 0..n |-> 2^(k * bits)]
Numbers(indices, n, d) == DOMAIN indices = 0..n - 1 /\ \A k \in 0..n - 1 : indices[k] \in 0..d - 1

\* What the word holds: the sum of the numbers, each in its place.
LEMMA Lowest ==
  ASSUME NEW n, NEW bits, NEW d, NEW w, Weights(n, bits, d, w), NEW indices, Numbers(indices, n, d)
  PROVE  \E f : /\ PackedWord(indices, bits) = <<255, 0, f[n], 0>>
                /\ f[0] = 0
                /\ \A k \in 0..n - 1 : f[k + 1] = f[k] + (indices[k] % d) * w[k]
  <1> DEFINE few == Cardinality(DOMAIN indices)
             Sums(f) == f = [k \in 0..few |-> IF k = 0 THEN 0
                             ELSE f[k - 1] + (indices[k - 1] % 2^bits) * 2^((k - 1) * bits)]
             lowest == CHOOSE f : Sums(f)
  <1>1. n \in Nat /\ few = n /\ d = 2^bits /\ \A k \in 0..n : w[k] = 2^(k * bits)
    <2>1. n \in Nat /\ DOMAIN indices = 0..n - 1
      BY DEF Weights, Numbers
    <2>2. Cardinality(0..n - 1) = n
      BY <2>1, FS_Interval
    <2> QED
      BY <2>1, <2>2 DEF Weights
  <1>2. PackedWord(indices, bits) = <<255, 0, lowest[few], 0>>
    BY DEF PackedWord
  <1>3. \E f : Sums(f)
    <2>1. PICK c : c = [k \in 0..n - 1 |-> (indices[k] % 2^bits) * 2^(k * bits)]
      OBVIOUS
    <2>2. PICK f : f = [k \in 0..n |-> IF k = 0 THEN 0 ELSE f[k - 1] + c[k - 1]]
      BY <1>1, LowestExists, Zenon
    <2>3. \A k \in 0..n : k # 0 => c[k - 1] = (indices[k - 1] % 2^bits) * 2^((k - 1) * bits)
      <3>1. \A k \in 0..n : k # 0 => k - 1 \in 0..n - 1
        BY <1>1
      <3> QED
        BY <2>1, <3>1, Zenon
    <2>4. f = [k \in 0..n |-> IF k = 0 THEN 0 ELSE f[k - 1] + (indices[k - 1] % 2^bits) * 2^((k - 1) * bits)]
      BY <2>2, <2>3
    <2> QED
      BY <1>1, <2>4
  <1>4. Sums(lowest)
    <2> HIDE DEF Sums
    <2> QED
      BY <1>3
  <1> HIDE DEF lowest
  <1>5. lowest[0] = 0
    BY <1>1, <1>4
  <1>6. ASSUME NEW k \in 0..n - 1 PROVE lowest[k + 1] = lowest[k] + (indices[k] % d) * w[k]
    <2>1. k + 1 \in 0..n /\ k + 1 # 0 /\ (k + 1) - 1 = k /\ k \in 0..n
      BY <1>1
    <2>2. lowest[k + 1] = lowest[k] + (indices[k] % 2^bits) * 2^(k * bits)
      BY <1>1, <1>4, <2>1
    <2> QED
      BY <1>1, <2>1, <2>2
  <1> QED
    BY <1>1, <1>2, <1>5, <1>6

\* Digits in places each so many times the one before are read back one by one.
Spelled(n, d, c, w, f) ==
  /\ n \in Nat /\ d \in Nat \ {0} /\ f[0] = 0 /\ w[0] = 1
  /\ \A k \in 0..n - 1 : c[k] \in 0..d - 1 /\ f[k + 1] = f[k] + c[k] * w[k] /\ w[k + 1] = w[k] * d

Legible(n, d, c, w, sum) ==
  sum \in Nat /\ w[n] \in Nat /\ sum < w[n] /\ \A k \in 0..n - 1 : (sum \div w[k]) % d = c[k]

LEMMA Digits ==
  ASSUME NEW n, NEW d, NEW c, NEW w, NEW f, Spelled(n, d, c, w, f)
  PROVE  Legible(n, d, c, w, f[n])
  <1> DEFINE Place(k, m) == /\ w[k] \in Nat /\ (f[m] \div w[k]) % d = c[k]
                            /\ w[k] >= 1 /\ \E e \in Nat : w[m] = (w[k] * d) * e
             P(m) == f[m] \in Nat /\ w[m] \in Nat /\ f[m] < w[m] /\ \A k \in 0..m - 1 : Place(k, m)
             T == {m \in Nat : m <= n => P(m)}
  <1>0. n \in Nat /\ d \in Nat \ {0}
    BY DEF Spelled
  <1>1. 0 \in T
    BY DEF Spelled
  <1>2. ASSUME NEW m \in T PROVE m + 1 \in T
    <2>1. m \in Nat /\ m + 1 \in Nat
      OBVIOUS
    <2>2. SUFFICES ASSUME m + 1 <= n PROVE P(m + 1)
      BY <1>0, <2>1
    <2>3. P(m)
      BY <1>0, <2>1, <2>2
    <2>4. c[m] \in 0..d - 1 /\ f[m + 1] = f[m] + c[m] * w[m] /\ w[m + 1] = w[m] * d
      BY <1>0, <2>1, <2>2 DEF Spelled
    <2>5. PICK u, v, g : u = f[m] /\ v = w[m] /\ g = c[m]
      OBVIOUS
    <2>6. u \in Nat /\ v \in Nat /\ u < v /\ g \in 0..d - 1 /\ f[m + 1] = u + g * v /\ w[m + 1] = v * d
      BY <1>0, <2>3, <2>4, <2>5
    <2>7. f[m + 1] \in Nat /\ w[m + 1] \in Nat
      <3>1. g * v \in Nat /\ v * d \in Nat
        BY <1>0, <2>6
      <3> QED
        BY <1>0, <2>6, <3>1
    <2>8. f[m + 1] < w[m + 1]
      <3>1. g * v + v <= d * v /\ d * v = v * d
        BY <1>0, <2>6, Apart
      <3>2. g * v \in Nat /\ d * v \in Nat
        BY <1>0, <2>6
      <3> QED
        BY <1>0, <2>6, <3>1, <3>2
    <2>9. ASSUME NEW k \in 0..m PROVE Place(k, m + 1)
      <3>1. CASE k = m
        <4>1. (g * v + u) \div v = g
          <5>1. g \in Nat /\ v \in Nat /\ u \in 0..v - 1
            BY <1>0, <2>6
          <5> QED
            BY <1>0, <5>1, Cell
        <4>2. g * v + u = u + g * v /\ g % d = g
          BY <1>0, <2>6
        <4>3. v >= 1 /\ v * d = (v * d) * 1
          BY <1>0, <2>6
        <4> QED
          BY <1>0, <2>5, <2>6, <3>1, <4>1, <4>2, <4>3
      <3>2. CASE k # m
        <4>1. k \in 0..m - 1
          BY <1>0, <2>1, <3>2
        <4>2. Place(k, m)
          BY <1>0, <2>3, <4>1
        <4>3. PICK z, e \in Nat : z = w[k] /\ z >= 1 /\ v = (z * d) * e
          BY <1>0, <2>5, <4>2
        <4>4. v = (e * d) * z /\ e * d \in Nat
          BY <1>0, <4>3
        <4>5. PICK x \in Nat : x = g * e
          BY <1>0, <2>6
        <4>6. g * v = (x * d) * z /\ x * d \in Nat
          <5>1. g * ((e * d) * z) = ((g * e) * d) * z
            BY <1>0, <2>6
          <5> QED
            BY <1>0, <4>4, <4>5, <5>1
        <4>7. PICK q, r : q = u \div z /\ r = u % z
          OBVIOUS
        <4>8. q \in Nat /\ r \in 0..z - 1 /\ u = q * z + r
          BY <1>0, <2>6, <4>3, <4>7, Division
        <4>9. PICK h \in Nat : h = q + x * d
          BY <1>0, <4>6, <4>8
        <4>10. f[m + 1] \div z = h
          <5>1. f[m + 1] = h * z + r
            BY <1>0, <2>6, <4>6, <4>8, <4>9
          <5>2. (h * z + r) \div z = h
            BY <1>0, <4>3, <4>8, Cell
          <5> QED
            BY <1>0, <5>1, <5>2
        <4>11. h % d = q % d
          <5>1. PICK a, b : a = q \div d /\ b = q % d
            OBVIOUS
          <5>2. a \in Nat /\ b \in 0..d - 1 /\ q = a * d + b
            <6>1. q \in Nat /\ d \in Nat /\ d >= 1
              BY <1>0, <4>8
            <6> QED
              BY <5>1, <6>1, Division
          <5>3. PICK t \in Nat : t = a + x
            BY <1>0, <5>2
          <5>4. h = t * d + b
            BY <1>0, <4>9, <5>2, <5>3
          <5>5. (t * d + b) % d = b
            BY <1>0, <5>2, Cell
          <5> QED
            BY <1>0, <5>1, <5>4, <5>5
        <4>12. v * d = (z * d) * (e * d)
          BY <1>0, <4>3, <4>4
        <4>13. (f[m + 1] \div w[k]) % d = c[k]
          BY <1>0, <2>5, <4>2, <4>3, <4>7, <4>10, <4>11, Zenon
        <4>14. \E l \in Nat : w[m + 1] = (w[k] * d) * l
          BY <1>0, <2>6, <4>3, <4>4, <4>12
        <4> QED
          BY <1>0, <4>3, <4>13, <4>14
      <3> QED
        BY <3>1, <3>2
    <2>10. \A k \in 0..m + 1 - 1 : k \in 0..m
      BY <1>0, <2>1
    <2> QED
      BY <1>0, <2>7, <2>8, <2>9, <2>10
  <1>3. T \in SUBSET Nat
    OBVIOUS
  <1> HIDE DEF T
  <1>4. n \in T
    BY <1>0, <1>1, <1>2, <1>3, CountUp
  <1>5. P(n)
    BY <1>0, <1>4 DEF T
  <1> QED
    BY <1>0, <1>5 DEF Legible

\* Bits of a byte, so many at a time.
LEMMA Sums ==
  ASSUME NEW a \in 0..8, NEW b \in {1, 2, 4, 8}, a + b <= 8
  PROVE  2^(a + b) = 2^a * 2^b
  <1>1. PICK p : p = [e \in 0..8 |-> 2^e]
    OBVIOUS
  <1>2. p[0] = 1 /\ p[1] = 2 /\ p[2] = 4 /\ p[3] = 8 /\ p[4] = 16 /\ p[5] = 32 /\ p[6] = 64 /\ p[7] = 128 /\ p[8] = 256
    <2>1. /\ 2^0 = 1 /\ 2^1 = 2 /\ 2^2 = 4 /\ 2^3 = 8 /\ 2^4 = 16 /\ 2^5 = 32 /\ 2^6 = 64
          /\ 2^7 = 128 /\ 2^8 = 256
      OBVIOUS
    <2> QED
      BY <1>1, <2>1
  <1>3. p[a + b] = p[a] * p[b]
    <2>1. PICK c : c = a + b
      OBVIOUS
    <2>2. CASE b = 1
      <3>1. \/ (a = 0 /\ c = 1) \/ (a = 1 /\ c = 2) \/ (a = 2 /\ c = 3) \/ (a = 3 /\ c = 4)
            \/ (a = 4 /\ c = 5) \/ (a = 5 /\ c = 6) \/ (a = 6 /\ c = 7) \/ (a = 7 /\ c = 8)
        BY <2>1, <2>2
      <3> QED
        BY <1>2, <2>1, <2>2, <3>1
    <2>3. CASE b = 2
      <3>1. \/ (a = 0 /\ c = 2) \/ (a = 1 /\ c = 3) \/ (a = 2 /\ c = 4) \/ (a = 3 /\ c = 5)
            \/ (a = 4 /\ c = 6) \/ (a = 5 /\ c = 7) \/ (a = 6 /\ c = 8)
        BY <2>1, <2>3
      <3> QED
        BY <1>2, <2>1, <2>3, <3>1
    <2>4. CASE b = 4
      <3>1. \/ (a = 0 /\ c = 4) \/ (a = 1 /\ c = 5) \/ (a = 2 /\ c = 6) \/ (a = 3 /\ c = 7) \/ (a = 4 /\ c = 8)
        BY <2>1, <2>4
      <3> QED
        BY <1>2, <2>1, <2>4, <3>1
    <2>5. CASE b = 8
      <3>1. a = 0 /\ c = 8
        BY <2>1, <2>5
      <3> QED
        BY <1>2, <2>1, <2>5, <3>1
    <2> QED
      BY <2>2, <2>3, <2>4, <2>5
  <1>4. p[a + b] = 2^(a + b) /\ p[a] = 2^a /\ p[b] = 2^b
    <2>1. a + b \in 0..8 /\ b \in 0..8
      OBVIOUS
    <2> QED
      BY <1>1, <2>1, Zenon
  <1> QED
    BY <1>3, <1>4, Zenon

LEMMA Small == \A e \in 1..8 : 2^e <= 256
  <1>1. PICK p : p = [e \in 1..8 |-> 2^e]
    OBVIOUS
  <1>2. p[1] = 2 /\ p[2] = 4 /\ p[3] = 8 /\ p[4] = 16 /\ p[5] = 32 /\ p[6] = 64 /\ p[7] = 128 /\ p[8] = 256
    <2>1. 2^1 = 2 /\ 2^2 = 4 /\ 2^3 = 8 /\ 2^4 = 16 /\ 2^5 = 32 /\ 2^6 = 64 /\ 2^7 = 128 /\ 2^8 = 256
      OBVIOUS
    <2> QED
      BY <1>1, <2>1
  <1>3. \A e \in 1..8 : p[e] <= 256
    <2>1. TAKE e \in 1..8
    <2>2. e = 1 \/ e = 2 \/ e = 3 \/ e = 4 \/ e = 5 \/ e = 6 \/ e = 7 \/ e = 8
      OBVIOUS
    <2> QED
      BY <1>2, <2>2
  <1> QED
    BY <1>1, <1>3

LEMMA Places ==
  ASSUME NEW n, NEW bits, NEW d, NEW w, Weights(n, bits, d, w)
  PROVE  n \in Nat \ {0} /\ d \in 1..512 /\ w[0] = 1 /\ w[n] <= 256 /\ \A k \in 0..n - 1 : w[k + 1] = w[k] * d
  <1>1. /\ bits \in {1, 2, 4, 8} /\ n \in Nat \ {0} /\ n * bits <= 8
        /\ DOMAIN w = 0..n /\ d = 2^bits /\ \A k \in 0..n : w[k] = 2^(k * bits)
    BY DEF Weights
  <1>2. d \in 1..512
    <2>1. bits \in 0..9
      BY <1>1
    <2> QED
      BY <1>1, <2>1, Powers
  <1>3. w[0] = 1
    <2>1. 2^0 = 1
      OBVIOUS
    <2>2. 0 * bits = 0 /\ 0 \in 0..n
      BY <1>1
    <2> QED
      BY <1>1, <2>1, <2>2, Zenon
  <1>4. w[n] <= 256
    <2>1. PICK e : e = n * bits
      OBVIOUS
    <2>2. e \in 1..8 /\ n \in 0..n
      BY <1>1, <2>1
    <2>3. w[n] = 2^e
      BY <1>1, <2>1, <2>2, Zenon
    <2> QED
      BY <2>2, <2>3, Small
  <1>5. ASSUME NEW k \in 0..n - 1 PROVE w[k + 1] = w[k] * d
    <2>1. PICK a \in Nat : a = k * bits /\ (k + 1) * bits = a + bits
      <3>1. k * bits \in Nat /\ (k + 1) * bits = k * bits + bits
        BY <1>1
      <3> QED
        BY <3>1
    <2>2. (k + 1) * bits <= n * bits /\ n * bits \in Nat
      <3>1. k + 1 \in Nat /\ k + 1 <= n /\ bits \in Nat /\ n \in Nat
        BY <1>1
      <3> QED
        BY <3>1, Grows
    <2>3. a \in 0..8 /\ a + bits <= 8 /\ bits \in {1, 2, 4, 8}
      BY <1>1, <2>1, <2>2
    <2>4. 2^(a + bits) = 2^a * 2^bits
      BY <2>3, Sums, Zenon
    <2>5. k + 1 \in 0..n /\ k \in 0..n
      BY <1>1
    <2>6. w[k + 1] = 2^(a + bits) /\ w[k] = 2^a
      BY <1>1, <2>1, <2>5, Zenon
    <2> QED
      BY <1>1, <2>4, <2>6, Zenon
  <1> QED
    BY <1>1, <1>2, <1>3, <1>4, <1>5

\* Numbers of so many bits come out of the word as they went in.
LEMMA Unpacked ==
  ASSUME NEW n, NEW bits, NEW d, NEW w, Weights(n, bits, d, w), NEW indices, Numbers(indices, n, d)
  PROVE  PackedWord(indices, bits) \in Pixel /\ \A k \in 0..n - 1 : IndexIn(PackedWord(indices, bits), k, bits) = indices[k]
  <1>1. n \in Nat \ {0} /\ d \in 1..512 /\ w[0] = 1 /\ w[n] <= 256 /\ \A k \in 0..n - 1 : w[k + 1] = w[k] * d
    BY Places
  <1>2. \A k \in 0..n - 1 : indices[k] \in Nat /\ indices[k] % d = indices[k]
    <2>1. \A v \in 0..d - 1 : v \in Nat /\ v % d = v
      BY <1>1
    <2> QED
      BY <2>1 DEF Numbers
  <1>3. PICK f : /\ PackedWord(indices, bits) = <<255, 0, f[n], 0>> /\ f[0] = 0
                 /\ \A k \in 0..n - 1 : f[k + 1] = f[k] + (indices[k] % d) * w[k]
    BY Lowest
  <1>4. Spelled(n, d, indices, w, f)
    <2>1. \A k \in 0..n - 1 : f[k + 1] = f[k] + indices[k] * w[k]
      BY <1>2, <1>3
    <2>2. n \in Nat /\ d \in Nat \ {0} /\ f[0] = 0 /\ w[0] = 1 /\ \A k \in 0..n - 1 : w[k + 1] = w[k] * d
      BY <1>1, <1>3
    <2>3. \A k \in 0..n - 1 : indices[k] \in 0..d - 1
      BY DEF Numbers
    <2> QED
      BY <2>1, <2>2, <2>3 DEF Spelled
  <1>5. Legible(n, d, indices, w, f[n])
    BY <1>4, Digits
  <1>6. f[n] \in Byte
    <2>1. f[n] \in Nat /\ w[n] \in Nat /\ f[n] < w[n]
      BY <1>5, Zenon DEF Legible
    <2>2. w[n] <= 256
      BY <1>1, Zenon
    <2>3. \A u, v \in Nat : u < v /\ v <= 256 => u \in 0..255
      OBVIOUS
    <2> QED
      BY <2>1, <2>2, <2>3, Zenon DEF Byte
  <1>7. PackedWord(indices, bits) \in Pixel
    <2>1. 255 \in Byte /\ 0 \in Byte
      BY DEF Byte
    <2> QED
      BY <1>3, <1>6, <2>1, PixelParts
  <1>8. ASSUME NEW k \in 0..n - 1 PROVE IndexIn(PackedWord(indices, bits), k, bits) = indices[k]
    <2>1. k \in 0..n
      BY <1>1
    <2>2. PackedWord(indices, bits)[3] = f[n]
      BY <1>3
    <2>3. w[k] = 2^(k * bits) /\ d = 2^bits
      BY <2>1, Zenon DEF Weights
    <2>4. (f[n] \div w[k]) % d = indices[k]
      BY <1>5, Zenon DEF Legible
    <2>5. IndexIn(PackedWord(indices, bits), k, bits) = (f[n] \div w[k]) % d
      BY <2>2, <2>3, Zenon DEF IndexIn
    <2> QED
      BY <2>4, <2>5
  <1> QED
    BY <1>7, <1>8

-----------------------------------------------------------------------------
(* Palettes *)

LEMMA DarkerParts ==
  \A c, d : Darker(c, d) <=> \/ c[1] < d[1]
                             \/ c[1] = d[1] /\ c[2] < d[2]
                             \/ c[1] = d[1] /\ c[2] = d[2] /\ c[3] < d[3]
                             \/ c[1] = d[1] /\ c[2] = d[2] /\ c[3] = d[3] /\ c[4] < d[4]
  <1> TAKE c, d
  <1> DEFINE First(k) == c[k] < d[k] /\ \A j \in 1..k - 1 : c[j] = d[j]
  <1>1. Darker(c, d) <=> \E k \in {1, 2, 3, 4} : First(k)
    <2>1. Channels = {1, 2, 3, 4}
      BY DEF Channels
    <2> QED
      BY <2>1, Zenon DEF Darker
  <1>2. /\ 1..1 - 1 = {} /\ 1..2 - 1 = {1} /\ 1..3 - 1 = {1, 2} /\ 1..4 - 1 = {1, 2, 3}
    OBVIOUS
  <1>3. /\ First(1) <=> c[1] < d[1]
        /\ First(2) <=> c[2] < d[2] /\ c[1] = d[1]
        /\ First(3) <=> c[3] < d[3] /\ c[1] = d[1] /\ c[2] = d[2]
        /\ First(4) <=> c[4] < d[4] /\ c[1] = d[1] /\ c[2] = d[2] /\ c[3] = d[3]
    BY <1>2
  <1> HIDE DEF First
  <1> QED
    BY <1>1, <1>3, Zenon

\* Two colours differ in which is the darker one; a darker than a darker one is darker.
LEMMA DarkerOrder ==
  /\ \A c \in Pixel : ~Darker(c, c)
  /\ \A c, d \in Pixel : c = d \/ Darker(c, d) \/ Darker(d, c)
  /\ \A c, d, e \in Pixel : Darker(c, d) /\ Darker(d, e) => Darker(c, e)
  <1>1. \A p \in Pixel : p[1] \in Int /\ p[2] \in Int /\ p[3] \in Int /\ p[4] \in Int /\ p = <<p[1], p[2], p[3], p[4]>>
    <2>1. \A v \in Byte : v \in Int
      BY DEF Byte
    <2> QED
      BY <2>1, PixelParts
  <1>2. \A c \in Pixel : ~Darker(c, c)
    BY <1>1, DarkerParts
  <1>3. ASSUME NEW c \in Pixel, NEW d \in Pixel, ~Darker(c, d), ~Darker(d, c) PROVE c = d
    <2>1. c[1] = d[1] /\ c[2] = d[2] /\ c[3] = d[3] /\ c[4] = d[4]
      BY <1>1, <1>3, DarkerParts
    <2> QED
      BY <1>1, <2>1
  <1>4. ASSUME NEW c \in Pixel, NEW d \in Pixel, NEW e \in Pixel, Darker(c, d), Darker(d, e) PROVE Darker(c, e)
    BY <1>1, <1>4, DarkerParts
  <1> QED
    BY <1>2, <1>3, <1>4

LEMMA ColorsFacts ==
  IsPicture(job) =>
      /\ IsFiniteSet(Colors) /\ Cardinality(Colors) \in Nat \ {0} /\ Colors \subseteq Pixel
      /\ \A i \in 0..Size - 1 : job.argb[i] \in Colors
      /\ DOMAIN job.argb = 0..Size - 1 /\ job.argb \in [0..Size - 1 -> Pixel]
  <1> SUFFICES ASSUME IsPicture(job)
               PROVE  /\ IsFiniteSet(Colors) /\ Cardinality(Colors) \in Nat \ {0} /\ Colors \subseteq Pixel
                      /\ \A i \in 0..Size - 1 : job.argb[i] \in Colors
                      /\ DOMAIN job.argb = 0..Size - 1 /\ job.argb \in [0..Size - 1 -> Pixel]
    OBVIOUS
  <1>1. job.argb \in [0..Size - 1 -> Pixel] /\ Size \in Nat \ {0}
    <2>1. Size = job.width * job.height
      BY DEF Size, Width, Height
    <2> QED
      BY <2>1, JobFacts DEF IsPicture
  <1>2. Colors = {job.argb[i] : i \in 0..Size - 1}
    <2>1. DOMAIN job.argb = 0..Size - 1
      BY <1>1
    <2> QED
      BY <2>1 DEF Colors, Range
  <1>3. IsFiniteSet(0..Size - 1)
    <2>1. 0 \in Int /\ Size - 1 \in Int
      BY <1>1
    <2> QED
      BY <2>1, FS_Interval
  <1>4. job.argb \in Surjection(0..Size - 1, Colors)
    BY <1>1, <1>2 DEF Surjection
  <1>5. IsFiniteSet(Colors)
    BY <1>3, <1>4, FS_Surjection
  <1>6. Cardinality(Colors) \in Nat /\ Cardinality(Colors) # 0
    <2>1. 0 \in 0..Size - 1
      BY <1>1
    <2>2. Colors # {}
      BY <1>2, <2>1
    <2> QED
      BY <1>5, <2>2, FS_EmptySet, FS_CardinalityType
  <1> QED
    BY <1>1, <1>2, <1>5, <1>6

\* Every colour has a place of its own, and every place a colour.
LEMMA Sorted ==
  ASSUME NEW C \in SUBSET Pixel, IsFiniteSet(C)
  PROVE  /\ Cardinality(C) \in Nat
         /\ DOMAIN SortedColors(C) = 0..Cardinality(C) - 1
         /\ \A i \in 0..Cardinality(C) - 1 : SortedColors(C)[i] \in C
         /\ \A c \in C : \E i \in 0..Cardinality(C) - 1 : SortedColors(C)[i] = c
  <1> DEFINE Below(c) == {d \in C : Darker(d, c)}
             rank == [c \in C |-> Cardinality(Below(c))]
             N == Cardinality(C)
  <1>1. N \in Nat
    BY FS_CardinalityType
  <1>2. ASSUME NEW c \in C PROVE IsFiniteSet(Below(c)) /\ rank[c] = Cardinality(Below(c)) /\ rank[c] \in 0..N - 1
    <2>1. Below(c) \in SUBSET C
      OBVIOUS
    <2>2. c \notin Below(c)
      BY DarkerOrder
    <2>3. IsFiniteSet(Below(c)) /\ Cardinality(Below(c)) <= N /\ (N = Cardinality(Below(c)) => C = Below(c))
      <3> HIDE DEF Below
      <3> QED
        BY <2>1, FS_Subset
    <2>4. Cardinality(Below(c)) \in Nat
      BY <2>3, FS_CardinalityType
    <2>5. Cardinality(Below(c)) # N
      BY <2>2, <2>3
    <2>6. rank[c] = Cardinality(Below(c))
      OBVIOUS
    <2> HIDE DEF Below, rank
    <2> QED
      BY <1>1, <2>3, <2>4, <2>5, <2>6
  <1>3. ASSUME NEW c \in C, NEW d \in C, Darker(c, d) PROVE rank[c] < rank[d]
    <2>1. Below(c) \in SUBSET Below(d)
      BY <1>3, DarkerOrder
    <2>2. c \in Below(d) /\ c \notin Below(c)
      BY <1>3, DarkerOrder
    <2>3. IsFiniteSet(Below(d)) /\ rank[c] = Cardinality(Below(c)) /\ rank[d] = Cardinality(Below(d))
          /\ rank[c] \in 0..N - 1 /\ rank[d] \in 0..N - 1
      BY <1>2
    <2> HIDE DEF Below, rank
    <2>4. rank[c] <= rank[d] /\ rank[c] # rank[d]
      BY <2>1, <2>2, <2>3, FS_Subset
    <2> QED
      BY <1>1, <2>3, <2>4
  <1>4. rank \in [C -> 0..N - 1]
    <2>1. rank = [c \in C |-> rank[c]]
      OBVIOUS
    <2> HIDE DEF rank
    <2> QED
      BY <1>2, <2>1
  <1>5. \A c, d \in C : rank[c] = rank[d] => c = d
    <2> SUFFICES ASSUME NEW c \in C, NEW d \in C, rank[c] = rank[d], c # d PROVE FALSE
      OBVIOUS
    <2>1. Darker(c, d) \/ Darker(d, c)
      BY DarkerOrder
    <2>2. rank[c] \in 0..N - 1 /\ rank[d] \in 0..N - 1
      BY <1>2
    <2> HIDE DEF rank
    <2> QED
      BY <1>3, <1>1, <2>1, <2>2
  <1>6. rank \in Surjection(C, 0..N - 1)
    <2>1. rank \in Injection(C, 0..N - 1)
      <3> HIDE DEF rank
      <3> QED
        BY <1>4, <1>5 DEF Injection, IsInjective
    <2>2. IsFiniteSet(0..N - 1) /\ Cardinality(0..N - 1) = N
      BY <1>1, FS_Interval
    <2> HIDE DEF rank
    <2> QED
      BY <2>1, <2>2, FS_Injection
  <1>7. \A i \in 0..N - 1 : \E c \in C : rank[c] = i
    <2> HIDE DEF rank
    <2> QED
      BY <1>6 DEF Surjection
  <1>8. ASSUME NEW c \in C PROVE SortedColors(C)[rank[c]] = c
    <2>1. rank[c] \in 0..N - 1
      BY <1>2
    <2>2. SortedColors(C)[rank[c]] = CHOOSE d \in C : Cardinality(Below(d)) = rank[c]
      BY <2>1 DEF SortedColors
    <2>3. \A d \in C : Cardinality(Below(d)) = rank[c] <=> d = c
      <3>1. \A d \in C : rank[d] = Cardinality(Below(d))
        BY <1>2
      <3> HIDE DEF rank, Below
      <3> QED
        BY <1>5, <3>1
    <2> HIDE DEF rank, Below
    <2> QED
      BY <2>2, <2>3
  <1> HIDE DEF rank
  <1>9. \A i \in 0..N - 1 : SortedColors(C)[i] \in C
    BY <1>7, <1>8
  <1>10. \A c \in C : \E i \in 0..N - 1 : SortedColors(C)[i] = c
    BY <1>2, <1>8
  <1>11. DOMAIN SortedColors(C) = 0..N - 1
    BY DEF SortedColors
  <1> QED
    BY <1>1, <1>9, <1>10, <1>11

\* The numbers of a word, and how many colours they can tell apart.
LEMMA WordParts ==
  ASSUME NEW b \in 0..3
  PROVE  /\ 2^b \in {1, 2, 4, 8} /\ BitsPerPixel(b) \in {1, 2, 4, 8} /\ 2^b * BitsPerPixel(b) = 8
         /\ 2^BitsPerPixel(b) = IF b = 0 THEN 256 ELSE IF b = 1 THEN 16 ELSE IF b = 2 THEN 4 ELSE 2
  <1>1. 2^0 = 1 /\ 2^1 = 2 /\ 2^2 = 4 /\ 2^3 = 8 /\ 2^4 = 16 /\ 2^8 = 256
    OBVIOUS
  <1>2. 8 \div 1 = 8 /\ 8 \div 2 = 4 /\ 8 \div 4 = 2 /\ 8 \div 8 = 1
    OBVIOUS
  <1>3. b = 0 \/ b = 1 \/ b = 2 \/ b = 3
    OBVIOUS
  <1>4. CASE b = 0
    <2>1. 2^b = 1 /\ BitsPerPixel(b) = 8 /\ 2^BitsPerPixel(b) = 256
      <3>1. 2^b = 1
        BY <1>1, <1>4
      <3>2. BitsPerPixel(b) = 8
        BY <1>2, <3>1 DEF BitsPerPixel
      <3>3. 2^8 = 256
        BY <1>1
      <3> QED
        BY <3>1, <3>2, <3>3
    <2> QED
      BY <1>4, <2>1
  <1>5. CASE b = 1
    <2>1. 2^b = 2 /\ BitsPerPixel(b) = 4 /\ 2^BitsPerPixel(b) = 16
      <3>1. 2^b = 2
        BY <1>1, <1>5
      <3>2. BitsPerPixel(b) = 4
        BY <1>2, <3>1 DEF BitsPerPixel
      <3>3. 2^4 = 16
        BY <1>1
      <3> QED
        BY <3>1, <3>2, <3>3
    <2> QED
      BY <1>5, <2>1
  <1>6. CASE b = 2
    <2>1. 2^b = 4 /\ BitsPerPixel(b) = 2 /\ 2^BitsPerPixel(b) = 4
      BY <1>1, <1>2, <1>6, Zenon DEF BitsPerPixel
    <2> QED
      BY <1>6, <2>1
  <1>7. CASE b = 3
    <2>1. 2^b = 8 /\ BitsPerPixel(b) = 1 /\ 2^BitsPerPixel(b) = 2
      BY <1>1, <1>2, <1>7, Zenon DEF BitsPerPixel
    <2> QED
      BY <1>7, <2>1
  <1> QED
    BY <1>3, <1>4, <1>5, <1>6, <1>7

\* A palette has every colour of the picture, and the words have room for it.
LEMMA PaletteFacts ==
  ASSUME IsPicture(job), UsePalette
  PROVE  /\ Cardinality(Colors) \in Nat \ {0} /\ DOMAIN Palette = 0..Cardinality(Colors) - 1
         /\ Cardinality(Colors) <= 2^BitsPerPixel(CodeBits)
         /\ \A i \in 0..Cardinality(Colors) - 1 : Palette[i] \in Pixel
         /\ \A c \in Colors : /\ Lookup(Palette, c) \in 0..Cardinality(Colors) - 1
                              /\ Palette[Lookup(Palette, c)] = c
  <1> DEFINE n == Cardinality(Colors)
  <1>1. IsFiniteSet(Colors) /\ n \in Nat \ {0} /\ Colors \subseteq Pixel
    BY ColorsFacts
  <1>2. /\ DOMAIN Palette = 0..n - 1 /\ \A i \in 0..n - 1 : Palette[i] \in Colors
        /\ \A c \in Colors : \E i \in 0..n - 1 : Palette[i] = c
    BY <1>1, Sorted DEF Palette
  <1>3. \A c \in Colors : Lookup(Palette, c) \in 0..n - 1 /\ Palette[Lookup(Palette, c)] = c
    <2> TAKE c \in Colors
    <2>1. \E i \in DOMAIN Palette : Palette[i] = c
      BY <1>2
    <2>2. Lookup(Palette, c) = CHOOSE i \in DOMAIN Palette : Palette[i] = c
      BY <2>1 DEF Lookup
    <2> QED
      BY <1>2, <2>1, <2>2
  <1>4. n <= 2^BitsPerPixel(CodeBits)
    <2>1. n <= MaxPaletteSize /\ MaxPaletteSize \in 0..256
          /\ PackLimits[1] \in 0..2 /\ PackLimits[2] \in 0..4 /\ PackLimits[3] \in 0..16
      BY TransformsAssumption DEF UsePalette
    <2>2. CodeBits = IF n <= PackLimits[1] THEN 3 ELSE IF n <= PackLimits[2] THEN 2 ELSE IF n <= PackLimits[3] THEN 1 ELSE 0
      BY DEF CodeBits, PaletteCodeBits
    <2>3. PICK most : most = 2^BitsPerPixel(CodeBits)
      OBVIOUS
    <2>4. CodeBits \in 0..3
      BY <2>2
    <2>5. most = IF CodeBits = 0 THEN 256 ELSE IF CodeBits = 1 THEN 16 ELSE IF CodeBits = 2 THEN 4 ELSE 2
      BY <2>3, <2>4, WordParts, Zenon
    <2>6. n <= most
      BY <1>1, <2>1, <2>2, <2>5
    <2> QED
      BY <2>3, <2>6
  <1> QED
    BY <1>1, <1>2, <1>3, <1>4

\* The colour map of the decoder begins with the palette of the encoder.
LEMMA ColorMap ==
  ASSUME NEW n \in Nat \ {0}, NEW palette, DOMAIN palette = 0..n - 1, \A i \in 0..n - 1 : palette[i] \in Pixel,
         NEW bits, NEW most \in Nat, most = 2^(8 \div 2^bits), n <= most
  PROVE  \A i \in 0..n - 1 : ExpandColorMap(DeltaPalette(palette), bits)[i] = palette[i]
  <1> DEFINE deltas == DeltaPalette(palette)
             Full(m) == m = [i \in 0..most - 1 |->
                               IF i = 0 THEN deltas[0] ELSE IF i \in DOMAIN deltas THEN AddPixels(deltas[i], m[i - 1]) ELSE Zero]
             map == CHOOSE m : Full(m)
  <1>1. ExpandColorMap(deltas, bits) = map
    BY DEF ExpandColorMap
  <1>2. DOMAIN deltas = 0..n - 1 /\ deltas[0] = palette[0]
        /\ \A i \in 0..n - 1 : i # 0 => deltas[i] = SubPixels(palette[i], palette[i - 1])
    BY DEF DeltaPalette
  <1>3. \A i \in 0..n - 1 : i # 0 => AddPixels(deltas[i], palette[i - 1]) = palette[i]
    <2> TAKE i \in 0..n - 1
    <2>1. HAVE i # 0
    <2>2. i - 1 \in 0..n - 1
      BY <2>1
    <2>3. IsGuess(palette[i - 1])
      <3>1. \A v \in Byte : v \in Int
        BY DEF Byte
      <3>2. palette[i - 1] \in Pixel
        BY <2>2
      <3>3. \A p \in Pixel : IsGuess(p)
        BY <3>1, PixelParts DEF IsGuess, Channels
      <3> QED
        BY <3>2, <3>3
    <2> QED
      BY <1>2, <2>1, <2>2, <2>3, Residual
  <1> HIDE DEF deltas
  <1>4. \E m : Full(m)
    <2> DEFINE m == [i \in 0..most - 1 |-> IF i \in 0..n - 1 THEN palette[i] ELSE Zero]
    <2>1. ASSUME NEW i \in 0..most - 1
          PROVE  m[i] = IF i = 0 THEN deltas[0] ELSE IF i \in DOMAIN deltas THEN AddPixels(deltas[i], m[i - 1]) ELSE Zero
      <3>1. CASE i = 0
        BY <1>2, <3>1
      <3>2. CASE i # 0 /\ i \in 0..n - 1
        <4>1. i - 1 \in 0..n - 1 /\ i - 1 \in 0..most - 1
          BY <3>2
        <4>2. m[i - 1] = palette[i - 1] /\ m[i] = palette[i]
          BY <3>2, <4>1
        <4> QED
          BY <1>2, <1>3, <3>2, <4>2
      <3>3. CASE i # 0 /\ i \notin 0..n - 1
        BY <1>2, <3>3
      <3> QED
        BY <3>1, <3>2, <3>3
    <2>2. m = [i \in 0..most - 1 |-> m[i]]
      OBVIOUS
    <2> HIDE DEF m
    <2>3. Full(m)
      BY <2>1, <2>2
    <2> QED
      BY <2>3
  <1>5. Full(map)
    <2> HIDE DEF Full
    <2> QED
      BY <1>4
  <1> HIDE DEF map
  <1>6. ASSUME NEW i \in 0..n - 1 PROVE map[i] = IF i = 0 THEN palette[0] ELSE AddPixels(deltas[i], map[i - 1])
    <2>1. i \in 0..most - 1
      OBVIOUS
    <2> QED
      BY <1>2, <1>5, <2>1
  <1> DEFINE T == {m \in Nat : m < n => map[m] = palette[m]}
  <1>7. 0 \in T
    BY <1>6
  <1>8. ASSUME NEW m \in T PROVE m + 1 \in T
    <2>1. SUFFICES ASSUME m + 1 < n PROVE map[m + 1] = palette[m + 1]
      OBVIOUS
    <2>2. m \in Nat /\ m + 1 \in 0..n - 1 /\ m + 1 # 0 /\ (m + 1) - 1 = m /\ map[m] = palette[m]
      BY <2>1
    <2>3. map[m + 1] = AddPixels(deltas[m + 1], map[m])
      BY <1>6, <2>2
    <2> QED
      BY <1>3, <2>2, <2>3
  <1>9. T \in SUBSET Nat
    OBVIOUS
  <1>10. ASSUME NEW i \in 0..n - 1 PROVE map[i] = palette[i]
    <2>1. i \in T
      <3> HIDE DEF T
      <3>1. i \in Nat
        OBVIOUS
      <3> QED
        BY <1>7, <1>8, <1>9, <3>1, CountUp
    <2> QED
      BY <2>1
  <1> QED
    BY <1>1, <1>10 DEF deltas

-----------------------------------------------------------------------------
(* Words of palette numbers *)

\* How many pixels the j-th word of a row is for, and what it says of a picture.
Few(j) == Min({2^CodeBits, Width - j * 2^CodeBits})
Word(a, r, j) ==
  PackedWord([k \in 0..Few(j) - 1 |-> Lookup(Palette, a[r * Width + j * 2^CodeBits + k])], BitsPerPixel(CodeBits))

LEMMA FewFacts ==
  ASSUME IsPicture(job), UsePalette, NEW j \in 0..CodedWidth - 1
  PROVE  /\ j * 2^CodeBits \in Nat /\ j * 2^CodeBits < Width /\ 2^CodeBits \in 1..8
         /\ Few(j) \in 1..2^CodeBits /\ j * 2^CodeBits + Few(j) <= Width
         /\ Few(j) = Min({2^CodeBits, Width - j * 2^CodeBits})
         /\ (j + 1) * 2^CodeBits \in Nat
         /\ j + 1 < CodedWidth => (j + 1) * 2^CodeBits = j * 2^CodeBits + Few(j) /\ j * 2^CodeBits + Few(j) < Width
         /\ j + 1 = CodedWidth => j * 2^CodeBits + Few(j) = Width
  <1>1. PICK d : d = 2^CodeBits
    OBVIOUS
  <1>2. CodeBits \in 0..3 /\ Width \in Nat \ {0} /\ CodedWidth \in Nat \ {0}
    BY JobFacts
  <1>3. d \in {1, 2, 4, 8}
    BY <1>1, <1>2, WordParts
  <1>4. CodedWidth = (Width + d - 1) \div d
    BY <1>1 DEF CodedWidth, SubSampleSize
  <1>5. CodedWidth * d <= Width + d - 1 /\ Width + d - 1 < CodedWidth * d + d
    <2>1. Width + d - 1 \in Nat /\ d \in Nat /\ d >= 1
      BY <1>2, <1>3
    <2> QED
      BY <1>4, <2>1, Division
  <1>6. PICK p, q, r : p = j * d /\ q = (j + 1) * d /\ r = CodedWidth * d
    OBVIOUS
  <1>7. p \in Nat /\ q = p + d /\ r \in Nat
    BY <1>2, <1>3, <1>6
  <1>8. q <= r
    <2>1. j + 1 \in Nat /\ j + 1 <= CodedWidth /\ d \in Nat
      BY <1>2, <1>3
    <2> QED
      BY <1>2, <1>6, <2>1, Grows
  <1>9. p < Width
    BY <1>2, <1>3, <1>5, <1>6, <1>7, <1>8
  <1>10. Few(j) = Min({d, Width - p}) /\ Min({d, Width - p}) = IF d <= Width - p THEN d ELSE Width - p
    <2>1. Few(j) = Min({d, Width - p})
      BY <1>1, <1>6, Zenon DEF Few
    <2>2. d \in Int /\ Width - p \in Int
      BY <1>2, <1>3, <1>7
    <2> QED
      BY <2>1, <2>2, MinTwo
  <1>11. Few(j) \in 1..d /\ p + Few(j) <= Width
    BY <1>2, <1>3, <1>7, <1>9, <1>10
  <1>12. ASSUME j + 1 < CodedWidth PROVE q = p + Few(j) /\ q < Width
    <2>1. j + 1 \in Nat /\ j + 2 \in Nat /\ j + 2 <= CodedWidth /\ d \in Nat
      BY <1>2, <1>3, <1>12
    <2>2. (j + 2) * d <= r
      BY <1>2, <1>6, <2>1, Grows
    <2>3. (j + 2) * d = p + d + d
      BY <1>2, <1>3, <1>6
    <2> QED
      BY <1>2, <1>3, <1>5, <1>6, <1>7, <1>9, <1>10, <2>2, <2>3
  <1>13. ASSUME j + 1 = CodedWidth PROVE p + Few(j) = Width
    <2>1. q = r
      BY <1>6, <1>13
    <2> QED
      BY <1>2, <1>3, <1>5, <1>6, <1>7, <1>9, <1>10, <2>1
  <1>14. d \in 1..8 /\ Few(j) = Min({2^CodeBits, Width - j * 2^CodeBits}) /\ j * 2^CodeBits = p /\ (j + 1) * 2^CodeBits = q
    BY <1>1, <1>3, <1>6 DEF Few
  <1> QED
    BY <1>1, <1>7, <1>9, <1>11, <1>12, <1>13, <1>14

LEMMA InPicture ==
  ASSUME IsPicture(job), NEW r \in 0..Height - 1, NEW x \in 0..Width - 1
  PROVE  r * Width + x \in 0..Size - 1 /\ (r * Width + x) \div Width = r /\ (r * Width + x) % Width = x
  <1>1. Width \in Nat \ {0} /\ Height \in Nat \ {0} /\ Size = Width * Height /\ Size \in Nat
    BY JobFacts DEF Size
  <1>2. Width \in Nat /\ r \in Nat /\ Height \in Nat /\ r < Height
    BY <1>1
  <1>3. /\ r * Width + x \in Nat /\ (r * Width + x) \div Width = r /\ (r * Width + x) % Width = x
        /\ \A rows \in Nat : r < rows => r * Width + x < rows * Width /\ r * Width + x < Width * rows
    BY <1>2, Cell
  <1>4. r * Width + x < Size
    BY <1>1, <1>2, <1>3
  <1>5. PICK i : i = r * Width + x
    OBVIOUS
  <1>6. i \in 0..Size - 1
    BY <1>1, <1>3, <1>4, <1>5
  <1> QED
    BY <1>3, <1>5, <1>6

Readable(a, r, j) ==
  \A k \in 0..Few(j) - 1 :
     /\ IndexIn(Word(a, r, j), k, BitsPerPixel(CodeBits)) \in DOMAIN Palette
     /\ Palette[IndexIn(Word(a, r, j), k, BitsPerPixel(CodeBits))] = a[r * Width + j * 2^CodeBits + k]

LEMMA WordBack ==
  ASSUME IsPicture(job), UsePalette, NEW a, \A i \in 0..Size - 1 : a[i] \in Colors,
         NEW r \in 0..Height - 1, NEW j \in 0..CodedWidth - 1
  PROVE  Word(a, r, j) \in Pixel /\ Readable(a, r, j)
  <1>1. PICK n, bits, d, w : /\ n = Few(j) /\ bits = BitsPerPixel(CodeBits) /\ d = 2^bits
                             /\ w = [k \in 0..n |-> 2^(k * bits)]
    OBVIOUS
  <1>2. PICK places : places = j * 2^CodeBits
    OBVIOUS
  <1>3. /\ n \in Nat \ {0} /\ places \in Nat /\ places + n <= Width /\ n <= 2^CodeBits
        /\ CodeBits \in 0..3 /\ Width \in Nat
    <2>1. /\ j * 2^CodeBits \in Nat /\ 2^CodeBits \in 1..8
          /\ Few(j) \in 1..2^CodeBits /\ j * 2^CodeBits + Few(j) <= Width
      BY FewFacts, Zenon
    <2>2. PICK e : e = 2^CodeBits
      OBVIOUS
    <2>3. e \in 1..8 /\ n \in 1..e /\ places \in Nat /\ places + n <= Width
      BY <1>1, <1>2, <2>1, <2>2, Zenon
    <2>4. n \in Nat \ {0} /\ n <= e
      BY <2>3
    <2>5. CodeBits \in 0..3 /\ Width \in Nat
      BY JobFacts
    <2> QED
      BY <2>2, <2>3, <2>4, <2>5
  <1>4. Weights(n, bits, d, w)
    <2>1. PICK e : e = 2^CodeBits
      OBVIOUS
    <2>2. e \in {1, 2, 4, 8} /\ bits \in {1, 2, 4, 8} /\ e * bits = 8
      BY <1>1, <1>3, <2>1, WordParts
    <2>3. n * bits <= e * bits
      <3>1. n \in Nat /\ e \in Nat /\ bits \in Nat /\ n <= e
        BY <1>3, <2>1, <2>2
      <3> QED
        BY <3>1, Grows
    <2>4. n * bits <= 8
      BY <2>2, <2>3
    <2> QED
      BY <1>1, <1>3, <2>2, <2>4, Zenon DEF Weights
  <1>5. PICK indices : indices = [k \in 0..n - 1 |-> Lookup(Palette, a[r * Width + places + k])]
    OBVIOUS
  <1>6. ASSUME NEW k \in 0..n - 1
        PROVE  /\ indices[k] \in 0..Cardinality(Colors) - 1
               /\ Palette[indices[k]] = a[r * Width + places + k]
    <2>1. places + k \in 0..Width - 1
      BY <1>3
    <2>2. r * Width + (places + k) \in 0..Size - 1
      BY <2>1, InPicture
    <2>3. r * Width + (places + k) = r * Width + places + k
      <3>1. r * Width \in Int
        <4>1. r \in Int /\ Width \in Int
          BY <1>3
        <4> QED
          BY <4>1
      <3> QED
        BY <1>3, <3>1
    <2>4. a[r * Width + places + k] \in Colors
      BY <2>2, <2>3
    <2>5. indices[k] = Lookup(Palette, a[r * Width + places + k])
      BY <1>5
    <2> QED
      BY <2>4, <2>5, PaletteFacts
  <1>7. Numbers(indices, n, d)
    <2>1. Cardinality(Colors) \in Nat /\ Cardinality(Colors) <= d
      BY <1>1, PaletteFacts
    <2>2. d \in Nat
      <3>1. bits \in 0..9
        <4>1. bits \in {1, 2, 4, 8}
          BY <1>4, Zenon DEF Weights
        <4> QED
          BY <4>1
      <3>2. 2^bits \in 1..512
        BY <3>1, Powers
      <3>3. d = 2^bits
        BY <1>1, Zenon
      <3> QED
        BY <3>2, <3>3
    <2>3. \A v \in 0..Cardinality(Colors) - 1 : v \in 0..d - 1
      BY <2>1, <2>2
    <2>4. DOMAIN indices = 0..n - 1
      BY <1>5
    <2> QED
      BY <1>6, <2>3, <2>4, Zenon DEF Numbers
  <1>8. Word(a, r, j) = PackedWord(indices, bits)
    BY <1>1, <1>2, <1>5, Zenon DEF Word
  <1>9. PackedWord(indices, bits) \in Pixel /\ \A k \in 0..n - 1 : IndexIn(PackedWord(indices, bits), k, bits) = indices[k]
    BY <1>4, <1>7, Unpacked
  <1>10. ASSUME NEW k \in 0..n - 1
         PROVE  /\ IndexIn(Word(a, r, j), k, bits) \in DOMAIN Palette
                /\ Palette[IndexIn(Word(a, r, j), k, bits)] = a[r * Width + places + k]
    <2>1. IndexIn(Word(a, r, j), k, bits) = indices[k]
      BY <1>8, <1>9, Zenon
    <2>2. DOMAIN Palette = 0..Cardinality(Colors) - 1
      BY PaletteFacts
    <2> QED
      BY <1>6, <2>1, <2>2, Zenon
  <1> QED
    BY <1>1, <1>2, <1>8, <1>9, <1>10, Zenon DEF Readable

-----------------------------------------------------------------------------
(* The pictures between the transforms *)

\* The pictures the decoder reads back exactly: one kind of palette is not
\* expanded in place, and a palette has no numbers for rounded colours.
Good == ~PaletteAndSpatial /\ (IsNearLossless => ~UsePalette)

\* Near-lossless passes: a pixel is as it was, or inside the picture and
\* rounded once.
Inside(i) == i \div Width \in 1..Height - 2 /\ i % Width \in 1..Width - 2
Rounded(p, i, finest) ==
  \/ p = job.argb[i]
  \/ Inside(i) /\ \E b \in finest..LimitBits : p = ClosestDiscretizedArgb(job.argb[i], b)
Fades ==
  stage = "near" =>
      /\ near \in 1..LimitBits /\ y \in 0..Height
      /\ Cap(mem[argb]) >= Size /\ \A i \in 0..Size - 1 : mem[argb][i] = job.argb[i]
      /\ near < LimitBits \/ y > 0 => Cap(mem[Free]) >= Size
      /\ \A i \in 0..Size - 1 :
            /\ i < y * Width => Rounded(mem[Free][i], i, near)
            /\ near < LimitBits /\ i >= y * Width => Rounded(mem[Free][i], i, near + 1)
      /\ y \in 1..Height - 2 =>
            scratch[2] = Row(mem[IF near = LimitBits THEN argb ELSE Free], Width, y)

\* The pixels of a picture after so many transforms.
Spread(k) == IF k = 0 THEN Size ELSE CodedWidth * Height
Tile(t, i) == ((i \div t.xsize) \div 2^t.bits) * SubSampleSize(t.xsize, t.bits) + (i % t.xsize) \div 2^t.bits
Guess(t, a, i) ==
  IF i = 0 THEN ARGBBlack
  ELSE IF i < t.xsize THEN a[i - 1]
  ELSE IF i % t.xsize = 0 THEN a[i - t.xsize]
  ELSE Predicted(t.data[Tile(t, i)][3], a[i - 1], a[i - t.xsize], a[i - t.xsize + 1], a[i - t.xsize - 1],
                 SelectPredictor(a[i - 1], a[i - t.xsize], a[i - t.xsize - 1]))

\* What a word of palette numbers says.
Number(b, r, j, k) == IndexIn(b[r * CodedWidth + j], k, BitsPerPixel(CodeBits))

\* The transform makes the one picture of the other.
Back(t, a, b) ==
  /\ t.type = "SubtractGreen" => \A i \in 0..Size - 1 : AddGreen(b[i]) = a[i]
  /\ t.type = "Predictor" => \A i \in 0..Size - 1 : AddPixels(b[i], Guess(t, a, i)) = a[i]
  /\ t.type = "CrossColor" => \A i \in 0..Size - 1 : ColorInversePixel(t.data[Tile(t, i)], b[i]) = a[i]
  /\ t.type = "ColorIndexing" =>
        \A r \in 0..Height - 1, j \in 0..CodedWidth - 1 : \A k \in 0..Few(j) - 1 :
            /\ Number(b, r, j, k) \in DOMAIN Palette
            /\ Palette[Number(b, r, j, k)] = a[r * Width + j * 2^CodeBits + k]

\* The picture the encoder transforms, and what each transform has made of it.
Original(s) == IF IsNearLossless THEN \A i \in 0..Size - 1 : Rounded(s[i], i, 1) ELSE s = job.argb
Chain(p) ==
  /\ Original(p[0])
  /\ \A k \in 0..Len(transforms) : p[k] \in [0..Spread(k) - 1 -> Pixel]
  /\ \A k \in 1..Len(transforms) : Back(transforms[k], p[k - 1], p[k])

Holds(a, n, s) == Cap(a) >= n /\ \A i \in 0..n - 1 : a[i] = s[i]

\* The picture so far is in the array of pixels, but for the tiles that are
\* rewritten and the rows whose residuals may have taken their place.
Applying == [type |-> "Predictor", bits |-> TransformBits, xsize |-> currentWidth, ysize |-> Height, data |-> data]
Encoding(s) ==
  /\ stage = "transform" => Holds(mem[argb], Count, s)
  /\ stage = "tiles" =>
        /\ Cap(mem[argb]) >= Count
        /\ \A i \in 0..Count - 1 :
              IF Head(todo) = "CrossColor" /\ visits[TileOf(i)] # 0
              THEN mem[argb][i] \in Pixel /\ ColorInversePixel(data[TileOf(i)], mem[argb][i]) = s[i]
              ELSE mem[argb][i] = s[i]
  /\ stage = "residuals" =>
        /\ y \in 0..Height
        /\ Cap(mem[argb]) >= Count /\ Cap(mem[residuals]) >= Count
        /\ \A i \in 0..Count - 1 :
              IF i < y * currentWidth
              THEN mem[residuals][i] \in Pixel /\ AddPixels(mem[residuals][i], Guess(Applying, s, i)) = s[i]
              ELSE mem[argb][i] = s[i]
        /\ y > 0 => \A x \in 0..currentWidth :
              x < currentWidth \/ y < Height => scratch[2][x] = s[(y - 1) * currentWidth + x]

Said(t) == IF t.type = "ColorIndexing"
           THEN [type |-> t.type, numColors |-> Cap(t.data), data |-> DeltaPalette(t.data)]
           ELSE [type |-> t.type, bits |-> t.bits, data |-> t.data]
ReadBack(r, t) ==
  /\ r.type = t.type /\ r.bits = t.bits /\ r.xsize = Width
  /\ IF t.type = "ColorIndexing" THEN \A i \in DOMAIN Palette : r.data[i] = Palette[i] ELSE r.data = t.data
Reading(s) ==
  /\ stage \in {"header", "inverse"} =>
        /\ Len(stream.transforms) = Len(transforms)
        /\ \A k \in 1..Len(transforms) : stream.transforms[k] = Said(transforms[k])
        /\ \A i \in 0..Count - 1 : stream.pixels[i] = s[i]
        /\ IsSequence(read) /\ Len(read) <= Len(transforms)
        /\ \A k \in 1..Len(read) : ReadBack(read[k], transforms[k])
        /\ xsize = IF Len(read) = 0 THEN Width ELSE CodedWidth
  /\ stage = "inverse" => Len(read) = Len(transforms)

PixelWorkers == IF Shares(Size) THEN MaxProcs ELSE 1
Covered(i, workers) == \E w \in shared : i \div Width \in RowRange(w, workers, Height)
Restored(i) ==
  CASE undone.type = "Predictor" -> i < y * Width
    [] undone.type = "CrossColor" -> Covered(i, RowWorkers(Height, Shares(Size)))
    [] undone.type = "ColorIndexing" -> i < dstOff
    [] OTHER -> FALSE
\* A place of the words, and of the pixels they are for.
InWords(word, pixel) ==
  \E r \in 0..Height - 1, j \in 0..CodedWidth - 1 :
      word = r * CodedWidth + j /\ pixel = r * Width + j * 2^CodeBits
Undoing(p) ==
  stage = "inverse" =>
      /\ next \in 0..Len(transforms)
      /\ Cap(transformBuf) >= Size
      /\ ~inPlace => next = Len(transforms) /\ Holds(pixels, Spread(next), p[next])
      /\ y \in 0..Height - 1
      /\ next > 0 =>
            /\ \A i \in 0..Size - 1 : Restored(i) => transformBuf[i] = p[next - 1][i]
            /\ inPlace => \A i \in 0..Size - 1 : ~Restored(i) => transformBuf[i] = p[next][i]
            /\ inPlace => Spread(next) = Size
            /\ InWords(srcOff, dstOff)
            /\ shared \subseteq 0..RowWorkers(Height, Shares(Size)) - 1
      /\ next = 0 =>
            /\ inPlace => Holds(transformBuf, Size, p[0])
            /\ shared \subseteq 0..PixelWorkers - 1
            /\ \A i \in 0..Size - 1 : Covered(i, PixelWorkers) => i \in DOMAIN image /\ image[i] = p[0][i]
Shown(s) == stage = "shown" => image = s

\* Some pictures explain what the arrays of encoder and decoder hold.
Explains(p) ==
  /\ Chain(p) /\ Encoding(p[Len(transforms)]) /\ Reading(p[Len(transforms)])
  /\ Undoing(p) /\ Shown(p[0])
Kept == stage \notin {"idle", "near"} /\ Good => \E p : Explains(p)

LEMMA SameBack ==
  ASSUME job' = job
  PROVE  /\ (Good' <=> Good) /\ (\A k : Spread(k)' = Spread(k)) /\ (\A j : Few(j)' = Few(j))
         /\ (\A s : Original(s)' <=> Original(s)) /\ (\A t, a, b : Back(t, a, b)' <=> Back(t, a, b))
  <1>1. /\ Width' = Width /\ Height' = Height /\ Size' = Size /\ (UsePalette' <=> UsePalette)
        /\ Palette' = Palette /\ CodeBits' = CodeBits /\ CodedWidth' = CodedWidth
        /\ (IsNearLossless' <=> IsNearLossless) /\ LimitBits' = LimitBits /\ (UsePredict' <=> UsePredict)
    BY SameJob
  <1>2. Good' <=> Good
    BY <1>1 DEF Good, PaletteAndSpatial, Colors
  <1>3. \A k : Spread(k)' = Spread(k)
    BY <1>1 DEF Spread
  <1>4. \A j : Few(j)' = Few(j)
    BY <1>1 DEF Few
  <1>5. \A s : Original(s)' <=> Original(s)
    BY <1>1 DEF Original, Rounded, Inside
  <1>6. \A b, r, j, k : Number(b, r, j, k)' = Number(b, r, j, k)
    BY <1>1 DEF Number
  <1>7. \A t, a, b : Back(t, a, b)' <=> Back(t, a, b)
    <2> TAKE t, a, b
    <2>1. (\A i \in 0..Size - 1 : AddGreen(b[i]) = a[i])' <=> \A i \in 0..Size - 1 : AddGreen(b[i]) = a[i]
      BY <1>1
    <2>2. (\A i \in 0..Size - 1 : AddPixels(b[i], Guess(t, a, i)) = a[i])'
            <=> \A i \in 0..Size - 1 : AddPixels(b[i], Guess(t, a, i)) = a[i]
      BY <1>1
    <2>3. (\A i \in 0..Size - 1 : ColorInversePixel(t.data[Tile(t, i)], b[i]) = a[i])'
            <=> \A i \in 0..Size - 1 : ColorInversePixel(t.data[Tile(t, i)], b[i]) = a[i]
      BY <1>1
    <2>4. (\A r \in 0..Height - 1, j \in 0..CodedWidth - 1 : \A k \in 0..Few(j) - 1 :
             /\ Number(b, r, j, k) \in DOMAIN Palette
             /\ Palette[Number(b, r, j, k)] = a[r * Width + j * 2^CodeBits + k])'
          <=> \A r \in 0..Height - 1, j \in 0..CodedWidth - 1 : \A k \in 0..Few(j) - 1 :
             /\ Number(b, r, j, k) \in DOMAIN Palette
             /\ Palette[Number(b, r, j, k)] = a[r * Width + j * 2^CodeBits + k]
      BY <1>1, <1>4, <1>6
    <2> QED
      BY <2>1, <2>2, <2>3, <2>4, Zenon DEF Back
  <1> QED
    BY <1>2, <1>3, <1>4, <1>5, <1>7

\* How wide the pictures are.
LEMMA Levels ==
  ASSUME Line, stage # "idle", IsPicture(job), Good
  PROVE  /\ Len(transforms) \in 0..3 /\ Size = Width * Height
         /\ Count = Spread(Len(transforms))
         /\ (CodedWidth = Width => \A k : Spread(k) = Size)
         /\ \A k \in 1..Len(transforms) :
               /\ transforms[k].type \in Types /\ Sound(transforms[k])
               /\ transforms[k].type = "ColorIndexing" <=> UsePalette /\ k = 1
               /\ transforms[k].type # "ColorIndexing" => CodedWidth = Width
         /\ (Len(transforms) >= 2 => CodedWidth = Width)
         /\ (UsePalette /\ Len(transforms) >= 2 => CodeBits = 0)
         /\ (Len(todo) > 0 /\ Head(todo) # "ColorIndexing" => CodedWidth = Width /\ currentWidth = Width)
  <1>1. IsSequence(transforms) /\ IsSequence(todo) /\ Listed
    BY DEF Line
  <1>2. PICK n : n = Len(transforms)
    OBVIOUS
  <1>3. n \in Nat /\ Len(todo) \in Nat /\ n + Len(todo) = Len(Chosen) /\ Len(Chosen) \in 0..3
    BY <1>1, <1>2, ChosenFacts DEF IsSequence, Listed
  <1>4. n \in 0..3
    <2>1. \A u, v \in Nat : u + v \in 0..3 => u \in 0..3
      OBVIOUS
    <2> QED
      BY <1>3, <2>1
  <1>5. Size = Width * Height
    BY DEF Size
  <1>6. CodedWidth = Width => \A k : Spread(k) = Size
    BY <1>5 DEF Spread
  <1>7. Count = Spread(n)
    BY <1>1, <1>2, <1>5 DEF Count, Spread, Listed
  <1>8. CodeBits \in 0..3 /\ (~UsePalette \/ CodeBits = 0 => CodedWidth = Width)
    BY JobFacts
  <1>9. Len(Chosen) >= 2 => CodedWidth = Width /\ (UsePalette => CodeBits = 0)
    <2>1. CASE ~UsePalette
      BY <1>8, <2>1
    <2>2. CASE UsePalette /\ Len(Chosen) >= 2
      <3>1. UsePredict
        BY <1>3, <2>2, ChosenFacts
      <3>2. ~(CodeBits > 0)
        BY <2>2, <3>1 DEF Good, PaletteAndSpatial, CodeBits
      <3> QED
        BY <1>8, <3>2
    <2> QED
      BY <2>1, <2>2
  <1>10. ASSUME NEW k \in 1..n
         PROVE  /\ transforms[k].type \in Types /\ Sound(transforms[k])
                /\ transforms[k].type = "ColorIndexing" <=> UsePalette /\ k = 1
                /\ transforms[k].type # "ColorIndexing" => CodedWidth = Width
    <2>1. transforms[k].type = Chosen[k] /\ Sound(transforms[k])
      BY <1>1, <1>2 DEF Listed
    <2>2. k \in 1..Len(Chosen)
      BY <1>3
    <2>3. Chosen[k] \in Types /\ (Chosen[k] = "ColorIndexing" <=> UsePalette /\ k = 1)
      BY <2>2, ChosenFacts
    <2>4. UsePalette /\ k # 1 => Len(Chosen) >= 2
      BY <1>3, <2>2
    <2> QED
      BY <1>8, <1>9, <2>1, <2>3, <2>4
  <1>11. n >= 2 => Len(Chosen) >= 2
    BY <1>3
  <1>12. ASSUME Len(todo) > 0, Head(todo) # "ColorIndexing"
         PROVE  CodedWidth = Width /\ currentWidth = Width
    <2>1. Head(todo) = Chosen[n + 1] /\ n + 1 \in 1..Len(Chosen) /\ currentWidth = CodedWidth
      BY <1>2, <1>12, WidthNow
    <2>2. Chosen[n + 1] = "ColorIndexing" <=> UsePalette /\ n + 1 = 1
      BY <2>1, ChosenFacts
    <2>3. UsePalette => Len(Chosen) >= 2
      BY <1>3, <1>12, <2>1, <2>2
    <2> QED
      BY <1>8, <1>9, <2>1, <2>3
  <1> QED
    BY <1>2, <1>4, <1>5, <1>6, <1>7, <1>9, <1>10, <1>11, <1>12

LEMMA ChainSame ==
  ASSUME NEW p, Chain(p), job' = job, transforms' = transforms
  PROVE  Chain(p)'
  <1>1. Original(p[0])' /\ \A k \in 0..Len(transforms') : p[k] \in [0..Spread(k)' - 1 -> Pixel]
    BY SameBack DEF Chain
  <1>2. ASSUME NEW k \in 1..Len(transforms') PROVE Back(transforms[k], p[k - 1], p[k])'
    <2>1. Back(transforms[k], p[k - 1], p[k])
      BY DEF Chain
    <2>2. PICK t : t = transforms[k] /\ t = transforms'[k]
      OBVIOUS
    <2>3. Back(t, p[k - 1], p[k])'
      BY <2>1, <2>2, SameBack
    <2> QED
      BY <2>2, <2>3 DEF Back
  <1> QED
    BY <1>1, <1>2 DEF Chain

\* A transform was applied: one more picture.
LEMMA Extended ==
  ASSUME Line, Good, IsPicture(job), stage # "idle", job' = job, NEW p, Chain(p),
         NEW t, transforms' = Append(transforms, t), stage' = "transform",
         NEW new \in [0..Spread(Len(transforms) + 1) - 1 -> Pixel], Back(t, p[Len(transforms)], new),
         Holds(mem'[argb'], Count', new)
  PROVE  Kept'
  <1>1. PICK n : n = Len(transforms)
    OBVIOUS
  <1>2. /\ n \in Nat /\ Len(transforms') = n + 1
        /\ (\A k \in 1..n : transforms'[k] = transforms[k]) /\ transforms'[n + 1] = t
    BY <1>1, Appended DEF Line
  <1>3. PICK q : q = [k \in 0..n + 1 |-> IF k = n + 1 THEN new ELSE p[k]]
    OBVIOUS
  <1>4. q[n + 1] = new /\ \A k \in 0..n : q[k] = p[k]
    BY <1>2, <1>3
  <1>5. Original(q[0])'
    <2>1. Original(p[0]) /\ q[0] = p[0]
      BY <1>2, <1>4 DEF Chain
    <2> QED
      BY <2>1, SameBack
  <1>6. ASSUME NEW k \in 0..n + 1 PROVE q[k] \in [0..Spread(k)' - 1 -> Pixel]
    <2>1. Spread(k)' = Spread(k)
      BY SameBack
    <2>2. CASE k = n + 1
      BY <1>1, <1>4, <2>1, <2>2
    <2>3. CASE k \in 0..n
      BY <1>1, <1>4, <2>1, <2>3 DEF Chain
    <2> QED
      BY <1>2, <2>2, <2>3
  <1>7. ASSUME NEW k \in 1..n + 1 PROVE Back(transforms[k], q[k - 1], q[k])'
    <2>1. PICK u : u = transforms'[k]
      OBVIOUS
    <2>2. Back(u, q[k - 1], q[k])
      <3>1. CASE k = n + 1
        <4>1. k - 1 = n /\ n \in 0..n
          BY <1>2, <3>1
        <4>2. q[k - 1] = p[n] /\ q[k] = new /\ u = t
          BY <1>2, <1>4, <2>1, <3>1, <4>1
        <4> QED
          BY <1>1, <4>2
      <3>2. CASE k \in 1..n
        <4>1. k - 1 \in 0..n /\ k \in 0..n
          BY <1>2, <3>2
        <4>2. q[k - 1] = p[k - 1] /\ q[k] = p[k] /\ u = transforms[k]
          BY <1>2, <1>4, <2>1, <3>2, <4>1
        <4> QED
          BY <1>1, <3>2, <4>2 DEF Chain
      <3> QED
        BY <1>2, <3>1, <3>2
    <2>3. Back(u, q[k - 1], q[k])'
      BY <2>2, SameBack
    <2> QED
      BY <2>1, <2>3 DEF Back
  <1>8. Chain(q)'
    BY <1>2, <1>5, <1>6, <1>7 DEF Chain
  <1>9. Encoding(q[Len(transforms)])'
    BY <1>2, <1>4 DEF Encoding, Holds
  <1>10. Reading(q[Len(transforms)])' /\ Undoing(q)' /\ Shown(q[0])'
    BY DEF Reading, Undoing, Shown
  <1> QED
    BY <1>8, <1>9, <1>10 DEF Kept, Explains

-----------------------------------------------------------------------------
(* The steps of the encoder *)

LEMMA SubtractGreen_Kept ==
  ASSUME Basic, Kept, SubtractGreen
  PROVE  Kept'
  <1>1. TypeInv /\ Line /\ stage = "transform" /\ IsPicture(job) /\ Head(todo) = "SubtractGreen" /\ Len(todo) > 0
    <2>1. TypeInv /\ Line /\ stage = "transform" /\ IsPicture(job) /\ todo # <<>> /\ Head(todo) = "SubtractGreen"
      BY DEF Basic, SubtractGreen, Transform, TypeInv
    <2> QED
      BY <2>1 DEF Line, IsSequence
  <1>2. /\ job' = job /\ argb' = argb /\ currentWidth' = currentWidth /\ Applied("SubtractGreen", 0, None)
        /\ mem' = [mem EXCEPT ![argb] = [i \in DOMAIN @ |-> IF i < Count THEN SubtractGreenPixel(@[i]) ELSE @[i]]]
    BY DEF SubtractGreen
  <1>3. SUFFICES ASSUME Good, NEW p, Explains(p) PROVE Kept'
    BY <1>1, <1>2, SameBack DEF Kept
  <1>4. PICK n : n = Len(transforms)
    OBVIOUS
  <1>5. /\ n \in 0..3 /\ Count = Spread(n) /\ CodedWidth = Width /\ Spread(n) = Size /\ Spread(n + 1) = Size
    BY <1>1, <1>3, <1>4, Levels
  <1>6. /\ p[n] \in [0..Size - 1 -> Pixel] /\ Cap(mem[argb]) >= Size
        /\ \A i \in 0..Size - 1 : mem[argb][i] = p[n][i]
    <2>1. n \in 0..n
      BY <1>5
    <2> QED
      BY <1>1, <1>3, <1>4, <1>5, <2>1 DEF Explains, Chain, Encoding, Holds
  <1>7. PICK t : t = [type |-> "SubtractGreen", bits |-> 0, xsize |-> currentWidth', ysize |-> Height, data |-> None]
    OBVIOUS
  <1>8. PICK new : new = [i \in 0..Size - 1 |-> SubtractGreenPixel(p[n][i])]
    OBVIOUS
  <1>9. \A i \in 0..Size - 1 : new[i] = SubtractGreenPixel(p[n][i]) /\ new[i] \in Pixel /\ AddGreen(new[i]) = p[n][i]
    BY <1>6, <1>8, GreenBack
  <1>10. new \in [0..Size - 1 -> Pixel]
    BY <1>8, <1>9
  <1>11. Back(t, p[n], new)
    <2>1. t.type = "SubtractGreen"
      BY <1>7
    <2> QED
      BY <1>9, <2>1 DEF Back
  <1>12. Holds(mem'[argb'], Count', new)
    <2> DEFINE a == [i \in DOMAIN mem[argb] |-> IF i < Count THEN SubtractGreenPixel(mem[argb][i]) ELSE mem[argb][i]]
    <2>1. mem' = [mem EXCEPT ![argb] = a]
      BY <1>2
    <2>2. argb \in 1..3 /\ IsArray(mem[argb]) /\ DOMAIN a = DOMAIN mem[argb]
      BY <1>1 DEF TypeInv
    <2>3. ASSUME NEW i \in 0..Size - 1 PROVE a[i] = new[i]
      <3>1. i \in DOMAIN mem[argb] /\ i < Count
        BY <1>5, <1>6, <2>2, JobFacts, <1>1 DEF IsArray
      <3> QED
        BY <1>6, <1>9, <3>1
    <2> HIDE DEF a
    <2>4. mem'[argb'] = a /\ Cap(a) = Cap(mem[argb])
      BY <1>1, <1>2, <2>1, <2>2, SameDomain, MemPut
    <2>5. Count' = Size
      BY <1>1, <1>2, <1>5, SameTiles
    <2> QED
      BY <1>6, <2>3, <2>4, <2>5 DEF Holds
  <1>13. transforms' = Append(transforms, t) /\ stage' = "transform" /\ Chain(p)
    BY <1>2, <1>3, <1>7 DEF Applied, Explains
  <1>14. new \in [0..Spread(n + 1) - 1 -> Pixel]
    BY <1>5, <1>10
  <1> QED
    BY <1>1, <1>2, <1>3, <1>4, <1>11, <1>12, <1>13, <1>14, Extended

LEMMA ApplyPalette_Kept ==
  ASSUME Basic, Kept, ApplyPalette
  PROVE  Kept'
  <1>1. TypeInv /\ Line /\ stage = "transform" /\ IsPicture(job) /\ Head(todo) = "ColorIndexing" /\ Len(todo) > 0
    <2>1. TypeInv /\ Line /\ stage = "transform" /\ IsPicture(job) /\ todo # <<>> /\ Head(todo) = "ColorIndexing"
      BY DEF Basic, ApplyPalette, Transform, TypeInv
    <2> QED
      BY <2>1 DEF Line, IsSequence
  <1>2. /\ job' = job /\ argb' = Free /\ currentWidth' = SubSampleSize(Width, CodeBits)
        /\ Applied("ColorIndexing", CodeBits, Palette) /\ mem' = [mem EXCEPT ![Free] = Packed(CodeBits)]
    BY DEF ApplyPalette, CodeBits
  <1>3. SUFFICES ASSUME Good, NEW p, Explains(p) PROVE Kept'
    BY <1>1, <1>2, SameBack DEF Kept
  <1>4. UsePalette /\ Len(transforms) = 0 /\ ~IsNearLossless
    BY <1>1, <1>3, WidthNow DEF Good
  <1>5. p[0] = job.argb
    BY <1>3, <1>4 DEF Explains, Chain, Original
  <1>6. /\ CodedWidth \in Nat \ {0} /\ Height \in Nat \ {0} /\ CodedWidth = SubSampleSize(Width, CodeBits)
        /\ Size \in Nat /\ CodedWidth * Height = Height * CodedWidth /\ CodedWidth * Height \in Nat
        /\ Spread(0) = Size /\ Spread(1) = CodedWidth * Height
    <2>1. \A u, v \in Nat : u * v = v * u /\ u * v \in Nat
      OBVIOUS
    <2>2. CodedWidth \in Nat \ {0} /\ Height \in Nat \ {0} /\ Size \in Nat
      BY <1>1, JobFacts
    <2> QED
      BY <1>4, <2>1, <2>2 DEF CodedWidth, Spread
  <1>7. PICK a : a = mem[argb]
    OBVIOUS
  <1>8. \A i \in 0..Size - 1 : a[i] = p[0][i] /\ a[i] \in Colors
    <2>1. Count = Spread(0)
      BY <1>1, <1>3, <1>4, Levels
    <2>2. \A i \in 0..Size - 1 : a[i] = p[0][i]
      BY <1>1, <1>3, <1>4, <1>6, <1>7, <2>1 DEF Explains, Encoding, Holds
    <2> QED
      BY <1>1, <1>5, <2>2, ColorsFacts
  <1>9. PICK new : new = Packed(CodeBits)
    OBVIOUS
  <1>10. /\ DOMAIN new = 0..CodedWidth * Height - 1
         /\ \A i \in 0..CodedWidth * Height - 1 : new[i] = Word(a, i \div CodedWidth, i % CodedWidth)
    BY <1>6, <1>7, <1>9, Zenon DEF Packed, Word, Few
  <1>11. new \in [0..Spread(1) - 1 -> Pixel]
    <2>1. ASSUME NEW i \in 0..CodedWidth * Height - 1 PROVE new[i] \in Pixel
      <3>1. i \div CodedWidth \in 0..Height - 1 /\ i % CodedWidth \in 0..CodedWidth - 1
        <4>1. i \in 0..Height * CodedWidth - 1
          BY <1>6
        <4> QED
          BY <1>6, <4>1, InCell
      <3>2. Word(a, i \div CodedWidth, i % CodedWidth) \in Pixel
        BY <1>1, <1>4, <1>8, <3>1, WordBack
      <3> QED
        BY <1>10, <3>2, Zenon
    <2>2. new = [i \in 0..CodedWidth * Height - 1 |-> new[i]]
      <3>1. new = [i \in DOMAIN new |-> new[i]]
        BY <1>9 DEF Packed
      <3> QED
        BY <1>10, <3>1, Zenon
    <2> QED
      BY <1>6, <2>1, <2>2
  <1>12. PICK t : t = [type |-> "ColorIndexing", bits |-> CodeBits, xsize |-> currentWidth', ysize |-> Height, data |-> Palette]
    OBVIOUS
  <1>13. Back(t, p[0], new)
    <2>1. t.type = "ColorIndexing"
      BY <1>12
    <2>2. ASSUME NEW r \in 0..Height - 1, NEW j \in 0..CodedWidth - 1, NEW k \in 0..Few(j) - 1
          PROVE  /\ Number(new, r, j, k) \in DOMAIN Palette
                 /\ Palette[Number(new, r, j, k)] = p[0][r * Width + j * 2^CodeBits + k]
      <3>1. new[r * CodedWidth + j] = Word(a, r, j)
        <4>1. /\ r * CodedWidth + j \in Nat /\ r * CodedWidth + j < CodedWidth * Height
              /\ (r * CodedWidth + j) \div CodedWidth = r /\ (r * CodedWidth + j) % CodedWidth = j
          <5>1. r \in Nat /\ CodedWidth \in Nat /\ Height \in Nat /\ r < Height
            BY <1>6
          <5> QED
            BY <5>1, Cell
        <4>2. r * CodedWidth + j \in 0..CodedWidth * Height - 1
          BY <1>6, <4>1
        <4> QED
          BY <1>10, <4>1, <4>2
      <3>2. /\ IndexIn(Word(a, r, j), k, BitsPerPixel(CodeBits)) \in DOMAIN Palette
            /\ Palette[IndexIn(Word(a, r, j), k, BitsPerPixel(CodeBits))] = a[r * Width + j * 2^CodeBits + k]
        <4>1. Readable(a, r, j)
          BY <1>1, <1>4, <1>8, WordBack
        <4> QED
          BY <4>1, Zenon DEF Readable
      <3>3. a[r * Width + j * 2^CodeBits + k] = p[0][r * Width + j * 2^CodeBits + k]
        <4>1. PICK e : e = j * 2^CodeBits
          OBVIOUS
        <4>2. e \in Nat /\ e + Few(j) <= Width /\ Few(j) \in Nat
          <5>1. /\ j * 2^CodeBits \in Nat /\ 2^CodeBits \in 1..8
                /\ Few(j) \in 1..2^CodeBits /\ j * 2^CodeBits + Few(j) <= Width
            BY <1>1, <1>4, FewFacts, Zenon
          <5>2. PICK d : d = 2^CodeBits
            OBVIOUS
          <5>3. d \in 1..8 /\ Few(j) \in 1..d /\ e \in Nat /\ e + Few(j) <= Width
            BY <4>1, <5>1, <5>2, Zenon
          <5> QED
            BY <5>3
        <4>3. Width \in Nat /\ e + k \in 0..Width - 1
          <5>1. Width \in Nat
            BY <1>1, JobFacts
          <5>2. PICK m : m = Few(j)
            OBVIOUS
          <5>3. m \in Nat /\ e + m <= Width /\ e \in Nat /\ k \in 0..m - 1
            BY <4>2, <5>2
          <5> QED
            BY <5>1, <5>3
        <4>4. r * Width + (e + k) \in 0..Size - 1
          BY <1>1, <4>3, InPicture
        <4>5. r * Width + (e + k) = r * Width + e + k
          <5>1. r * Width \in Int
            <6>1. r \in Int /\ Width \in Int
              BY <4>3
            <6> QED
              BY <6>1
          <5> QED
            BY <4>2, <5>1
        <4>6. a[r * Width + e + k] = p[0][r * Width + e + k]
          BY <1>8, <4>4, <4>5
        <4> QED
          BY <4>1, <4>6, Zenon
      <3> QED
        BY <3>1, <3>2, <3>3, Zenon DEF Number
    <2>3. t.type # "SubtractGreen" /\ t.type # "Predictor" /\ t.type # "CrossColor"
      BY <2>1
    <2> QED
      BY <2>2, <2>3, Zenon DEF Back
  <1>14. Holds(mem'[argb'], Count', new)
    <2>1. IsArray(new) /\ Cap(new) = CodedWidth * Height
      BY <1>6, <1>10, ArrayOf
    <2>2. mem'[argb'] = new
      BY <1>1, <1>2, <1>9, <2>1, FreeOther, MemPut
    <2>3. Count' = CodedWidth * Height
      BY <1>2, <1>6, SameJob DEF Count
    <2> QED
      BY <1>6, <2>1, <2>2, <2>3 DEF Holds
  <1>15. transforms' = Append(transforms, t) /\ stage' = "transform" /\ Chain(p)
    BY <1>2, <1>3, <1>12 DEF Applied, Explains
  <1>16. 0 + 1 = 1 /\ new \in [0..Spread(Len(transforms) + 1) - 1 -> Pixel] /\ Back(t, p[Len(transforms)], new)
    BY <1>4, <1>11, <1>13
  <1> QED
    BY <1>1, <1>2, <1>3, <1>14, <1>15, <1>16, Extended

LEMMA StartTiles_Kept ==
  ASSUME Basic, Kept, StartTiles
  PROVE  Kept'
  <1>1. TypeInv /\ Line /\ stage = "transform" /\ IsPicture(job)
    BY DEF Basic, StartTiles, Transform, TypeInv
  <1>2. /\ job' = job /\ argb' = argb /\ mem' = mem /\ stage' = "tiles" /\ todo' = todo
        /\ currentWidth' = currentWidth /\ transforms' = transforms
        /\ visits' = [t \in 0..NumTiles - 1 |-> 0]
    BY DEF StartTiles, encoder
  <1>3. SUFFICES ASSUME Good, NEW p, Explains(p) PROVE Kept'
    BY <1>1, <1>2, SameBack DEF Kept
  <1>4. PICK s : s = p[Len(transforms)]
    OBVIOUS
  <1>5. Chain(p)'
    BY <1>2, <1>3, ChainSame DEF Explains
  <1>6. Count' = Count /\ \A i : TileOf(i)' = TileOf(i)
    BY <1>2, SameTiles
  <1>7. Cap(mem'[argb']) >= Count' /\ \A i \in 0..Count' - 1 : mem'[argb'][i] = s[i]
    BY <1>1, <1>2, <1>3, <1>4, <1>6 DEF Explains, Encoding, Holds
  <1>8. \A i \in 0..Count' - 1 : visits'[TileOf(i)'] = 0
    <2> TAKE i \in 0..Count' - 1
    <2>1. TileOf(i) \in 0..NumTiles - 1
      BY <1>1, <1>6, TileInRange
    <2> QED
      BY <1>2, <1>6, <2>1
  <1>9. Encoding(p[Len(transforms)])'
    BY <1>2, <1>4, <1>7, <1>8 DEF Encoding
  <1>10. Reading(p[Len(transforms)])' /\ Undoing(p)' /\ Shown(p[0])'
    BY <1>2 DEF Reading, Undoing, Shown
  <1> QED
    BY <1>5, <1>9, <1>10 DEF Kept, Explains

LEMMA PickMode_Kept ==
  ASSUME Basic, Kept, NEW w \in Procs, PickMode(w)
  PROVE  Kept'
  <1>1. stage = "tiles" /\ Head(todo) = "Predictor"
    BY DEF PickMode, Handling
  <1>2. /\ job' = job /\ argb' = argb /\ mem' = mem /\ stage' = stage /\ todo' = todo
        /\ currentWidth' = currentWidth /\ transforms' = transforms
    BY DEF PickMode, NextTile
  <1>3. SUFFICES ASSUME Good, NEW p, Explains(p) PROVE Kept'
    BY <1>1, <1>2, SameBack DEF Kept
  <1>4. Chain(p)'
    BY <1>2, <1>3, ChainSame DEF Explains
  <1>5. Count' = Count
    BY <1>2, SameTiles
  <1>6. Cap(mem[argb]) >= Count /\ \A i \in 0..Count - 1 : mem[argb][i] = p[Len(transforms)][i]
    BY <1>1, <1>3 DEF Explains, Encoding
  <1>7. Encoding(p[Len(transforms)])'
    BY <1>1, <1>2, <1>5, <1>6 DEF Encoding
  <1>8. Reading(p[Len(transforms)])' /\ Undoing(p)' /\ Shown(p[0])'
    BY <1>1, <1>2 DEF Reading, Undoing, Shown
  <1> QED
    BY <1>4, <1>7, <1>8 DEF Kept, Explains

\* The pixels of a tile are rewritten by the worker the tile belongs to, who
\* has not been there before.
LEMMA PickMultipliers_Kept ==
  ASSUME Basic, Kept, NEW w \in Procs, PickMultipliers(w)
  PROVE  Kept'
  <1>1. TypeInv /\ Line /\ Tiling /\ stage = "tiles" /\ Head(todo) = "CrossColor" /\ IsPicture(job) /\ Len(todo) > 0
    BY DEF Basic, PickMultipliers, Handling, TypeInv, Line
  <1>2. PICK t \in DOMAIN data, m \in BestMultipliers :
         /\ NextTile(w, t)
         /\ data' = [data EXCEPT ![t] = PackMultipliers(m)]
         /\ mem' = [mem EXCEPT ![argb] = [i \in DOMAIN @ |->
                       IF i < Count /\ TileOf(i) = t THEN ApplyColorTransformPixel(m, @[i]) ELSE @[i]]]
    BY DEF PickMultipliers
  <1>3. /\ job' = job /\ argb' = argb /\ stage' = stage /\ todo' = todo
        /\ currentWidth' = currentWidth /\ transforms' = transforms
        /\ visits' = [visits EXCEPT ![t] = @ + 1]
    BY <1>2 DEF NextTile
  <1>4. SUFFICES ASSUME Good, NEW p, Explains(p) PROVE Kept'
    BY <1>1, <1>3, SameBack DEF Kept
  <1>5. PICK s : s = p[Len(transforms)]
    OBVIOUS
  <1>6. Count = Size /\ s \in [0..Size - 1 -> Pixel] /\ Size \in Nat
    <2>1. Len(transforms) \in 0..3 /\ Count = Spread(Len(transforms)) /\ Spread(Len(transforms)) = Size
      BY <1>1, <1>4, Levels
    <2>2. Len(transforms) \in 0..Len(transforms)
      BY <2>1
    <2> QED
      BY <1>1, <1>4, <1>5, <2>1, <2>2, JobFacts DEF Explains, Chain
  <1>7. DOMAIN visits = 0..NumTiles - 1 /\ DOMAIN data = 0..NumTiles - 1 /\ visits[t] = 0
    <2>1. DOMAIN visits = 0..NumTiles - 1 /\ DOMAIN data = 0..NumTiles - 1 /\ at[w] \in Nat
      BY <1>1 DEF Tiling
    <2>2. w \in 0..NumWorkers - 1
      BY <1>1, <1>2, TileFacts DEF NextTile, Procs
    <2>3. t = TyStart(w) * TileXSize + at[w] /\ t < TyEnd(w) * TileXSize
      BY <1>2 DEF NextTile
    <2>4. t \in 0..NumTiles - 1 /\ Mine(t, w)
      BY <1>1, <2>1, <2>2, <2>3, NextIsMine
    <2>5. visits[t] = IF t < TyStart(w) * TileXSize + at[w] THEN 1 ELSE 0
      BY <1>1, <2>2, <2>4 DEF Tiling, Mine
    <2>6. t \in Int
      BY <2>4
    <2> QED
      BY <2>1, <2>3, <2>5, <2>6
  <1>8. Cap(mem[argb]) >= Count
        /\ \A i \in 0..Count - 1 :
              IF visits[TileOf(i)] # 0
              THEN mem[argb][i] \in Pixel /\ ColorInversePixel(data[TileOf(i)], mem[argb][i]) = s[i]
              ELSE mem[argb][i] = s[i]
    BY <1>1, <1>4, <1>5 DEF Explains, Encoding
  <1>9. PICK a : a = [i \in DOMAIN mem[argb] |->
                       IF i < Count /\ TileOf(i) = t THEN ApplyColorTransformPixel(m, mem[argb][i]) ELSE mem[argb][i]]
    OBVIOUS
  <1>10. argb \in 1..3 /\ IsArray(mem[argb]) /\ mem'[argb] = a /\ Cap(a) = Cap(mem[argb]) /\ DOMAIN mem[argb] = DOMAIN a
    <2>1. mem' = [mem EXCEPT ![argb] = a]
      BY <1>2, <1>9
    <2>2. argb \in 1..3 /\ IsArray(mem[argb]) /\ DOMAIN a = DOMAIN mem[argb]
      BY <1>1, <1>9 DEF TypeInv
    <2> QED
      BY <1>1, <2>1, <2>2, SameDomain, MemPut
  <1>11. \A i : TileOf(i)' = TileOf(i)
    BY <1>3, SameTiles
  <1>12. Count' = Count
    BY <1>3, SameTiles
  <1>13. ASSUME NEW i \in 0..Count - 1
         PROVE  IF visits'[TileOf(i)] # 0
                THEN a[i] \in Pixel /\ ColorInversePixel(data'[TileOf(i)], a[i]) = s[i]
                ELSE a[i] = s[i]
    <2>1. TileOf(i) \in 0..NumTiles - 1
      BY <1>1, TileInRange
    <2>2. i \in DOMAIN mem[argb]
      BY <1>6, <1>8, <1>10 DEF IsArray
    <2>3. CASE TileOf(i) = t
      <3>1. mem[argb][i] = s[i] /\ s[i] \in Pixel
        BY <1>6, <1>7, <1>8, <2>3
      <3>2. a[i] = ApplyColorTransformPixel(m, s[i])
        BY <1>6, <1>9, <2>2, <2>3, <3>1
      <3>3. IsMultiplier(m)
        BY <1>1 DEF IsPicture, BestMultipliers, IsMultiplier
      <3>4. a[i] \in Pixel /\ ColorInversePixel(PackMultipliers(m), a[i]) = s[i]
        BY <3>1, <3>2, <3>3, ColorsBack
      <3>5. data'[TileOf(i)] = PackMultipliers(m) /\ visits'[TileOf(i)] = 1
        BY <1>2, <1>3, <1>7, <2>1, <2>3
      <3> QED
        BY <3>4, <3>5
    <2>4. CASE TileOf(i) # t
      <3>1. a[i] = mem[argb][i]
        BY <1>9, <2>2, <2>4
      <3>2. data'[TileOf(i)] = data[TileOf(i)] /\ visits'[TileOf(i)] = visits[TileOf(i)]
        BY <1>2, <1>3, <1>7, <2>1, <2>4
      <3> QED
        BY <1>8, <3>1, <3>2
    <2> QED
      BY <2>3, <2>4
  <1>14. Encoding(p[Len(transforms)])'
    BY <1>1, <1>3, <1>5, <1>8, <1>10, <1>11, <1>12, <1>13 DEF Encoding
  <1>15. Chain(p)'
    BY <1>3, <1>4, ChainSame DEF Explains
  <1>16. Reading(p[Len(transforms)])' /\ Undoing(p)' /\ Shown(p[0])'
    BY <1>1, <1>3 DEF Reading, Undoing, Shown
  <1> QED
    BY <1>14, <1>15, <1>16 DEF Kept, Explains

LEMMA EndColors_Kept ==
  ASSUME Basic, Kept, EndColors
  PROVE  Kept'
  <1>1. TypeInv /\ Line /\ Tiling /\ stage = "tiles" /\ IsPicture(job) /\ Len(todo) > 0 /\ Head(todo) = "CrossColor"
    BY DEF Basic, EndColors, Handling, TypeInv, Line
  <1>2. /\ job' = job /\ argb' = argb /\ mem' = mem
        /\ currentWidth' = currentWidth /\ Applied("CrossColor", TransformBits, data)
    BY DEF EndColors
  <1>3. SUFFICES ASSUME Good, NEW p, Explains(p) PROVE Kept'
    BY <1>1, <1>2, SameBack DEF Kept
  <1>4. PICK n : n = Len(transforms)
    OBVIOUS
  <1>5. /\ n \in 0..3 /\ Count = Size /\ Spread(n + 1) = Size /\ Size \in Nat
    BY <1>1, <1>3, <1>4, Levels, JobFacts
  <1>6. \A i \in 0..Count - 1 : visits[TileOf(i)] = 1
    BY <1>1, AllHandled, TileInRange DEF EndColors
  <1>7. Cap(mem[argb]) >= Size
        /\ \A i \in 0..Size - 1 : mem[argb][i] \in Pixel /\ ColorInversePixel(data[TileOf(i)], mem[argb][i]) = p[n][i]
    BY <1>1, <1>3, <1>4, <1>5, <1>6 DEF Explains, Encoding
  <1>8. PICK t : t = [type |-> "CrossColor", bits |-> TransformBits, xsize |-> currentWidth', ysize |-> Height, data |-> data]
    OBVIOUS
  <1>9. PICK new : new = [i \in 0..Size - 1 |-> mem[argb][i]]
    OBVIOUS
  <1>10. new \in [0..Size - 1 -> Pixel] /\ \A i \in 0..Size - 1 : new[i] = mem[argb][i]
    BY <1>7, <1>9
  <1>11. Back(t, p[n], new)
    <2>1. t.type = "CrossColor" /\ t.data = data /\ t.bits = TransformBits /\ t.xsize = currentWidth
      BY <1>2, <1>8
    <2>2. \A i : Tile(t, i) = TileOf(i)
      BY <2>1, Zenon DEF Tile, TileOf, TileXSize
    <2>3. \A i \in 0..Size - 1 : ColorInversePixel(t.data[Tile(t, i)], new[i]) = p[n][i]
      BY <1>7, <1>10, <2>1, <2>2
    <2>4. t.type # "SubtractGreen" /\ t.type # "Predictor" /\ t.type # "ColorIndexing"
      BY <2>1
    <2> QED
      BY <2>3, <2>4, Zenon DEF Back
  <1>12. Holds(mem'[argb'], Count', new)
    <2>1. Count' = Size
      BY <1>1, <1>2, <1>5, SameTiles
    <2> QED
      BY <1>2, <1>7, <1>10, <2>1 DEF Holds
  <1>13. transforms' = Append(transforms, t) /\ stage' = "transform" /\ Chain(p)
    BY <1>2, <1>3, <1>8 DEF Applied, Explains
  <1>14. new \in [0..Spread(n + 1) - 1 -> Pixel]
    BY <1>5, <1>10
  <1> QED
    BY <1>1, <1>2, <1>3, <1>4, <1>11, <1>12, <1>13, <1>14, Extended

LEMMA GuessType ==
  ASSUME IsPicture(job), NEW s \in [0..Size - 1 -> Pixel], NEW t, t.xsize = Width, NEW i \in 0..Size - 1
  PROVE  IsGuess(Guess(t, s, i))
  <1>1. Width \in Nat \ {0} /\ Size \in Nat
    BY JobFacts
  <1>2. \A p \in Pixel : IsGuess(p)
    <2>1. \A v \in Byte : v \in Int
      BY DEF Byte
    <2> QED
      BY <2>1, PixelParts DEF IsGuess, Channels
  <1>3. CASE i = 0
    BY <1>2, <1>3, Constants DEF Guess
  <1>4. CASE i # 0 /\ i < Width
    <2>1. Guess(t, s, i) = s[i - 1]
      BY <1>4 DEF Guess
    <2>2. i - 1 \in 0..Size - 1
      BY <1>1, <1>4
    <2> QED
      BY <1>2, <2>1, <2>2
  <1>5. CASE i # 0 /\ ~(i < Width) /\ i % Width = 0
    <2>1. Guess(t, s, i) = s[i - Width]
      BY <1>5 DEF Guess
    <2>2. i - Width \in 0..Size - 1
      BY <1>1, <1>5
    <2> QED
      BY <1>2, <2>1, <2>2
  <1>6. CASE i # 0 /\ ~(i < Width) /\ i % Width # 0
    <2>1. i # Width
      <3>1. \A v \in Nat \ {0} : v % v = 0
        OBVIOUS
      <3> QED
        BY <1>1, <1>6, <3>1
    <2>2. i - 1 \in 0..Size - 1 /\ i - Width \in 0..Size - 1 /\ i - Width + 1 \in 0..Size - 1 /\ i - Width - 1 \in 0..Size - 1
      BY <1>1, <1>6, <2>1
    <2>3. s[i - 1] \in Pixel /\ s[i - Width] \in Pixel /\ s[i - Width + 1] \in Pixel /\ s[i - Width - 1] \in Pixel
      BY <2>2
    <2>4. SelectPredictor(s[i - 1], s[i - Width], s[i - Width - 1]) \in Pixel
      BY <2>3, SelectedType
    <2>5. Guess(t, s, i) = Predicted(t.data[Tile(t, i)][3], s[i - 1], s[i - Width], s[i - Width + 1], s[i - Width - 1],
                                     SelectPredictor(s[i - 1], s[i - Width], s[i - Width - 1]))
      BY <1>6, Zenon DEF Guess
    <2>6. IsGuess(Predicted(t.data[Tile(t, i)][3], s[i - 1], s[i - Width], s[i - Width + 1], s[i - Width - 1],
                            SelectPredictor(s[i - 1], s[i - Width], s[i - Width - 1])))
      BY <2>3, <2>4, Guesses
    <2> QED
      BY <2>5, <2>6, Zenon
  <1> QED
    BY <1>3, <1>4, <1>5, <1>6

LEMMA InRowPlaces ==
  ASSUME NEW width \in Nat \ {0}, NEW k \in Nat, NEW i \in Nat
  PROVE  /\ InRow(i, width, k) <=> k * width <= i /\ i < k * width + width
         /\ InRow(i, width, k) => i = k * width + (i % width) /\ i % width \in 0..width - 1
         /\ k * width \in Nat /\ (k + 1) * width = k * width + width
  <1>1. PICK q, r : q = i \div width /\ r = i % width
    OBVIOUS
  <1>2. q \in Nat /\ r \in 0..width - 1 /\ i = q * width + r
    <2>1. width \in Nat /\ width >= 1
      OBVIOUS
    <2> QED
      BY <1>1, <2>1, Division
  <1>3. q * width \in Nat /\ k * width \in Nat /\ (k + 1) * width = k * width + width
    BY <1>2
  <1>4. q < k => q * width + width <= k * width
    BY <1>2, Apart
  <1>5. k < q => k * width + width <= q * width
    BY <1>2, Apart
  <1>6. InRow(i, width, k) <=> q = k
    BY <1>1 DEF InRow
  <1> QED
    BY <1>1, <1>2, <1>3, <1>4, <1>5, <1>6

\* The residuals begin in whatever array there is, even in that of the pixels.
LEMMA StartResiduals_Kept ==
  ASSUME Basic, Kept, StartResiduals
  PROVE  Kept'
  <1>1. TypeInv /\ Line /\ stage = "tiles" /\ IsPicture(job) /\ Len(todo) > 0 /\ Head(todo) = "Predictor"
    BY DEF Basic, StartResiduals, Handling, TypeInv, Line
  <1>2. /\ job' = job /\ argb' = argb /\ stage' = "residuals" /\ y' = 0
        /\ residuals' = (IF Cap(mem[residuals]) >= Count THEN residuals ELSE Free)
        /\ mem' = [mem EXCEPT ![residuals'] = Reused(mem[residuals], Count)]
        /\ currentWidth' = currentWidth /\ transforms' = transforms /\ todo' = todo
    BY DEF StartResiduals
  <1>3. SUFFICES ASSUME Good, NEW p, Explains(p) PROVE Kept'
    BY <1>1, <1>2, SameBack DEF Kept
  <1>4. Count \in Nat \ {0} /\ Count' = Count /\ currentWidth \in Nat \ {0} /\ Height \in Nat \ {0} /\ Height' = Height
    BY <1>1, <1>2, TileFacts, SameTiles, JobFacts, SameJob
  <1>5. Cap(mem[argb]) >= Count /\ \A i \in 0..Count - 1 : mem[argb][i] = p[Len(transforms)][i]
    BY <1>1, <1>3 DEF Explains, Encoding
  <1>6. residuals \in 1..3 /\ residuals' \in 1..3 /\ IsArray(mem[residuals])
    BY <1>1, <1>2, FreeOther DEF TypeInv
  <1>7. PICK b : b = Reused(mem[residuals], Count)
    OBVIOUS
  <1>8. IsArray(b) /\ Cap(b) >= Count
    BY <1>4, <1>6, <1>7, ReusedArray
  <1>9. PICK r \in 1..3 : r = residuals'
    BY <1>6
  <1>10. mem' = [mem EXCEPT ![r] = b]
    BY <1>2, <1>7, <1>9
  <1>11. mem'[r] = b /\ \A k \in (1..3) \ {r} : mem'[k] = mem[k]
    BY <1>1, <1>8, <1>10, MemPut
  <1>12. mem'[argb] = mem[argb]
    <2>1. CASE r # argb
      BY <1>1, <1>11, <2>1 DEF TypeInv
    <2>2. CASE r = argb
      <3>1. residuals' = residuals /\ Cap(mem[residuals]) >= Count
        BY <1>1, <1>2, <1>9, <2>2, FreeOther
      <3>2. b = mem[argb]
        BY <1>7, <1>9, <2>2, <3>1 DEF Reused
      <3> QED
        BY <1>11, <2>2, <3>2
    <2> QED
      BY <2>1, <2>2
  <1>13. 0 * currentWidth = 0
    BY <1>4
  <1>14. Encoding(p[Len(transforms)])'
    <2>1. Cap(mem'[argb']) >= Count' /\ Cap(mem'[residuals']) >= Count' /\ y' \in 0..Height' /\ ~(y' > 0)
      BY <1>2, <1>4, <1>5, <1>8, <1>9, <1>11, <1>12
    <2>2. \A i \in 0..Count' - 1 : ~(i < y' * currentWidth') /\ mem'[argb'][i] = p[Len(transforms')][i]
      BY <1>2, <1>4, <1>5, <1>12, <1>13
    <2> QED
      BY <1>2, <2>1, <2>2 DEF Encoding
  <1>15. Chain(p)'
    BY <1>2, <1>3, ChainSame DEF Explains
  <1>16. Reading(p[Len(transforms)])' /\ Undoing(p)' /\ Shown(p[0])'
    BY <1>2 DEF Reading, Undoing, Shown
  <1> QED
    BY <1>14, <1>15, <1>16 DEF Kept, Explains

\* A row of residuals is of the guesses from the picture: the rows looked at
\* are copies, taken before the residuals may have written over them.
LEMMA ResidualRow_Kept ==
  ASSUME Basic, Kept, ResidualRow
  PROVE  Kept'
  <1>1. TypeInv /\ Line /\ stage = "residuals" /\ IsPicture(job) /\ Len(todo) > 0 /\ Head(todo) = "Predictor"
    BY DEF Basic, ResidualRow, TypeInv, Line
  <1> DEFINE upper == RowAbove
             current == CopiedRow(scratch[1])
  <1>2. /\ job' = job /\ argb' = argb /\ residuals' = residuals /\ stage' = stage /\ y < Height /\ y' = y + 1
        /\ currentWidth' = currentWidth /\ transforms' = transforms /\ todo' = todo /\ data' = data
        /\ scratch' = <<upper, current>>
        /\ mem' = [mem EXCEPT ![residuals] = [i \in DOMAIN @ |->
                      IF i < Count /\ InRow(i, currentWidth, y) THEN ResidualPixel(upper, current, i % currentWidth) ELSE @[i]]]
    BY DEF ResidualRow
  <1>3. SUFFICES ASSUME Good, NEW p, Explains(p) PROVE Kept'
    BY <1>1, <1>2, SameBack DEF Kept
  <1>4. PICK s : s = p[Len(transforms)]
    OBVIOUS
  <1>5. PICK cw : cw = currentWidth
    OBVIOUS
  <1>6. Count = Size /\ s \in [0..Size - 1 -> Pixel] /\ Size \in Nat /\ cw = Width /\ cw \in Nat \ {0} /\ Height \in Nat \ {0}
    <2>1. Len(transforms) \in 0..3 /\ Count = Spread(Len(transforms)) /\ Spread(Len(transforms)) = Size /\ cw = Width
      BY <1>1, <1>3, <1>5, Levels
    <2>2. Len(transforms) \in 0..Len(transforms)
      BY <2>1
    <2> QED
      BY <1>1, <1>3, <1>4, <2>1, <2>2, JobFacts DEF Explains, Chain
  <1>7. /\ y \in 0..Height /\ Cap(mem[argb]) >= Count /\ Cap(mem[residuals]) >= Count
        /\ \A i \in 0..Count - 1 :
              IF i < y * cw
              THEN mem[residuals][i] \in Pixel /\ AddPixels(mem[residuals][i], Guess(Applying, s, i)) = s[i]
              ELSE mem[argb][i] = s[i]
        /\ y > 0 => \A x \in 0..cw :
              x < cw \/ y < Height => scratch[2][x] = s[(y - 1) * cw + x]
    BY <1>1, <1>3, <1>4, <1>5 DEF Explains, Encoding
  <1>8. PICK b, n : b = y * cw /\ n = (y + 1) * cw
    OBVIOUS
  <1>9. b \in Nat /\ n = b + cw /\ (y + 1 < Height => n + cw <= Size) /\ n <= Size /\ y \in 0..Height - 1
        /\ (y > 0 => (y - 1) * cw = b - cw /\ b - cw \in Nat) /\ (y = 0 => b = 0)
    <2>1. y \in Nat /\ y + 1 \in Nat /\ y + 1 <= Height
      BY <1>2, <1>6, <1>7
    <2>2. b \in Nat /\ n = b + cw
      BY <1>6, <1>8, <2>1
    <2>3. Size = Height * cw
      <3>1. \A u, v \in Nat : u * v = v * u
        OBVIOUS
      <3> QED
        BY <1>6, <3>1 DEF Size
    <2>4. n <= Size
      BY <1>6, <1>8, <2>1, <2>3, Grows
    <2>5. y + 1 < Height => n + cw <= Size
      BY <1>6, <1>8, <2>1, <2>3, Apart
    <2>6. y > 0 => (y - 1) * cw = b - cw /\ b - cw \in Nat
      <3>1. SUFFICES ASSUME y > 0 PROVE (y - 1) * cw = b - cw /\ b - cw \in Nat
        OBVIOUS
      <3>2. y - 1 \in Nat
        BY <2>1, <3>1
      <3>3. (y - 1) * cw \in Nat /\ ((y - 1) + 1) * cw = (y - 1) * cw + cw /\ (y - 1) + 1 = y
        BY <1>6, <2>1, <3>2
      <3> QED
        BY <1>6, <1>8, <2>2, <3>3
    <2>7. y = 0 => b = 0
      BY <1>6, <1>8
    <2>8. y \in 0..Height - 1
      BY <1>6, <2>1
    <2> QED
      BY <2>2, <2>4, <2>5, <2>6, <2>7, <2>8
  <1>10. \A x \in 0..cw : x < cw \/ y + 1 < Height => current[x] = s[b + x] /\ b + x \in 0..Size - 1
    <2> TAKE x \in 0..cw
    <2>1. HAVE x < cw \/ y + 1 < Height
    <2>2. b + x \in 0..Size - 1 /\ ~(b + x < b)
      BY <1>6, <1>9, <2>1
    <2>3. current[x] = mem[argb][y * cw + x]
      BY <1>5, <2>1 DEF CopiedRow
    <2>4. mem[argb][b + x] = s[b + x]
      BY <1>6, <1>7, <1>8, <2>2
    <2> QED
      BY <1>8, <2>2, <2>3, <2>4
  <1>11. y > 0 => \A x \in 0..cw : upper[x] = s[b - cw + x]
    BY <1>2, <1>7, <1>9 DEF RowAbove
  <1> HIDE DEF upper, current
  <1>12. ASSUME NEW i \in 0..Size - 1, InRow(i, cw, y)
         PROVE  /\ ResidualPixel(upper, current, i % cw) \in Pixel
                /\ AddPixels(ResidualPixel(upper, current, i % cw), Guess(Applying, s, i)) = s[i]
    <2>1. PICK x : x = i % cw
      OBVIOUS
    <2>2. x \in 0..cw - 1 /\ i = b + x
      <3>1. y \in Nat /\ i \in Nat /\ cw \in Nat \ {0}
        BY <1>6, <1>9
      <3>2. i = y * cw + (i % cw) /\ i % cw \in 0..cw - 1
        BY <1>12, <3>1, InRowPlaces
      <3> QED
        BY <1>8, <2>1, <3>2
    <2>3. current[x] = s[i] /\ s[i] \in Pixel /\ (x > 0 => current[x - 1] = s[i - 1])
      <3>1. current[x] = s[b + x]
        <4>1. x \in 0..cw /\ x < cw
          BY <1>6, <2>2
        <4> QED
          BY <1>10, <4>1
      <3>2. x > 0 => x - 1 \in 0..cw /\ x - 1 < cw /\ b + (x - 1) = i - 1
        BY <1>6, <1>9, <2>2
      <3>3. x > 0 => current[x - 1] = s[i - 1]
        BY <1>10, <3>2
      <3> QED
        BY <1>6, <2>2, <3>1, <3>3
    <2>4. Applying.xsize = cw /\ Applying.data = data /\ Applying.bits = TransformBits
      BY <1>5 DEF Applying
    <2> DEFINE guess == IF y = 0 THEN (IF x = 0 THEN ARGBBlack ELSE current[x - 1])
                        ELSE IF x = 0 THEN upper[0]
                        ELSE Predicted(Mode(y * currentWidth + x), current[x - 1], upper[x], upper[x + 1], upper[x - 1],
                                       SelectPred(current[x - 1], upper[x], upper[x - 1]))
    <2>5. guess = Guess(Applying, s, i)
      <3>1. CASE y = 0
        <4>1. i = x
          BY <1>9, <2>2, <3>1
        <4>2. CASE x = 0
          BY <3>1, <4>1, <4>2 DEF Guess
        <4>3. CASE x # 0
          <5>1. x > 0 /\ i < cw /\ i # 0
            BY <1>6, <2>2, <4>1, <4>3
          <5>2. guess = s[i - 1]
            BY <2>3, <3>1, <4>3, <5>1
          <5>3. Guess(Applying, s, i) = s[i - 1]
            BY <2>4, <5>1 DEF Guess
          <5> QED
            BY <5>2, <5>3
        <4> QED
          BY <4>2, <4>3
      <3>2. CASE y # 0
        <4>1. y > 0 /\ i # 0 /\ ~(i < cw)
          BY <1>6, <1>9, <2>2, <3>2
        <4>2. CASE x = 0
          <5>1. 0 \in 0..cw /\ b - cw + 0 = i - cw
            BY <1>6, <1>9, <2>2, <4>2
          <5>2. guess = s[i - cw]
            BY <1>11, <3>2, <4>1, <4>2, <5>1
          <5>3. Guess(Applying, s, i) = s[i - cw]
            BY <2>1, <2>4, <4>1, <4>2 DEF Guess
          <5> QED
            BY <5>2, <5>3
        <4>3. CASE x # 0
          <5>1. /\ x > 0 /\ x \in 0..cw /\ x + 1 \in 0..cw /\ x - 1 \in 0..cw
                /\ b - cw + x = i - cw /\ b - cw + (x + 1) = i - cw + 1 /\ b - cw + (x - 1) = i - cw - 1
            BY <1>6, <1>9, <2>2, <4>1, <4>3
          <5>2. upper[x] = s[i - cw] /\ upper[x + 1] = s[i - cw + 1] /\ upper[x - 1] = s[i - cw - 1]
            <6>1. \A v \in 0..cw : upper[v] = s[b - cw + v]
              BY <1>11, <4>1
            <6>2. upper[x] = s[b - cw + x] /\ upper[x + 1] = s[b - cw + (x + 1)] /\ upper[x - 1] = s[b - cw + (x - 1)]
              BY <5>1, <6>1, Zenon
            <6> QED
              BY <5>1, <6>2, Zenon
          <5>3. current[x - 1] = s[i - 1]
            BY <2>3, <5>1
          <5>4. Mode(y * currentWidth + x) = data[Tile(Applying, i)][3]
            <6>1. y * currentWidth + x = i
              BY <1>5, <1>8, <2>2
            <6>2. Tile(Applying, i) = TileOf(i)
              BY <1>5, <2>4, Zenon DEF Tile, TileOf, TileXSize
            <6> QED
              BY <6>1, <6>2, Zenon DEF Mode
          <5>5. guess = Predicted(data[Tile(Applying, i)][3], s[i - 1], s[i - cw], s[i - cw + 1], s[i - cw - 1],
                                  SelectPredictor(s[i - 1], s[i - cw], s[i - cw - 1]))
            BY <3>2, <4>3, <5>2, <5>3, <5>4, SelectedAlike, Zenon
          <5>6. i % cw # 0
            BY <2>1, <4>3
          <5>7. Guess(Applying, s, i)
                  = Predicted(data[Tile(Applying, i)][3], s[i - 1], s[i - cw], s[i - cw + 1], s[i - cw - 1],
                              SelectPredictor(s[i - 1], s[i - cw], s[i - cw - 1]))
            BY <2>4, <4>1, <5>6, Zenon DEF Guess
          <5> QED
            BY <5>5, <5>7, Zenon
        <4> QED
          BY <4>2, <4>3
      <3> QED
        BY <3>1, <3>2
    <2>6. ResidualPixel(upper, current, x) = SubPixels(current[x], guess)
      BY Zenon DEF ResidualPixel
    <2> HIDE DEF guess
    <2>7. IsGuess(Guess(Applying, s, i))
      BY <1>1, <1>6, <2>4, GuessType
    <2> QED
      BY <2>1, <2>3, <2>5, <2>6, <2>7, Residual
  <1>13. PICK a : a = [i \in DOMAIN mem[residuals] |->
                        IF i < Count /\ InRow(i, currentWidth, y) THEN ResidualPixel(upper, current, i % currentWidth)
                        ELSE mem[residuals][i]]
    OBVIOUS
  <1>14. /\ residuals \in 1..3 /\ argb \in 1..3 /\ IsArray(mem[residuals]) /\ mem'[residuals] = a
         /\ Cap(a) = Cap(mem[residuals]) /\ \A k \in (1..3) \ {residuals} : mem'[k] = mem[k]
    <2>1. mem' = [mem EXCEPT ![residuals] = a]
      BY <1>2, <1>13
    <2>2. residuals \in 1..3 /\ argb \in 1..3 /\ IsArray(mem[residuals]) /\ DOMAIN a = DOMAIN mem[residuals]
      BY <1>1, <1>13 DEF TypeInv
    <2> QED
      BY <1>1, <2>1, <2>2, SameDomain, MemPut
  <1>15. \A i \in 0..Size - 1 : a[i] = IF InRow(i, cw, y) THEN ResidualPixel(upper, current, i % cw) ELSE mem[residuals][i]
    <2>1. \A i \in 0..Size - 1 : i \in DOMAIN mem[residuals] /\ i < Count
      BY <1>6, <1>7, <1>14 DEF IsArray
    <2> QED
      BY <1>5, <1>13, <2>1
  <1>16. \A i \in 0..Size - 1 : InRow(i, cw, y) <=> b <= i /\ i < n
    <2> TAKE i \in 0..Size - 1
    <2>1. y \in Nat /\ i \in Nat /\ cw \in Nat \ {0}
      BY <1>6, <1>9
    <2>2. InRow(i, cw, y) <=> y * cw <= i /\ i < y * cw + cw
      BY <2>1, InRowPlaces
    <2>3. InRow(i, cw, y) <=> b <= i /\ i < b + cw
      BY <1>8, <2>2, Zenon
    <2> QED
      BY <1>9, <2>3
  <1>17. ASSUME NEW i \in 0..Size - 1
         PROVE  IF i < n
                THEN mem'[residuals][i] \in Pixel /\ AddPixels(mem'[residuals][i], Guess(Applying, s, i)) = s[i]
                ELSE mem'[argb][i] = s[i]
    <2>1. CASE InRow(i, cw, y)
      <3>1. i < n /\ mem'[residuals][i] = ResidualPixel(upper, current, i % cw)
        BY <1>14, <1>15, <1>16, <2>1
      <3> QED
        BY <1>12, <2>1, <3>1
    <2>2. CASE i < b
      <3>1. i < n /\ ~InRow(i, cw, y)
        BY <1>6, <1>9, <1>16, <2>2
      <3>2. mem'[residuals][i] = mem[residuals][i]
        BY <1>14, <1>15, <3>1
      <3> QED
        BY <1>6, <1>7, <1>8, <2>2, <3>1, <3>2
    <2>3. CASE ~(i < n)
      <3>1. ~(i < b) /\ ~InRow(i, cw, y)
        BY <1>6, <1>9, <1>16, <2>3
      <3>2. mem[argb][i] = s[i]
        BY <1>6, <1>7, <1>8, <3>1
      <3>3. mem'[argb][i] = mem[argb][i]
        BY <1>14, <1>15, <3>1
      <3> QED
        BY <2>3, <3>2, <3>3
    <2> QED
      BY <1>6, <1>9, <1>16, <2>1, <2>2, <2>3
  <1>18. /\ Cap(mem'[argb]) >= Size /\ Cap(mem'[residuals]) >= Size
    <2>1. mem'[argb] = mem[argb] \/ mem'[argb] = a
      BY <1>14
    <2> QED
      BY <1>6, <1>7, <1>14, <2>1
  <1>19. Count' = Count /\ Applying' = Applying /\ Height' = Height
    <2>1. TransformBits' = TransformBits /\ Height' = Height
      BY <1>2, SameJob
    <2> QED
      BY <1>2, <2>1, SameTiles DEF Applying
  <1>20. Encoding(p[Len(transforms)])'
    <2>1. y' \in 0..Height' /\ y' * currentWidth' = n /\ (y' - 1) * currentWidth' = b
      <3>1. y' - 1 = y
        BY <1>2, <1>6, <1>9
      <3> QED
        BY <1>2, <1>5, <1>6, <1>8, <1>9, <1>19, <3>1
    <2>2. \A i : Guess(Applying, s, i)' = Guess(Applying, s, i)
      BY <1>19 DEF Guess
    <2>3. \A x \in 0..currentWidth' : x < currentWidth' \/ y' < Height' => scratch'[2][x] = s[b + x]
      BY <1>2, <1>5, <1>10, <1>19
    <2>4. /\ Cap(mem'[argb']) >= Count' /\ Cap(mem'[residuals']) >= Count'
          /\ \A i \in 0..Count' - 1 :
              IF i < y' * currentWidth'
              THEN mem'[residuals'][i] \in Pixel /\ AddPixels(mem'[residuals'][i], Guess(Applying, s, i)') = s[i]
              ELSE mem'[argb'][i] = s[i]
      BY <1>2, <1>6, <1>17, <1>18, <1>19, <2>1, <2>2
    <2>5. s = p[Len(transforms')]
      BY <1>2, <1>4
    <2> QED
      BY <1>1, <1>2, <2>1, <2>3, <2>4, <2>5 DEF Encoding
  <1>21. Chain(p)'
    BY <1>2, <1>3, ChainSame DEF Explains
  <1>22. Reading(p[Len(transforms)])' /\ Undoing(p)' /\ Shown(p[0])'
    BY <1>1, <1>2 DEF Reading, Undoing, Shown
  <1> QED
    BY <1>20, <1>21, <1>22 DEF Kept, Explains

LEMMA EndResiduals_Kept ==
  ASSUME Basic, Kept, EndResiduals
  PROVE  Kept'
  <1>1. TypeInv /\ Line /\ stage = "residuals" /\ y = Height /\ IsPicture(job) /\ Len(todo) > 0 /\ Head(todo) = "Predictor"
    BY DEF Basic, EndResiduals, TypeInv, Line
  <1>2. /\ job' = job /\ argb' = residuals /\ mem' = mem
        /\ currentWidth' = currentWidth /\ Applied("Predictor", TransformBits, data)
    BY DEF EndResiduals
  <1>3. SUFFICES ASSUME Good, NEW p, Explains(p) PROVE Kept'
    BY <1>1, <1>2, SameBack DEF Kept
  <1>4. PICK n : n = Len(transforms)
    OBVIOUS
  <1>5. /\ n \in 0..3 /\ Count = Size /\ Spread(n + 1) = Size /\ Size \in Nat /\ currentWidth = Width
    BY <1>1, <1>3, <1>4, Levels, JobFacts
  <1>6. \A i \in 0..Size - 1 : i < y * currentWidth
    <2>1. y * currentWidth = Size
      <3>1. \A u, v \in Nat : u * v = v * u
        OBVIOUS
      <3> QED
        BY <1>1, <1>5, <3>1, JobFacts DEF Size
    <2> QED
      BY <1>5, <2>1
  <1>7. Cap(mem[residuals]) >= Size
        /\ \A i \in 0..Size - 1 : mem[residuals][i] \in Pixel
                                  /\ AddPixels(mem[residuals][i], Guess(Applying, p[n], i)) = p[n][i]
    BY <1>1, <1>3, <1>4, <1>5, <1>6 DEF Explains, Encoding
  <1>8. PICK t : t = [type |-> "Predictor", bits |-> TransformBits, xsize |-> currentWidth', ysize |-> Height, data |-> data]
    OBVIOUS
  <1>9. PICK new : new = [i \in 0..Size - 1 |-> mem[residuals][i]]
    OBVIOUS
  <1>10. new \in [0..Size - 1 -> Pixel] /\ \A i \in 0..Size - 1 : new[i] = mem[residuals][i]
    BY <1>7, <1>9
  <1>11. Back(t, p[n], new)
    <2>1. t.type = "Predictor" /\ t = Applying
      BY <1>2, <1>8 DEF Applying
    <2>2. \A i \in 0..Size - 1 : AddPixels(new[i], Guess(t, p[n], i)) = p[n][i]
      BY <1>7, <1>10, <2>1
    <2>3. t.type # "SubtractGreen" /\ t.type # "CrossColor" /\ t.type # "ColorIndexing"
      BY <2>1
    <2> QED
      BY <2>2, <2>3, Zenon DEF Back
  <1>12. Holds(mem'[argb'], Count', new)
    <2>1. Count' = Size
      BY <1>1, <1>2, <1>5, SameTiles
    <2> QED
      BY <1>2, <1>7, <1>10, <2>1 DEF Holds
  <1>13. transforms' = Append(transforms, t) /\ stage' = "transform" /\ Chain(p)
    BY <1>2, <1>3, <1>8 DEF Applied, Explains
  <1>14. new \in [0..Spread(n + 1) - 1 -> Pixel]
    BY <1>5, <1>10
  <1> QED
    BY <1>1, <1>2, <1>3, <1>4, <1>11, <1>12, <1>13, <1>14, Extended

LEMMA Write_Kept ==
  ASSUME Basic, Kept, Write
  PROVE  Kept'
  <1>1. TypeInv /\ Line /\ stage = "transform" /\ IsPicture(job) /\ IsSequence(transforms)
    BY DEF Basic, Write, TypeInv, Line
  <1>2. /\ job' = job /\ transforms' = transforms /\ stage' = "header" /\ read' = <<>> /\ xsize' = Width
        /\ currentWidth' = currentWidth
        /\ stream' = [width |-> Width, height |-> Height,
                      transforms |-> [k \in DOMAIN transforms |-> Said(transforms[k])],
                      pixels |-> [i \in 0..Count - 1 |-> mem[argb][i]]]
    BY DEF Write, encoder, Said
  <1>3. SUFFICES ASSUME Good, NEW p, Explains(p) PROVE Kept'
    BY <1>1, <1>2, SameBack DEF Kept
  <1>4. PICK n : n = Len(transforms)
    OBVIOUS
  <1>5. n \in Nat /\ DOMAIN transforms = 1..n
    BY <1>1, <1>4 DEF IsSequence
  <1>6. Len(stream'.transforms) = n /\ \A k \in 1..n : stream'.transforms[k] = Said(transforms[k])
    <2> DEFINE said == [k \in 1..n |-> Said(transforms[k])]
    <2>1. stream'.transforms = said
      BY <1>2, <1>5
    <2>2. said \in Seq({said[k] : k \in 1..n})
      BY <1>5
    <2>3. Len(said) = n
      BY <1>5, <2>2
    <2> QED
      BY <2>1, <2>3
  <1>7. \A i \in 0..Count - 1 : stream'.pixels[i] = p[n][i]
    BY <1>1, <1>2, <1>3, <1>4 DEF Explains, Encoding, Holds
  <1>8. /\ Width' = Width /\ (\A t : Said(t)' = Said(t)) /\ Count' = Count
    BY <1>2, SameJob, SameTiles DEF Said
  <1>9. IsSequence(read') /\ Len(read') = 0
    BY <1>2, Empty
  <1>10. Reading(p[Len(transforms)])'
    <2>1. \A k \in 1..Len(transforms') : stream'.transforms[k] = Said(transforms'[k])
      BY <1>2, <1>4, <1>6
    <2>2. \A i \in 0..Count' - 1 : stream'.pixels[i] = p[Len(transforms')][i]
      BY <1>2, <1>4, <1>7, <1>8
    <2>3. Len(stream'.transforms) = Len(transforms') /\ Len(read') <= Len(transforms') /\ xsize' = Width'
      BY <1>2, <1>4, <1>5, <1>6, <1>8, <1>9
    <2> QED
      BY <1>2, <1>8, <1>9, <2>1, <2>2, <2>3 DEF Reading
  <1>11. Chain(p)'
    BY <1>2, <1>3, ChainSame DEF Explains
  <1>12. Encoding(p[Len(transforms)])' /\ Undoing(p)' /\ Shown(p[0])'
    BY <1>2 DEF Encoding, Undoing, Shown
  <1> QED
    BY <1>10, <1>11, <1>12 DEF Kept, Explains

LEMMA SameReading ==
  ASSUME job' = job, NEW r, NEW t
  PROVE  (ReadBack(r, t)' <=> ReadBack(r, t)) /\ Said(t)' = Said(t)
  BY SameJob DEF ReadBack, Said

LEMMA ReadTransform_Kept ==
  ASSUME Basic, Kept, ReadTransform
  PROVE  Kept'
  <1>1. TypeInv /\ Line /\ stage = "header" /\ IsPicture(job)
    BY DEF Basic, ReadTransform, TypeInv
  <1> DEFINE t == stream.transforms[Len(read) + 1]
             indexed == t.type = "ColorIndexing"
             bits == IF indexed THEN PaletteCodeBits(t.numColors) ELSE t.bits
             r == [type |-> t.type, bits |-> bits, xsize |-> xsize,
                   data |-> IF indexed THEN ExpandColorMap(t.data, bits) ELSE t.data]
  <1>2. /\ job' = job /\ transforms' = transforms /\ stage' = "header" /\ stream' = stream
        /\ currentWidth' = currentWidth /\ Len(read) < Len(stream.transforms)
        /\ read' = Append(read, r)
        /\ xsize' = IF indexed THEN SubSampleSize(xsize, bits) ELSE xsize
    BY DEF ReadTransform, encoder
  <1>3. SUFFICES ASSUME Good, NEW p, Explains(p) PROVE Kept'
    BY <1>1, <1>2, SameBack DEF Kept
  <1>4. PICK n, l : n = Len(transforms) /\ l = Len(read)
    OBVIOUS
  <1>5. /\ Len(stream.transforms) = n
        /\ \A k \in 1..n : stream.transforms[k] = Said(transforms[k])
        /\ \A i \in 0..Count - 1 : stream.pixels[i] = p[n][i]
        /\ IsSequence(read) /\ l <= n
        /\ \A k \in 1..l : ReadBack(read[k], transforms[k])
        /\ xsize = IF l = 0 THEN Width ELSE CodedWidth
    BY <1>1, <1>3, <1>4 DEF Explains, Reading
  <1>6. n \in 0..3 /\ l \in Nat /\ l + 1 \in 1..n
    <2>1. n \in 0..3
      BY <1>1, <1>3, <1>4, Levels
    <2> QED
      BY <1>2, <1>4, <1>5, <2>1 DEF IsSequence
  <1>7. PICK u : u = transforms[l + 1]
    OBVIOUS
  <1>8. /\ t = Said(u) /\ u.type \in Types /\ Sound(u)
        /\ u.type = "ColorIndexing" <=> UsePalette /\ l = 0
        /\ u.type # "ColorIndexing" => CodedWidth = Width
    <2>1. t = Said(u)
      BY <1>4, <1>5, <1>6, <1>7
    <2>2. /\ u.type \in Types /\ Sound(u)
          /\ u.type = "ColorIndexing" <=> UsePalette /\ l + 1 = 1
          /\ u.type # "ColorIndexing" => CodedWidth = Width
      BY <1>1, <1>3, <1>4, <1>6, <1>7, Levels
    <2> QED
      BY <1>6, <2>1, <2>2
  <1>9. ReadBack(r, u) /\ xsize' = CodedWidth
    <2>1. CASE u.type = "ColorIndexing"
      <3>1. u.bits = CodeBits /\ u.data = Palette /\ UsePalette /\ l = 0
        BY <1>8, <2>1 DEF Sound
      <3>2. t.type = "ColorIndexing" /\ t.numColors = Cap(Palette) /\ t.data = DeltaPalette(Palette)
        BY <1>8, <2>1, <3>1 DEF Said
      <3>3. PICK c : c = Cardinality(Colors)
        OBVIOUS
      <3>4. /\ c \in Nat \ {0} /\ DOMAIN Palette = 0..c - 1 /\ c <= 2^BitsPerPixel(CodeBits)
            /\ \A i \in 0..c - 1 : Palette[i] \in Pixel
        BY <1>1, <3>1, <3>3, PaletteFacts
      <3>5. Cap(Palette) = c
        <4>1. c \in Nat
          BY <3>4
        <4> QED
          BY <3>4, <4>1, ArrayOf
      <3>6. bits = CodeBits
        BY <3>2, <3>3, <3>5 DEF CodeBits
      <3>7. \A i \in 0..c - 1 : ExpandColorMap(DeltaPalette(Palette), CodeBits)[i] = Palette[i]
        <4>1. PICK most : most = 2^BitsPerPixel(CodeBits)
          OBVIOUS
        <4>2. CodeBits \in 0..3
          BY <1>1, JobFacts
        <4>3. most \in {2, 4, 16, 256}
          BY <4>1, <4>2, WordParts, Zenon
        <4>4. most \in Nat
          BY <4>3
        <4>5. most = 2^(8 \div 2^CodeBits)
          BY <4>1, Zenon DEF BitsPerPixel
        <4>6. c <= most
          BY <3>4, <4>1, Zenon
        <4> QED
          BY <3>4, <4>4, <4>5, <4>6, ColorMap
      <3>8. /\ r.type = "ColorIndexing" /\ r.bits = CodeBits /\ r.xsize = xsize
            /\ r.data = ExpandColorMap(DeltaPalette(Palette), CodeBits)
        BY <3>2, <3>6
      <3>9. xsize = Width /\ xsize' = SubSampleSize(Width, CodeBits)
        BY <1>2, <1>5, <3>1, <3>2, <3>6
      <3> HIDE DEF r
      <3>10. ReadBack(r, u)
        BY <2>1, <3>1, <3>4, <3>7, <3>8, <3>9 DEF ReadBack
      <3> QED
        BY <3>1, <3>9, <3>10 DEF CodedWidth
    <2>2. CASE u.type # "ColorIndexing"
      <3>1. t.type = u.type /\ t.bits = u.bits /\ t.data = u.data /\ CodedWidth = Width
        BY <1>8, <2>2 DEF Said
      <3>2. xsize = Width
        BY <1>5, <3>1
      <3>3. r.type = u.type /\ r.bits = u.bits /\ r.data = u.data /\ r.xsize = Width
        BY <2>2, <3>1, <3>2
      <3>4. xsize' = Width
        BY <1>2, <2>2, <3>1, <3>2
      <3> HIDE DEF r
      <3> QED
        BY <2>2, <3>1, <3>3, <3>4 DEF ReadBack
    <2> QED
      BY <2>1, <2>2
  <1> HIDE DEF t, r
  <1>10. /\ IsSequence(read') /\ Len(read') = l + 1 /\ read'[l + 1] = r /\ \A k \in 1..l : read'[k] = read[k]
    BY <1>2, <1>4, <1>5, Appended
  <1>11. \A k \in 1..l + 1 : ReadBack(read'[k], transforms[k])
    <2> TAKE k \in 1..l + 1
    <2>1. CASE k = l + 1
      BY <1>7, <1>9, <1>10, <2>1
    <2>2. CASE k \in 1..l
      BY <1>5, <1>10, <2>2
    <2> QED
      BY <1>6, <2>1, <2>2
  <1>12. Width' = Width /\ CodedWidth' = CodedWidth /\ Count' = Count
    BY <1>2, SameJob, SameTiles
  <1>13. Reading(p[Len(transforms)])'
    <2>1. \A k \in 1..Len(transforms') : stream'.transforms[k] = Said(transforms[k])'
      <3>1. \A k \in 1..Len(transforms') : stream'.transforms[k] = Said(transforms[k])
        BY <1>2, <1>4, <1>5
      <3>2. \A v : Said(v)' = Said(v)
        BY <1>2, SameReading
      <3> QED
        BY <1>2, <3>1, <3>2 DEF Said
    <2>2. \A k \in 1..Len(read') : ReadBack(read[k], transforms[k])'
      <3> TAKE k \in 1..Len(read')
      <3>1. PICK v, w : v = read'[k] /\ w = transforms'[k]
        OBVIOUS
      <3>2. ReadBack(v, w)
        BY <1>2, <1>10, <1>11, <3>1
      <3>3. ReadBack(v, w)'
        BY <1>2, <3>2, SameReading
      <3> QED
        BY <3>1, <3>3 DEF ReadBack
    <2>3. \A i \in 0..Count' - 1 : stream'.pixels[i] = p[Len(transforms')][i]
      BY <1>2, <1>4, <1>5, <1>12
    <2>4. /\ Len(stream'.transforms) = Len(transforms') /\ Len(read') <= Len(transforms')
          /\ Len(read') # 0 /\ xsize' = CodedWidth'
      BY <1>2, <1>4, <1>5, <1>6, <1>9, <1>10, <1>12
    <2> QED
      BY <1>2, <1>10, <2>1, <2>2, <2>3, <2>4 DEF Reading
  <1>14. Chain(p)'
    BY <1>2, <1>3, ChainSame DEF Explains
  <1>15. Encoding(p[Len(transforms)])' /\ Undoing(p)' /\ Shown(p[0])'
    BY <1>2 DEF Encoding, Undoing, Shown
  <1> QED
    BY <1>13, <1>14, <1>15 DEF Kept, Explains

-----------------------------------------------------------------------------
(* The steps of the decoder *)

\* Nothing is restored yet of the picture before a transform.
LEMMA Fresh ==
  ASSUME IsPicture(job), job' = job, y' = 0, srcOff' = 0, dstOff' = 0, shared' = {}
  PROVE  /\ \A i, workers : ~Covered(i, workers)'
         /\ \A i \in Nat : ~Restored(i)'
         /\ InWords(srcOff, dstOff)' /\ y' \in 0..Height' - 1
  <1>1. Width' = Width /\ Height' = Height /\ CodedWidth' = CodedWidth /\ CodeBits' = CodeBits
        /\ Width \in Nat \ {0} /\ Height \in Nat \ {0} /\ CodedWidth \in Nat \ {0} /\ CodeBits \in 0..3
    BY SameJob, JobFacts
  <1>2. \A i, workers : ~Covered(i, workers)'
    BY DEF Covered
  <1>3. \A i \in Nat : ~(i < y' * Width')
    BY <1>1
  <1>4. \A i \in Nat : ~Restored(i)'
    BY <1>2, <1>3 DEF Restored
  <1>5. InWords(srcOff, dstOff)'
    <2>1. PICK d : d = 2^CodeBits'
      OBVIOUS
    <2>2. d \in Nat
      <3>1. CodeBits' \in 0..9
        BY <1>1
      <3>2. 2^CodeBits' \in 1..512
        BY <3>1, Powers
      <3> QED
        BY <2>1, <3>2
    <2>3. 0 \in 0..Height' - 1 /\ 0 \in 0..CodedWidth' - 1
          /\ srcOff' = 0 * CodedWidth' + 0 /\ dstOff' = 0 * Width' + 0 * d
      BY <1>1, <2>2
    <2> QED
      BY <2>1, <2>3 DEF InWords
  <1>6. y' \in 0..Height' - 1
    BY <1>1
  <1> QED
    BY <1>2, <1>4, <1>5, <1>6

LEMMA DecodePixels_Kept ==
  ASSUME Basic, Kept, DecodePixels
  PROVE  Kept'
  <1>1. TypeInv /\ Line /\ stage = "header" /\ Sized /\ IsPicture(job)
    BY DEF Basic, DecodePixels, TypeInv
  <1> DEFINE coded == transformWidth' * stream.height
             numAlloc == Max({stream.width * stream.height, coded})
             needed == numAlloc + stream.width * (1 + CacheRows)
  <1>2. /\ job' = job /\ transforms' = transforms /\ currentWidth' = currentWidth /\ stage' = "inverse"
        /\ stream' = stream /\ xsize' = xsize /\ read' = read /\ Len(read) = Len(stream.transforms)
        /\ pixels' = Overwrite(Reused(pixels, needed), coded, stream.pixels) /\ transformBuf' = Reused(transformBuf, numAlloc)
        /\ transformWidth' = xsize
        /\ next' = Len(read) /\ inPlace' = FALSE /\ y' = 0 /\ srcOff' = 0 /\ dstOff' = 0 /\ shared' = {}
    BY DEF DecodePixels, UpdateDecoder, encoder
  <1>3. SUFFICES ASSUME Good, NEW p, Explains(p) PROVE Kept'
    BY <1>1, <1>2, SameBack DEF Kept
  <1>4. PICK n : n = Len(transforms)
    OBVIOUS
  <1>5. /\ Len(stream.transforms) = n
        /\ \A i \in 0..Count - 1 : stream.pixels[i] = p[n][i]
        /\ Len(read) = n
        /\ xsize = IF n = 0 THEN Width ELSE CodedWidth
    BY <1>1, <1>2, <1>3, <1>4 DEF Explains, Reading
  <1>6. /\ n \in 0..3 /\ Size = Width * Height /\ Count = Spread(n) /\ Size \in Nat /\ Height \in Nat /\ Width \in Nat
        /\ CodedWidth \in Nat
    BY <1>1, <1>3, <1>4, Levels, JobFacts
  <1>7. stream.width = Width /\ stream.height = Height
    BY <1>1 DEF Sized
  <1>8. coded = Count
    BY <1>2, <1>5, <1>6, <1>7 DEF Spread
  <1> HIDE DEF coded
  <1>9. Count \in Nat
    BY <1>5, <1>6 DEF Spread
  <1>10. numAlloc \in Nat /\ numAlloc >= Size /\ numAlloc >= Count
    <2>1. numAlloc = IF Size >= Count THEN Size ELSE Count
      BY <1>6, <1>7, <1>8, <1>9, MaxTwo
    <2> HIDE DEF numAlloc
    <2> QED
      BY <1>6, <1>9, <2>1
  <1> HIDE DEF numAlloc
  <1>11. needed \in Nat /\ needed >= Count
    <2>1. PICK more : more = Width * (1 + CacheRows)
      OBVIOUS
    <2>2. CacheRows \in Nat
      BY TransformsAssumption
    <2>3. more \in Nat
      BY <1>6, <2>1, <2>2
    <2>4. needed = numAlloc + more
      BY <1>7, <2>1
    <2> HIDE DEF needed
    <2> QED
      BY <1>9, <1>10, <2>3, <2>4
  <1> HIDE DEF needed
  <1>12. Holds(pixels', Count, p[n])
    <2>1. IsArray(pixels)
      BY <1>1 DEF TypeInv
    <2>2. IsArray(Reused(pixels, needed)) /\ Cap(Reused(pixels, needed)) >= Count
      BY <1>9, <1>11, <2>1, ReusedArray
    <2>3. /\ Cap(Overwrite(Reused(pixels, needed), coded, stream.pixels)) = Cap(Reused(pixels, needed))
          /\ \A i \in 0..Count - 1 : Overwrite(Reused(pixels, needed), coded, stream.pixels)[i] = stream.pixels[i]
      BY <1>8, <1>9, <2>2, OverwrittenArray
    <2> QED
      BY <1>2, <1>5, <2>2, <2>3 DEF Holds
  <1>13. Cap(transformBuf') >= Size
    <2>1. IsArray(transformBuf)
      BY <1>1 DEF TypeInv
    <2>2. Cap(Reused(transformBuf, numAlloc)) >= numAlloc /\ Cap(Reused(transformBuf, numAlloc)) \in Nat
      BY <1>10, <2>1, ReusedArray
    <2> QED
      BY <1>2, <1>6, <1>10, <2>2
  <1>14. /\ Size' = Size /\ Spread(n)' = Spread(n)
    BY <1>2, SameJob, SameBack
  <1>15. /\ \A i, workers : ~Covered(i, workers)'
         /\ \A i \in 0..Size - 1 : ~Restored(i)'
         /\ InWords(srcOff, dstOff)' /\ y' \in 0..Height' - 1
    BY <1>1, <1>2, <1>6, Fresh
  <1>16. Undoing(p)'
    <2>1. /\ next' \in 0..Len(transforms') /\ Cap(transformBuf') >= Size'
          /\ ~inPlace' /\ next' = Len(transforms') /\ Holds(pixels', Spread(next)', p[next'])
      BY <1>2, <1>4, <1>5, <1>6, <1>12, <1>13, <1>14 DEF Spread
    <2>2. \A i \in 0..Size' - 1 : ~Restored(i)'
      BY <1>14, <1>15
    <2> QED
      BY <1>2, <1>15, <2>1, <2>2 DEF Undoing, Holds
  <1>17. Reading(p[Len(transforms)])'
    <2>1. Count' = Count /\ Width' = Width /\ CodedWidth' = CodedWidth
      BY <1>2, SameJob, SameTiles
    <2>2. \A k \in 1..Len(transforms') : stream'.transforms[k] = Said(transforms[k])'
      <3>1. \A k \in 1..Len(transforms') : stream'.transforms[k] = Said(transforms[k])
        BY <1>1, <1>2, <1>3 DEF Explains, Reading
      <3> QED
        BY <1>2, <3>1 DEF Said
    <2>3. \A k \in 1..Len(read') : ReadBack(read[k], transforms[k])'
      <3> TAKE k \in 1..Len(read')
      <3>1. PICK v, w : v = read'[k] /\ w = transforms'[k]
        OBVIOUS
      <3>2. ReadBack(v, w)
        BY <1>1, <1>2, <1>3, <3>1 DEF Explains, Reading
      <3>3. ReadBack(v, w)'
        BY <1>2, <3>2, SameReading
      <3> QED
        BY <3>1, <3>3 DEF ReadBack
    <2>4. IsSequence(read')
      BY <1>1, <1>2, <1>3 DEF Explains, Reading
    <2> QED
      BY <1>2, <1>4, <1>5, <1>6, <2>1, <2>2, <2>3, <2>4 DEF Reading
  <1>18. Chain(p)'
    BY <1>2, <1>3, ChainSame DEF Explains
  <1>19. Encoding(p[Len(transforms)])' /\ Shown(p[0])'
    BY <1>2 DEF Encoding, Shown
  <1> QED
    BY <1>16, <1>17, <1>18, <1>19 DEF Kept, Explains

\* Undoing leaves what was read.
LEMMA StillReading ==
  ASSUME stage = "inverse", stage' \in {"inverse", "shown"}, job' = job, transforms' = transforms, currentWidth' = currentWidth,
         stream' = stream, read' = read, xsize' = xsize, NEW p, Explains(p), Undoing(p)', Shown(p[0])'
  PROVE  Kept'
  <1>1. Reading(p[Len(transforms)])'
    <2>1. Count' = Count /\ Width' = Width /\ CodedWidth' = CodedWidth
      BY SameJob, SameTiles
    <2>2. \A k \in 1..Len(transforms') : stream'.transforms[k] = Said(transforms[k])'
      <3>1. \A k \in 1..Len(transforms') : stream'.transforms[k] = Said(transforms[k])
        BY DEF Explains, Reading
      <3> QED
        BY <3>1 DEF Said
    <2>3. \A k \in 1..Len(read') : ReadBack(read[k], transforms[k])'
      <3> TAKE k \in 1..Len(read')
      <3>1. PICK v, w : v = read'[k] /\ w = transforms'[k]
        OBVIOUS
      <3>2. ReadBack(v, w)
        BY <3>1 DEF Explains, Reading
      <3>3. ReadBack(v, w)'
        BY <3>2, SameReading
      <3> QED
        BY <3>1, <3>3 DEF ReadBack
    <2> QED
      BY <2>1, <2>2, <2>3 DEF Reading, Explains
  <1>2. Chain(p)'
    BY ChainSame DEF Explains
  <1>3. Encoding(p[Len(transforms)])'
    BY DEF Encoding
  <1> QED
    BY <1>1, <1>2, <1>3 DEF Kept, Explains

\* What is known of the transform to undo, and of the picture it is undone from.
LEMMA ToUndo ==
  ASSUME Basic, Good, stage = "inverse", next > 0, NEW p, Explains(p)
  PROVE  /\ next \in 1..3 /\ next <= Len(transforms) /\ p[next] \in [0..Spread(next) - 1 -> Pixel]
         /\ Size \in Nat /\ p[next - 1] \in [0..Spread(next - 1) - 1 -> Pixel]
         /\ IsArray(transformBuf) /\ Cap(transformBuf) >= Size
         /\ ReadBack(undone, transforms[next]) /\ Sound(transforms[next])
         /\ NumPixels = Size /\ stream.height = Height /\ undone.xsize = Width
         /\ Back(transforms[next], p[next - 1], p[next])
         /\ (inPlace => Spread(next) = Size)
         /\ (undone.type = "ColorIndexing" => UsePalette /\ next = 1)
         /\ (undone.type # "ColorIndexing" => CodedWidth = Width /\ (\A k : Spread(k) = Size) /\ transforms[next].xsize = Width)
         /\ \A i \in 0..Spread(next) - 1 : (inPlace => ~Restored(i)) => src[i] = p[next][i]
  <1>1. TypeInv /\ Line /\ Sized /\ IsPicture(job)
    BY DEF Basic, TypeInv
  <1>2. /\ Undoing(p) /\ Reading(p[Len(transforms)]) /\ Chain(p) /\ Len(read) = Len(transforms)
    BY DEF Explains, Reading
  <1>3. next \in 0..Len(transforms) /\ Len(transforms) \in 0..3
    BY <1>1, <1>2, Levels DEF Undoing
  <1>4. next \in 1..Len(transforms) /\ next \in 1..3 /\ next - 1 \in 0..Len(transforms) /\ next \in 0..Len(transforms)
    <2>1. \A n, k : n \in 0..3 /\ k \in 0..n /\ k > 0 => k \in 1..n /\ k \in 1..3 /\ k - 1 \in 0..n /\ k \in 0..n
      OBVIOUS
    <2> QED
      BY <1>3, <2>1
  <1>5. ReadBack(undone, transforms[next])
    BY <1>2, <1>4 DEF Reading, undone
  <1>6. /\ transforms[next].type \in Types /\ Sound(transforms[next])
        /\ (transforms[next].type = "ColorIndexing" => UsePalette /\ next = 1)
        /\ (transforms[next].type # "ColorIndexing" => CodedWidth = Width)
    BY <1>1, <1>4, Levels
  <1>7. undone.type = transforms[next].type /\ undone.xsize = Width
    BY <1>5 DEF ReadBack
  <1>8. stream.height = Height /\ NumPixels = Size
    BY <1>1, <1>7 DEF Sized, NumPixels, Size
  <1>9. undone.type # "ColorIndexing" => CodedWidth = Width /\ (\A k : Spread(k) = Size) /\ transforms[next].xsize = Width
    BY <1>1, <1>6, <1>7, Levels DEF Sound
  <1>10. p[next] \in [0..Spread(next) - 1 -> Pixel] /\ p[next - 1] \in [0..Spread(next - 1) - 1 -> Pixel]
         /\ Back(transforms[next], p[next - 1], p[next])
    BY <1>2, <1>4 DEF Chain
  <1>11. /\ Cap(transformBuf) >= Size /\ (inPlace => Spread(next) = Size)
         /\ (~inPlace => Holds(pixels, Spread(next), p[next]))
         /\ (inPlace => \A i \in 0..Size - 1 : ~Restored(i) => transformBuf[i] = p[next][i])
    BY <1>2, <1>4 DEF Undoing
  <1>12. \A i \in 0..Spread(next) - 1 : (inPlace => ~Restored(i)) => src[i] = p[next][i]
    BY <1>11 DEF src, Holds
  <1>13. IsArray(transformBuf) /\ Size \in Nat
    BY <1>1, JobFacts DEF TypeInv
  <1> QED
    BY <1>4, <1>5, <1>6, <1>7, <1>8, <1>9, <1>10, <1>11, <1>12, <1>13

\* A transform was undone: one picture back.
LEMMA UndoneKept ==
  ASSUME Basic, Good, stage = "inverse", next > 0, NEW p, Explains(p), decoding' = decoding, Undone,
         DOMAIN transformBuf' = DOMAIN transformBuf, \A i \in 0..Size - 1 : transformBuf'[i] = p[next - 1][i]
  PROVE  Kept'
  <1>1. /\ job' = job /\ stage' = "inverse" /\ transforms' = transforms /\ currentWidth' = currentWidth
        /\ stream' = stream /\ read' = read /\ xsize' = xsize
    BY DEF decoding, encoder
  <1>2. next' = next - 1 /\ inPlace' = TRUE /\ y' = 0 /\ srcOff' = 0 /\ dstOff' = 0 /\ shared' = {}
    BY DEF Undone
  <1>3. IsPicture(job) /\ Line
    BY DEF Basic, TypeInv
  <1>4. /\ next \in 1..3 /\ next <= Len(transforms) /\ Cap(transformBuf) >= Size /\ IsArray(transformBuf) /\ Size \in Nat
    BY ToUndo
  <1>5. /\ \A i, workers : ~Covered(i, workers)'
        /\ \A i \in 0..Size - 1 : ~Restored(i)'
        /\ InWords(srcOff, dstOff)' /\ y' \in 0..Height' - 1
    BY <1>1, <1>2, <1>3, <1>4, Fresh
  <1>6. Cap(transformBuf') = Cap(transformBuf) /\ Size' = Size
    BY <1>1, <1>4, SameDomain, SameJob
  <1>7. next' > 0 => Spread(next)' = Size
    <2>1. Len(transforms) \in 0..3 /\ (Len(transforms) >= 2 => CodedWidth = Width)
          /\ (CodedWidth = Width => \A k : Spread(k) = Size)
      BY <1>3, Levels
    <2>2. next' > 0 => Len(transforms) >= 2
      BY <1>2, <1>4, <2>1
    <2>3. \A k : Spread(k)' = Spread(k)
      BY <1>1, SameBack
    <2>4. next' > 0 => Spread(next') = Size
      BY <2>1, <2>2
    <2> QED
      BY <2>3, <2>4 DEF Spread
  <1>8. Undoing(p)'
    <2>1. next' \in 0..Len(transforms') /\ Len(transforms) \in Nat
      <3>1. Len(transforms) \in 0..3
        BY <1>3, Levels
      <3> QED
        BY <1>1, <1>2, <1>4, <3>1
    <2>2. \A i \in 0..Size' - 1 : ~Restored(i)' /\ transformBuf'[i] = p[next'][i]
      BY <1>2, <1>5, <1>6
    <2>3. next' = 0 => Holds(transformBuf', Size', p[0])
      BY <1>4, <1>6, <2>2 DEF Holds
    <2> QED
      BY <1>2, <1>4, <1>5, <1>6, <1>7, <2>1, <2>2, <2>3 DEF Undoing
  <1>9. Shown(p[0])'
    BY <1>1 DEF Shown
  <1> QED
    BY <1>1, <1>8, <1>9, StillReading

LEMMA AddGreenToBlueAndRed_Kept ==
  ASSUME Basic, Kept, AddGreenToBlueAndRed
  PROVE  Kept'
  <1>1. /\ stage = "inverse" /\ next > 0 /\ undone.type = "SubtractGreen" /\ decoding' = decoding /\ Undone
        /\ transformBuf' = [i \in DOMAIN transformBuf |-> IF i < NumPixels THEN AddGreen(src[i]) ELSE transformBuf[i]]
    BY DEF AddGreenToBlueAndRed, Undo
  <1>2. job' = job /\ stage' = "inverse"
    BY <1>1 DEF decoding
  <1>3. SUFFICES ASSUME Good, NEW p, Explains(p) PROVE Kept'
    BY <1>1, <1>2, SameBack DEF Kept
  <1>4. /\ Size \in Nat /\ IsArray(transformBuf) /\ Cap(transformBuf) >= Size
        /\ ReadBack(undone, transforms[next]) /\ NumPixels = Size /\ Spread(next) = Size
        /\ Back(transforms[next], p[next - 1], p[next])
        /\ \A i \in 0..Spread(next) - 1 : (inPlace => ~Restored(i)) => src[i] = p[next][i]
    BY <1>1, <1>3, ToUndo
  <1>5. \A i \in 0..Size - 1 : AddGreen(p[next][i]) = p[next - 1][i]
    BY <1>1, <1>4 DEF Back, ReadBack
  <1>6. \A i \in 0..Size - 1 : src[i] = p[next][i]
    BY <1>1, <1>4 DEF Restored
  <1>7. ASSUME NEW i \in 0..Size - 1 PROVE transformBuf'[i] = p[next - 1][i]
    <2>1. i \in DOMAIN transformBuf /\ i < NumPixels
      BY <1>4 DEF IsArray
    <2> QED
      BY <1>1, <1>5, <1>6, <2>1
  <1>8. DOMAIN transformBuf' = DOMAIN transformBuf
    BY <1>1
  <1> QED
    BY <1>1, <1>3, <1>7, <1>8, UndoneKept

\* More of the same transform was undone.
LEMMA StillUndoing ==
  ASSUME Basic, Good, stage = "inverse", next > 0, NEW p, Explains(p), decoding' = decoding,
         next' = next, inPlace' = inPlace, DOMAIN transformBuf' = DOMAIN transformBuf,
         y' \in 0..Height - 1, InWords(srcOff, dstOff)', shared' \subseteq 0..RowWorkers(Height, Shares(Size)) - 1,
         \A i \in 0..Size - 1 : Restored(i)' => transformBuf'[i] = p[next - 1][i],
         inPlace => \A i \in 0..Size - 1 : ~Restored(i)' => transformBuf'[i] = p[next][i]
  PROVE  Kept'
  <1>1. /\ job' = job /\ stage' = "inverse" /\ transforms' = transforms /\ currentWidth' = currentWidth
        /\ stream' = stream /\ read' = read /\ xsize' = xsize /\ pixels' = pixels
    BY DEF decoding, encoder
  <1>2. IsArray(transformBuf) /\ Cap(transformBuf) >= Size /\ Size' = Size /\ Height' = Height
    BY <1>1, ToUndo, SameJob
  <1>3. Cap(transformBuf') = Cap(transformBuf)
    BY <1>2, SameDomain
  <1>4. Spread(next)' = Spread(next)
    <2>1. \A k : Spread(k)' = Spread(k)
      BY <1>1, SameBack
    <2> QED
      BY <2>1 DEF Spread
  <1>5. /\ next \in 0..Len(transforms)
        /\ ~inPlace => next = Len(transforms) /\ Holds(pixels, Spread(next), p[next])
        /\ inPlace => Spread(next) = Size
    BY DEF Explains, Undoing
  <1>6. Undoing(p)'
    <2>1. /\ next' \in 0..Len(transforms') /\ Cap(transformBuf') >= Size' /\ y' \in 0..Height' - 1 /\ ~(next' = 0)
          /\ ~inPlace' => next' = Len(transforms') /\ Holds(pixels', Spread(next)', p[next'])
          /\ inPlace' => Spread(next)' = Size'
      BY <1>1, <1>2, <1>3, <1>4, <1>5
    <2>2. RowWorkers(Height', Shares(Size')) = RowWorkers(Height, Shares(Size))
      BY <1>2
    <2> QED
      BY <1>2, <2>1, <2>2 DEF Undoing, Holds
  <1>7. Shown(p[0])'
    BY <1>1 DEF Shown
  <1> QED
    BY <1>1, <1>6, <1>7, StillReading

\* The rows of the pixels, one worker for each.
LEMMA RowOwner ==
  ASSUME IsPicture(job), NEW workers \in Nat \ {0}, NEW i \in 0..Size - 1
  PROVE  \E w \in 0..workers - 1 :
            /\ i \div Width \in RowRange(w, workers, Height)
            /\ \A v \in 0..workers - 1 : i \div Width \in RowRange(v, workers, Height) => v = w
  <1>1. Width \in Nat /\ Height \in Nat /\ workers \in Nat /\ workers >= 1 /\ i \in 0..Height * Width - 1
    <2>1. Width \in Nat /\ Height \in Nat
      BY JobFacts
    <2>2. \A u, v \in Nat : u * v = v * u
      OBVIOUS
    <2> QED
      BY <2>1, <2>2 DEF Size
  <1>2. i \div Width \in 0..Height - 1
    BY <1>1, InCell
  <1> QED
    BY <1>1, <1>2, RoundedDownSharesOnce DEF RowRange

LEMMA WorkersFacts ==
  ASSUME IsPicture(job)
  PROVE  RowWorkers(Height, Shares(Size)) \in Nat \ {0} /\ PixelWorkers \in Nat \ {0}
  <1>1. MaxProcs \in Nat \ {0} /\ Height \in Nat \ {0}
    BY JobFacts, TransformsAssumption
  <1>2. Min({MaxProcs, Height}) \in Nat \ {0}
    BY <1>1, MinTwo
  <1> QED
    BY <1>1, <1>2 DEF RowWorkers, PixelWorkers

LEMMA ColorSpaceInverse_Kept ==
  ASSUME Basic, Kept, NEW w \in Procs, ColorSpaceInverse(w)
  PROVE  Kept'
  <1>1. stage = "inverse" /\ next > 0 /\ undone.type = "CrossColor" /\ decoding' = decoding /\ IsPicture(job)
    BY DEF ColorSpaceInverse, Undo, Basic, TypeInv
  <1>2. job' = job /\ stage' = "inverse" /\ read' = read
    BY <1>1 DEF decoding
  <1>3. SUFFICES ASSUME Good, NEW p, Explains(p) PROVE Kept'
    BY <1>1, <1>2, SameBack DEF Kept
  <1>4. /\ Size \in Nat /\ IsArray(transformBuf) /\ Cap(transformBuf) >= Size
        /\ ReadBack(undone, transforms[next]) /\ Sound(transforms[next])
        /\ NumPixels = Size /\ stream.height = Height /\ undone.xsize = Width /\ Spread(next) = Size
        /\ transforms[next].xsize = Width
        /\ Back(transforms[next], p[next - 1], p[next])
        /\ \A i \in 0..Spread(next) - 1 : (inPlace => ~Restored(i)) => src[i] = p[next][i]
    BY <1>1, <1>3, ToUndo
  <1>5. PICK workers : workers = RowWorkers(Height, Shares(Size))
    OBVIOUS
  <1>6. workers \in Nat \ {0}
    BY <1>1, <1>5, WorkersFacts
  <1> DEFINE code(i) == undone.data[((i \div undone.xsize) \div 2^undone.bits) * SubSampleSize(undone.xsize, undone.bits)
                               + (i % undone.xsize) \div 2^undone.bits]
  <1>7. /\ w < workers /\ w \notin shared
        /\ transformBuf' = [i \in DOMAIN transformBuf |->
                               IF i < NumPixels /\ i \div undone.xsize \in RowRange(w, workers, Height)
                               THEN ColorInversePixel(code(i), src[i]) ELSE transformBuf[i]]
        /\ IF shared \cup {w} = 0..workers - 1 THEN Undone
           ELSE shared' = shared \cup {w} /\ UNCHANGED <<next, inPlace, y, srcOff, dstOff>>
    BY <1>4, <1>5 DEF ColorSpaceInverse
  <1>8. \A i : Restored(i) <=> Covered(i, workers)
    BY <1>1, <1>5 DEF Restored
  <1>9. /\ shared \subseteq 0..workers - 1
        /\ \A i \in 0..Size - 1 : Restored(i) => transformBuf[i] = p[next - 1][i]
        /\ inPlace => \A i \in 0..Size - 1 : ~Restored(i) => transformBuf[i] = p[next][i]
        /\ InWords(srcOff, dstOff) /\ y \in 0..Height - 1
    BY <1>1, <1>3, <1>5 DEF Explains, Undoing
  <1>10. ASSUME NEW i \in 0..Size - 1
         PROVE  /\ i \div Width \in RowRange(w, workers, Height) /\ w \in 0..workers - 1 => transformBuf'[i] = p[next - 1][i]
                /\ ~(i \div Width \in RowRange(w, workers, Height)) => transformBuf'[i] = transformBuf[i]
    <2>1. i \in DOMAIN transformBuf /\ i < NumPixels
      BY <1>4 DEF IsArray
    <2>2. ASSUME i \div Width \in RowRange(w, workers, Height), w \in 0..workers - 1 PROVE transformBuf'[i] = p[next - 1][i]
      <3>1. ~Covered(i, workers)
        BY <1>1, <1>6, <1>7, <1>9, <2>2, RowOwner DEF Covered
      <3>2. src[i] = p[next][i]
        BY <1>4, <1>8, <3>1
      <3>3. PICK t : t = transforms[next]
        OBVIOUS
      <3>4. t.type = "CrossColor" /\ undone.data = t.data /\ undone.bits = t.bits /\ undone.xsize = t.xsize
        BY <1>1, <1>4, <3>3 DEF ReadBack
      <3>5. code(i) = t.data[Tile(t, i)]
        BY <3>4, Zenon DEF Tile
      <3>6. ColorInversePixel(t.data[Tile(t, i)], p[next][i]) = p[next - 1][i]
        BY <1>4, <3>3, <3>4 DEF Back
      <3> HIDE DEF code
      <3>7. transformBuf'[i] = ColorInversePixel(code(i), src[i])
        BY <1>4, <1>7, <2>1, <2>2
      <3> QED
        BY <3>2, <3>5, <3>6, <3>7
    <2>3. ASSUME ~(i \div Width \in RowRange(w, workers, Height)) PROVE transformBuf'[i] = transformBuf[i]
      <3> HIDE DEF code
      <3> QED
        BY <1>4, <1>7, <2>1, <2>3
    <2> QED
      BY <2>2, <2>3
  <1>11. DOMAIN transformBuf' = DOMAIN transformBuf
    <2> HIDE DEF code
    <2> QED
      BY <1>7
  <1> HIDE DEF code
  <1>12. CASE shared \cup {w} = 0..workers - 1
    <2>1. ASSUME NEW i \in 0..Size - 1 PROVE transformBuf'[i] = p[next - 1][i]
      <3>1. PICK v \in 0..workers - 1 : i \div Width \in RowRange(v, workers, Height)
        BY <1>1, <1>6, RowOwner
      <3>2. w \in 0..workers - 1
        BY <1>12
      <3>3. CASE i \div Width \in RowRange(w, workers, Height)
        BY <1>10, <3>2, <3>3
      <3>4. CASE ~(i \div Width \in RowRange(w, workers, Height))
        <4>1. v \in shared
          BY <1>12, <3>1, <3>4
        <4>2. Restored(i)
          BY <1>8, <3>1, <4>1 DEF Covered
        <4> QED
          BY <1>9, <1>10, <3>4, <4>2
      <3> QED
        BY <3>3, <3>4
    <2> QED
      BY <1>1, <1>3, <1>7, <1>11, <1>12, <2>1, UndoneKept
  <1>13. CASE shared \cup {w} # 0..workers - 1 /\ w \in 0..workers - 1
    <2>1. shared' = shared \cup {w} /\ next' = next /\ inPlace' = inPlace /\ y' = y /\ srcOff' = srcOff /\ dstOff' = dstOff
      BY <1>7, <1>13
    <2>2. /\ Width' = Width /\ Height' = Height /\ CodedWidth' = CodedWidth /\ CodeBits' = CodeBits /\ Size' = Size
      BY <1>2, SameJob
    <2>3. \A i : Restored(i)' <=> Covered(i, workers) \/ i \div Width \in RowRange(w, workers, Height)
      <3>1. undone'.type = "CrossColor"
        BY <1>1, <1>2, <2>1 DEF undone
      <3>2. \A i : Restored(i)' <=> \E v \in shared' : i \div Width \in RowRange(v, workers, Height)
        BY <1>5, <2>2, <3>1 DEF Restored, Covered
      <3> QED
        BY <2>1, <3>2 DEF Covered
    <2>4. InWords(srcOff, dstOff)'
      BY <1>9, <2>1, <2>2 DEF InWords
    <2>5. \A i \in 0..Size - 1 : Restored(i)' => transformBuf'[i] = p[next - 1][i]
      BY <1>8, <1>9, <1>10, <1>13, <2>3
    <2>6. inPlace => \A i \in 0..Size - 1 : ~Restored(i)' => transformBuf'[i] = p[next][i]
      BY <1>8, <1>9, <1>10, <1>13, <2>3
    <2>7. shared' \subseteq 0..RowWorkers(Height, Shares(Size)) - 1
      BY <1>5, <1>9, <1>13, <2>1
    <2> QED
      BY <1>1, <1>3, <1>9, <1>11, <2>1, <2>4, <2>5, <2>6, <2>7, StillUndoing
  <1>14. w \in 0..workers - 1
    <2>1. w \in Nat
      BY TransformsAssumption DEF Procs
    <2> QED
      BY <1>6, <1>7, <2>1
  <1> QED
    BY <1>12, <1>13, <1>14

LEMMA ConvertRows_Kept ==
  ASSUME Basic, Kept, NEW w \in Procs, ConvertRows(w)
  PROVE  Kept'
  <1>1. stage = "inverse" /\ next = 0 /\ IsPicture(job) /\ Line /\ Sized
    BY DEF ConvertRows, Basic, TypeInv
  <1>2. /\ job' = job /\ stage' \in {"inverse", "shown"} /\ transforms' = transforms /\ currentWidth' = currentWidth
        /\ stream' = stream /\ read' = read /\ xsize' = xsize /\ pixels' = pixels /\ transformBuf' = transformBuf
        /\ y' = y /\ next' = next /\ inPlace' = inPlace
    BY <1>1 DEF ConvertRows, encoder, encoding, reading
  <1>3. SUFFICES ASSUME Good, NEW p, Explains(p) PROVE Kept'
    BY <1>1, <1>2, SameBack DEF Kept
  <1>4. PICK workers : workers = PixelWorkers
    OBVIOUS
  <1>5. workers \in Nat \ {0} /\ Size \in Nat /\ stream.width * stream.height = Size /\ stream.width = Width
    BY <1>1, <1>4, WorkersFacts, JobFacts DEF Sized, Size
  <1>6. /\ w < workers /\ w \notin shared /\ shared' = shared \cup {w}
        /\ image' = [i \in 0..Size - 1 |-> IF i \div Width \in RowRange(w, workers, Height) THEN src[i]
                                           ELSE IF i \in DOMAIN image THEN image[i] ELSE Zero]
        /\ stage' = IF shared' = 0..workers - 1 THEN "shown" ELSE stage
    BY <1>1, <1>4, <1>5 DEF ConvertRows, Sized, PixelWorkers
  <1>7. w \in 0..workers - 1
    <2>1. w \in Nat
      BY TransformsAssumption DEF Procs
    <2> QED
      BY <1>5, <1>6, <2>1
  <1>8. /\ Cap(transformBuf) >= Size /\ (~inPlace => next = Len(transforms) /\ Holds(pixels, Spread(next), p[next]))
        /\ y \in 0..Height - 1 /\ (inPlace => Holds(transformBuf, Size, p[0]))
        /\ shared \subseteq 0..workers - 1
        /\ \A i \in 0..Size - 1 : Covered(i, workers) => i \in DOMAIN image /\ image[i] = p[0][i]
    BY <1>1, <1>3, <1>4 DEF Explains, Undoing
  <1>9. Spread(0) = Size
    BY DEF Spread
  <1>10. \A i \in 0..Size - 1 : src[i] = p[0][i]
    BY <1>1, <1>8, <1>9 DEF src, Holds
  <1>11. /\ Width' = Width /\ Height' = Height /\ Size' = Size /\ PixelWorkers' = PixelWorkers
    BY <1>2, SameJob DEF PixelWorkers
  <1>12. \A i \in 0..Size - 1 : Covered(i, workers)' => image'[i] = p[0][i]
    <2> TAKE i \in 0..Size - 1
    <2>1. Covered(i, workers)' => Covered(i, workers) \/ i \div Width \in RowRange(w, workers, Height)
      BY <1>6, <1>11 DEF Covered
    <2> QED
      BY <1>6, <1>8, <1>10, <2>1
  <1>13. Undoing(p)'
    <2>1. /\ next' \in 0..Len(transforms') /\ ~(next' > 0) /\ Cap(transformBuf') >= Size' /\ y' \in 0..Height' - 1
          /\ inPlace' => Holds(transformBuf', Size', p[0])
      <3>1. Len(transforms) \in 0..3
        BY <1>1, <1>3, Levels
      <3>2. 0 \in 0..Len(transforms)
        BY <3>1
      <3> QED
        BY <1>1, <1>2, <1>8, <1>11, <3>2
    <2>2. ~inPlace' => next' = Len(transforms') /\ Holds(pixels', Spread(next)', p[next'])
      <3>1. \A k : Spread(k)' = Spread(k)
        BY <1>2, SameBack
      <3>2. Spread(next)' = Spread(next)
        BY <1>2, <3>1 DEF Spread
      <3> QED
        BY <1>2, <1>8, <3>2
    <2>3. shared' \subseteq 0..PixelWorkers' - 1
      BY <1>4, <1>6, <1>7, <1>8, <1>11
    <2>4. \A i \in 0..Size' - 1 : Covered(i, PixelWorkers)' => i \in DOMAIN image' /\ image'[i] = p[0][i]
      <3>1. \A i : Covered(i, PixelWorkers)' <=> Covered(i, workers)'
        BY <1>4, <1>11 DEF Covered
      <3>2. DOMAIN image' = 0..Size - 1
        BY <1>6
      <3> QED
        BY <1>11, <1>12, <3>1, <3>2
    <2> QED
      BY <2>1, <2>2, <2>3, <2>4 DEF Undoing, Holds
  <1>14. Shown(p[0])'
    <2>1. SUFFICES ASSUME stage' = "shown" PROVE image' = p[0]
      BY DEF Shown
    <2>2. shared' = 0..workers - 1
      BY <1>1, <1>6, <2>1
    <2>3. \A i \in 0..Size - 1 : image'[i] = p[0][i]
      <3> TAKE i \in 0..Size - 1
      <3>1. \E v \in 0..workers - 1 : i \div Width \in RowRange(v, workers, Height)
        BY <1>1, <1>5, RowOwner
      <3>2. Covered(i, workers)'
        BY <1>11, <2>2, <3>1 DEF Covered
      <3> QED
        BY <1>12, <3>2
    <2>4. p[0] \in [0..Size - 1 -> Pixel]
      <3>1. Len(transforms) \in 0..3
        BY <1>1, <1>3, Levels
      <3>2. 0 \in 0..Len(transforms)
        BY <3>1
      <3> QED
        BY <1>3, <1>9, <3>2 DEF Explains, Chain
    <2>5. image' = [i \in 0..Size - 1 |-> image'[i]]
      BY <1>6
    <2>6. p[0] = [i \in 0..Size - 1 |-> p[0][i]]
      BY <2>4
    <2> QED
      BY <2>3, <2>5, <2>6
  <1> QED
    BY <1>1, <1>2, <1>3, <1>13, <1>14, StillReading

LEMMA Still_Kept ==
  ASSUME Kept, UNCHANGED vars
  PROVE  Kept'
  <1>1. /\ UNCHANGED <<queue, job, stage, mem, argb, residuals, todo, currentWidth, transforms, y, scratch, near, at, data, visits>>
        /\ UNCHANGED <<stream, pixels, transformBuf, read, xsize, next, inPlace, srcOff, dstOff, shared, image>>
    BY DEF vars, encoder, encoding, reading, undoing
  <1>2. SUFFICES ASSUME stage \notin {"idle", "near"}, Good, NEW p, Explains(p) PROVE Kept'
    BY <1>1, SameBack DEF Kept
  <1>3. Chain(p)'
    BY <1>1, <1>2, ChainSame DEF Explains
  <1>4. /\ Width' = Width /\ Height' = Height /\ Size' = Size /\ Count' = Count /\ CodedWidth' = CodedWidth /\ CodeBits' = CodeBits
        /\ Palette' = Palette /\ TransformBits' = TransformBits /\ \A i : TileOf(i)' = TileOf(i)
    BY <1>1, SameJob, SameTiles
  <1>5. Encoding(p[Len(transforms)])'
    <2>1. Applying' = Applying
      BY <1>1, <1>4 DEF Applying
    <2> QED
      BY <1>1, <1>2, <1>4, <2>1 DEF Explains, Encoding, Holds, Guess
  <1>6. Reading(p[Len(transforms)])'
    <2>1. Reading(p[Len(transforms)])
      BY <1>2 DEF Explains
    <2>2. \A r, t : ReadBack(r, t)' <=> ReadBack(r, t)
      BY <1>1, SameReading
    <2>3. \A t : Said(t)' = Said(t)
      BY <1>1, SameReading
    <2> QED
      BY <1>1, <1>4, <2>1, <2>2, <2>3 DEF Reading, ReadBack, Said
  <1>7. Undoing(p)'
    <2>1. Undoing(p)
      BY <1>2 DEF Explains
    <2>2. /\ \A i, workers : Covered(i, workers)' <=> Covered(i, workers)
          /\ PixelWorkers' = PixelWorkers
      BY <1>1, <1>4 DEF Covered, PixelWorkers
    <2>3. \A i : Restored(i)' <=> Restored(i)
      BY <1>1, <1>4, <2>2 DEF Restored, undone, Covered
    <2>4. InWords(srcOff, dstOff)' <=> InWords(srcOff, dstOff)
      BY <1>1, <1>4 DEF InWords
    <2>5. Spread(next)' = Spread(next)
      BY <1>1, <1>4 DEF Spread
    <2>6. \A i : Covered(i, PixelWorkers)' <=> Covered(i, PixelWorkers)
      BY <1>1, <1>4, <2>2 DEF Covered
    <2> QED
      BY <1>1, <1>4, <2>1, <2>2, <2>3, <2>4, <2>5, <2>6 DEF Undoing, Holds
  <1>8. Shown(p[0])'
    BY <1>1, <1>2 DEF Explains, Shown
  <1> QED
    BY <1>3, <1>5, <1>6, <1>7, <1>8 DEF Kept, Explains

LEMMA Idle_Kept ==
  ASSUME stage' \in {"idle", "near"}
  PROVE  Kept'
  BY DEF Kept

\* A row made from its residuals, left to right, is the row of the picture.
LEMMA RowBack ==
  ASSUME Basic, Good, stage = "inverse", next > 0, undone.type = "Predictor", NEW p, Explains(p)
  PROVE  \A x \in 0..Width - 1 : InverseRow[x + 1] = p[next - 1][y * Width + x]
  <1>1. /\ IsPicture(job) /\ Size \in Nat /\ Spread(next) = Size /\ Spread(next - 1) = Size
        /\ ReadBack(undone, transforms[next])
        /\ undone.xsize = Width /\ transforms[next].xsize = Width
        /\ Back(transforms[next], p[next - 1], p[next])
        /\ \A i \in 0..Spread(next) - 1 : (inPlace => ~Restored(i)) => src[i] = p[next][i]
    BY ToUndo DEF Basic, TypeInv
  <1>2. /\ y \in 0..Height - 1
        /\ \A i \in 0..Size - 1 : Restored(i) => transformBuf[i] = p[next - 1][i]
    BY DEF Explains, Undoing
  <1>3. PICK cw, t, a, c, b : cw = Width /\ t = transforms[next] /\ a = p[next - 1] /\ c = p[next] /\ b = y * cw
    OBVIOUS
  <1>4. /\ t.type = "Predictor" /\ t.xsize = cw /\ undone.xsize = cw /\ undone.data = t.data /\ undone.bits = t.bits
    BY <1>1, <1>3 DEF ReadBack
  <1>5. /\ cw \in Nat \ {0} /\ Height \in Nat \ {0} /\ y \in Nat
    BY <1>1, <1>2, <1>3, JobFacts
  <1>6. /\ b \in Nat /\ \A x \in 0..cw - 1 : /\ b + x \in 0..Size - 1 /\ (b + x) \div cw = y /\ (b + x) % cw = x
    <2>1. b \in Nat
      BY <1>3, <1>5
    <2>2. ASSUME NEW x \in 0..cw - 1 PROVE /\ b + x \in 0..Size - 1 /\ (b + x) \div cw = y /\ (b + x) % cw = x
      BY <1>1, <1>2, <1>3, InPicture
    <2> QED
      BY <2>1, <2>2
  <1>7. y = 0 => b = 0
    BY <1>3, <1>5
  <1>8. y > 0 => b - cw \in Nat /\ (y - 1) * cw = b - cw
    <2>1. SUFFICES ASSUME y > 0 PROVE b - cw \in Nat /\ (y - 1) * cw = b - cw
      OBVIOUS
    <2>2. y - 1 \in Nat /\ (y - 1) + 1 = y
      BY <1>5, <2>1
    <2>3. (y - 1) * cw \in Nat /\ ((y - 1) + 1) * cw = (y - 1) * cw + cw
      BY <1>5, <2>2
    <2> QED
      BY <1>3, <1>5, <1>6, <2>2, <2>3
  <1>9. \A x \in 0..cw - 1 : src[b + x] = c[b + x]
    <2> TAKE x \in 0..cw - 1
    <2>1. ~Restored(b + x)
      <3>1. ~(b + x < y * Width)
        BY <1>3, <1>6
      <3> QED
        BY <3>1 DEF Restored
    <2> QED
      BY <1>1, <1>3, <1>6, <2>1
  <1>10. y > 0 => \A x \in 0..cw - 1 : transformBuf[b - cw + x] = a[b - cw + x]
    <2>1. SUFFICES ASSUME y > 0, NEW x \in 0..cw - 1 PROVE transformBuf[b - cw + x] = a[b - cw + x]
      OBVIOUS
    <2>2. b - cw + x \in 0..Size - 1 /\ b - cw + x < b
      <3>1. b + 0 \in 0..Size - 1
        BY <1>5, <1>6
      <3> QED
        BY <1>1, <1>5, <1>6, <1>8, <2>1, <3>1
    <2>3. Restored(b - cw + x)
      BY <1>3, <2>2 DEF Restored
    <2> QED
      BY <1>2, <1>3, <2>2, <2>3
  <1>11. \A i \in 0..Size - 1 : AddPixels(c[i], Guess(t, a, i)) = a[i]
    BY <1>1, <1>3, <1>4 DEF Back
  <1> DEFINE first == AddPixels(src[y * undone.xsize], IF y = 0 THEN ARGBBlack ELSE transformBuf[(y - 1) * undone.xsize])
             Made(m) == m = [x \in 0..undone.xsize - 1 |-> IF x = 0 THEN <<first>> ELSE AddPredicted(m[x - 1], x)]
             line == CHOOSE m : Made(m)
  <1>12. first = a[b]
    <2>1. 0 \in 0..cw - 1 /\ b + 0 = b /\ b \in 0..Size - 1
      BY <1>5, <1>6
    <2>2. src[y * undone.xsize] = c[b]
      BY <1>3, <1>4, <1>9, <2>1
    <2>3. Guess(t, a, b) = IF y = 0 THEN ARGBBlack ELSE transformBuf[(y - 1) * undone.xsize]
      <3>1. CASE y = 0
        BY <1>7, <3>1 DEF Guess
      <3>2. CASE y # 0
        <4>1. y > 0 /\ b # 0 /\ ~(b < cw) /\ b % cw = 0 /\ b - cw + 0 = b - cw
          BY <1>5, <1>6, <1>8, <2>1, <3>2
        <4>2. transformBuf[(y - 1) * undone.xsize] = a[b - cw]
          BY <1>4, <1>8, <1>10, <2>1, <4>1
        <4>3. Guess(t, a, b) = a[b - cw]
          BY <1>4, <4>1 DEF Guess
        <4> QED
          BY <3>2, <4>2, <4>3
      <3> QED
        BY <3>1, <3>2
    <2> QED
      BY <1>11, <2>1, <2>2, <2>3
  <1>13. ASSUME NEW x \in 1..cw - 1, NEW l, l[x] = a[b + x - 1], l[1] = a[b]
         PROVE  AddPredicted(l, x) = Append(l, a[b + x])
    <2> DEFINE above(k) == transformBuf[(y - 1) * undone.xsize + k]
               topRight == IF x = undone.xsize - 1 THEN l[1] ELSE above(x + 1)
               pred == IF y = 0 THEN l[x]
                       ELSE Predicted(DecodedMode(x), l[x], above(x), topRight, above(x - 1),
                                      SelectPredictor(l[x], above(x), above(x - 1)))
    <2>1. x \in 0..cw - 1 /\ b + x \in 0..Size - 1 /\ b + x # 0 /\ (b + x) - 1 = b + x - 1 /\ x # 0
      BY <1>5, <1>6
    <2>2. AddPredicted(l, x) = Append(l, AddPixels(src[y * undone.xsize + x], pred))
      BY Zenon DEF AddPredicted
    <2>3. src[y * undone.xsize + x] = c[b + x]
      <3>1. y * undone.xsize = b
        BY <1>3, <1>4
      <3> QED
        BY <1>9, <2>1, <3>1
    <2>4. pred = Guess(t, a, b + x)
      <3>1. CASE y = 0
        <4>1. b + x < cw
          BY <1>5, <1>7, <3>1
        <4>2. Guess(t, a, b + x) = a[b + x - 1]
          BY <1>4, <2>1, <4>1 DEF Guess
        <4> QED
          BY <1>13, <3>1, <4>2
      <3>2. CASE y # 0
        <4>1. /\ y > 0 /\ ~(b + x < cw) /\ (b + x) % cw # 0
              /\ b + x - cw = b - cw + x /\ b + x - cw + 1 = b - cw + (x + 1) /\ b + x - cw - 1 = b - cw + (x - 1)
              /\ x - 1 \in 0..cw - 1 /\ (x # cw - 1 => x + 1 \in 0..cw - 1)
          <5>1. y > 0
            BY <1>5, <3>2
          <5>2. (b + x) % cw = x
            BY <1>6, <2>1
          <5>3. b - cw \in Nat
            BY <1>8, <5>1
          <5> QED
            BY <1>5, <1>6, <2>1, <5>1, <5>2, <5>3
        <4>2. \A k : above(k) = transformBuf[b - cw + k]
          BY <1>4, <1>8, <4>1
        <4>3. above(x) = a[b + x - cw] /\ above(x - 1) = a[b + x - cw - 1]
          BY <1>10, <2>1, <4>1, <4>2
        <4>4. topRight = a[b + x - cw + 1]
          <5>1. CASE x = cw - 1
            <6>1. b + x - cw + 1 = b
              BY <1>5, <1>6, <5>1
            <6> QED
              BY <1>4, <1>13, <5>1, <6>1
          <5>2. CASE x # cw - 1
            <6>1. above(x + 1) = a[b + x - cw + 1]
              BY <1>10, <4>1, <4>2, <5>2
            <6> QED
              BY <1>4, <5>2, <6>1
          <5> QED
            BY <5>1, <5>2
        <4>5. PICK i : i = b + x
          OBVIOUS
        <4>6. DecodedMode(x) = t.data[Tile(t, i)][3]
          <5>1. i \div cw = y /\ i % cw = x
            BY <1>6, <2>1, <4>5
          <5>2. Tile(t, i) = (y \div 2^t.bits) * SubSampleSize(cw, t.bits) + x \div 2^t.bits
            BY <1>4, <5>1, Zenon DEF Tile
          <5> QED
            BY <1>4, <5>2, Zenon DEF DecodedMode
        <4> HIDE DEF above, topRight
        <4>7. above(x) = a[i - cw] /\ above(x - 1) = a[i - cw - 1] /\ topRight = a[i - cw + 1] /\ l[x] = a[i - 1]
          <5>0. b + x - cw = i - cw /\ b + x - cw - 1 = i - cw - 1 /\ b + x - cw + 1 = i - cw + 1 /\ b + x - 1 = i - 1
            BY <1>5, <1>6, <4>5
          <5>1. above(x) = a[i - cw]
            BY <4>3, <5>0, Zenon
          <5>2. above(x - 1) = a[i - cw - 1]
            BY <4>3, <5>0, Zenon
          <5>3. topRight = a[i - cw + 1]
            BY <4>4, <5>0, Zenon
          <5>4. l[x] = a[i - 1]
            BY <1>13, <5>0, Zenon
          <5> QED
            BY <5>1, <5>2, <5>3, <5>4
        <4>8. pred = Predicted(t.data[Tile(t, i)][3], a[i - 1], a[i - cw], a[i - cw + 1], a[i - cw - 1],
                               SelectPredictor(a[i - 1], a[i - cw], a[i - cw - 1]))
          BY <3>2, <4>6, <4>7, Zenon
        <4>9. i # 0 /\ ~(i < cw) /\ i % cw # 0
          BY <2>1, <4>1, <4>5
        <4>10. Guess(t, a, i) = Predicted(t.data[Tile(t, i)][3], a[i - 1], a[i - cw], a[i - cw + 1], a[i - cw - 1],
                                          SelectPredictor(a[i - 1], a[i - cw], a[i - cw - 1]))
          BY <1>4, <4>9, Zenon DEF Guess
        <4>11. pred = Guess(t, a, i)
          BY <4>8, <4>10, Zenon
        <4> HIDE DEF pred
        <4> QED
          BY <4>5, <4>11
      <3> QED
        BY <3>1, <3>2
    <2> HIDE DEF pred
    <2> QED
      BY <1>11, <2>1, <2>2, <2>3, <2>4
  <1>14. InverseRow = line[cw - 1]
    BY <1>4 DEF InverseRow
  <1> HIDE DEF first
  <1> DEFINE made == [x \in 0..cw - 1 |-> [k \in 1..x + 1 |-> a[b + k - 1]]]
  <1>15. Made(made)
    <2>1. ASSUME NEW x \in 0..cw - 1 PROVE made[x] = IF x = 0 THEN <<first>> ELSE AddPredicted(made[x - 1], x)
      <3>1. CASE x = 0
        <4>1. made[0] = [k \in 1..1 |-> a[b + k - 1]]
          BY <1>5
        <4>2. \A k \in 1..1 : b + k - 1 = b
          BY <1>6
        <4>3. made[0] = [k \in 1..1 |-> a[b]]
          BY <4>1, <4>2
        <4>4. [k \in 1..1 |-> a[b]] = <<a[b]>>
          OBVIOUS
        <4> QED
          BY <1>12, <3>1, <4>3, <4>4
      <3>2. CASE x # 0
        <4>1. x \in 1..cw - 1 /\ x - 1 \in 0..cw - 1 /\ (x - 1) + 1 = x
          BY <1>5, <3>2
        <4>2. PICK l : l = made[x - 1]
          OBVIOUS
        <4>3. l = [k \in 1..x |-> a[b + k - 1]]
          BY <4>1, <4>2
        <4>4. l[x] = a[b + x - 1] /\ l[1] = a[b]
          <5>1. x \in 1..x /\ 1 \in 1..x /\ b + 1 - 1 = b
            BY <1>6, <4>1
          <5> QED
            BY <4>3, <5>1
        <4>5. AddPredicted(l, x) = Append(l, a[b + x])
          BY <1>13, <4>1, <4>4
        <4>6. Append(l, a[b + x]) = [k \in 1..x + 1 |-> a[b + k - 1]]
          <5>1. l \in Seq({l[k] : k \in 1..x}) /\ Len(l) = x
            <6>1. PICK S : S = {l[k] : k \in 1..x}
              OBVIOUS
            <6>2. x \in Nat /\ DOMAIN l = 1..x /\ l \in [1..x -> S]
              BY <4>1, <4>3, <6>1
            <6>3. l \in Seq(S)
              BY <6>2
            <6> QED
              BY <6>1, <6>2, <6>3
          <5>2. b + (x + 1) - 1 = b + x
            BY <1>6, <4>1
          <5> QED
            BY <4>1, <4>3, <5>1, <5>2
        <4> QED
          BY <3>2, <4>2, <4>5, <4>6
      <3> QED
        BY <3>1, <3>2
    <2>2. made = [x \in 0..cw - 1 |-> made[x]]
      OBVIOUS
    <2> HIDE DEF made
    <2> QED
      BY <1>4, <2>1, <2>2
  <1>16. Made(line)
    <2> HIDE DEF Made, made
    <2> QED
      BY <1>15
  <1>17. ASSUME NEW x \in 0..cw - 1
         PROVE  /\ made[x] = IF x = 0 THEN <<first>> ELSE AddPredicted(made[x - 1], x)
                /\ line[x] = IF x = 0 THEN <<first>> ELSE AddPredicted(line[x - 1], x)
    <2> HIDE DEF made, line
    <2> QED
      BY <1>4, <1>15, <1>16
  <1> HIDE DEF line, Made
  <1>18. \A k \in 1..cw : made[cw - 1][k] = a[b + k - 1]
    BY <1>5
  <1> HIDE DEF made
  <1> DEFINE T == {m \in Nat : m < cw => line[m] = made[m]}
  <1>19. 0 \in T
    <2>1. 0 \in 0..cw - 1
      BY <1>5
    <2>2. line[0] = <<first>> /\ made[0] = <<first>>
      BY <1>17, <2>1
    <2> QED
      BY <2>2
  <1>20. ASSUME NEW m \in T PROVE m + 1 \in T
    <2>1. SUFFICES ASSUME m + 1 < cw PROVE line[m + 1] = made[m + 1]
      OBVIOUS
    <2>2. m \in Nat /\ m + 1 \in 0..cw - 1 /\ m + 1 # 0 /\ (m + 1) - 1 = m /\ line[m] = made[m]
      BY <1>5, <2>1
    <2> QED
      BY <1>17, <2>2
  <1>21. T \in SUBSET Nat
    OBVIOUS
  <1>22. line[cw - 1] = made[cw - 1]
    <2>1. cw - 1 \in T
      <3> HIDE DEF T
      <3>1. cw - 1 \in Nat
        BY <1>5
      <3> QED
        BY <1>19, <1>20, <1>21, <3>1, CountUp
    <2> QED
      BY <1>5, <2>1
  <1> HIDE DEF T
  <1>23. ASSUME NEW x \in 0..cw - 1 PROVE InverseRow[x + 1] = a[b + x]
    <2>1. x + 1 \in 1..cw /\ b + (x + 1) - 1 = b + x
      BY <1>5, <1>6
    <2> QED
      BY <1>14, <1>18, <1>22, <2>1
  <1> QED
    BY <1>3, <1>23

LEMMA PredictorInverse_Kept ==
  ASSUME Basic, Kept, PredictorInverse
  PROVE  Kept'
  <1>1. stage = "inverse" /\ next > 0 /\ undone.type = "Predictor" /\ decoding' = decoding /\ IsPicture(job)
    BY DEF PredictorInverse, Undo, Basic, TypeInv
  <1>2. job' = job /\ stage' = "inverse" /\ read' = read
    BY <1>1 DEF decoding
  <1>3. SUFFICES ASSUME Good, NEW p, Explains(p) PROVE Kept'
    BY <1>1, <1>2, SameBack DEF Kept
  <1>4. /\ Size \in Nat /\ IsArray(transformBuf) /\ Cap(transformBuf) >= Size
        /\ NumPixels = Size /\ stream.height = Height /\ undone.xsize = Width
    BY <1>1, <1>3, ToUndo
  <1>5. /\ transformBuf' = [i \in DOMAIN transformBuf |->
                               IF i < NumPixels /\ InRow(i, Width, y) THEN InverseRow[(i % Width) + 1] ELSE transformBuf[i]]
        /\ IF y + 1 < Height THEN y' = y + 1 /\ UNCHANGED <<next, inPlace, srcOff, dstOff, shared>> ELSE Undone
    BY <1>4 DEF PredictorInverse
  <1>6. /\ shared \subseteq 0..RowWorkers(Height, Shares(Size)) - 1
        /\ \A i \in 0..Size - 1 : i < y * Width => transformBuf[i] = p[next - 1][i]
        /\ inPlace => \A i \in 0..Size - 1 : ~(i < y * Width) => transformBuf[i] = p[next][i]
        /\ InWords(srcOff, dstOff) /\ y \in 0..Height - 1
    BY <1>1, <1>3 DEF Explains, Undoing, Restored
  <1>7. PICK cw, b, n : cw = Width /\ b = y * cw /\ n = (y + 1) * cw
    OBVIOUS
  <1>8. cw \in Nat \ {0} /\ Height \in Nat \ {0} /\ y \in Nat
    BY <1>1, <1>6, <1>7, JobFacts
  <1>9. b \in Nat /\ n = b + cw
    BY <1>7, <1>8
  <1>10. \A i \in 0..Size - 1 : /\ InRow(i, cw, y) <=> b <= i /\ i < n
                                /\ InRow(i, cw, y) => i = b + (i % cw) /\ i % cw \in 0..cw - 1
    <2> TAKE i \in 0..Size - 1
    <2>1. y \in Nat /\ i \in Nat /\ cw \in Nat \ {0}
      BY <1>4, <1>8
    <2>2. /\ InRow(i, cw, y) <=> y * cw <= i /\ i < y * cw + cw
          /\ InRow(i, cw, y) => i = y * cw + (i % cw) /\ i % cw \in 0..cw - 1
      BY <2>1, InRowPlaces
    <2>3. /\ InRow(i, cw, y) <=> b <= i /\ i < b + cw
          /\ InRow(i, cw, y) => i = b + (i % cw) /\ i % cw \in 0..cw - 1
      BY <1>7, <2>2, Zenon
    <2> QED
      BY <1>9, <2>3
  <1>11. ASSUME NEW i \in 0..Size - 1
         PROVE  transformBuf'[i] = IF InRow(i, cw, y) THEN p[next - 1][i] ELSE transformBuf[i]
    <2>1. i \in DOMAIN transformBuf /\ i < NumPixels
      BY <1>4 DEF IsArray
    <2>2. transformBuf'[i] = IF InRow(i, cw, y) THEN InverseRow[(i % cw) + 1] ELSE transformBuf[i]
      BY <1>5, <1>7, <2>1
    <2>3. InRow(i, cw, y) => InverseRow[(i % cw) + 1] = p[next - 1][i]
      <3>1. SUFFICES ASSUME InRow(i, cw, y) PROVE InverseRow[(i % cw) + 1] = p[next - 1][i]
        OBVIOUS
      <3>2. PICK x : x = i % cw
        OBVIOUS
      <3>3. x \in 0..cw - 1 /\ i = b + x
        BY <1>10, <3>1, <3>2
      <3>4. InverseRow[x + 1] = p[next - 1][y * Width + x]
        BY <1>1, <1>3, <1>7, <3>3, RowBack
      <3>5. y * Width + x = i
        BY <1>7, <3>3
      <3> QED
        BY <3>2, <3>4, <3>5
    <2> QED
      BY <2>2, <2>3
  <1>12. DOMAIN transformBuf' = DOMAIN transformBuf
    BY <1>5
  <1>13. \A i \in 0..Size - 1 : i < n => transformBuf'[i] = p[next - 1][i]
    BY <1>6, <1>7, <1>9, <1>10, <1>11
  <1>14. inPlace => \A i \in 0..Size - 1 : ~(i < n) => transformBuf'[i] = p[next][i]
    <2>1. SUFFICES ASSUME inPlace, NEW i \in 0..Size - 1, ~(i < n) PROVE transformBuf'[i] = p[next][i]
      OBVIOUS
    <2>2. ~(i < b) /\ ~InRow(i, cw, y)
      BY <1>8, <1>9, <1>10, <2>1
    <2> QED
      BY <1>6, <1>7, <1>11, <2>1, <2>2
  <1>15. CASE ~(y + 1 < Height)
    <2>1. n = Size
      <3>1. y + 1 = Height
        BY <1>6, <1>8, <1>15
      <3>2. \A u, v \in Nat : u * v = v * u
        OBVIOUS
      <3> QED
        BY <1>7, <1>8, <3>1, <3>2 DEF Size
    <2>2. \A i \in 0..Size - 1 : transformBuf'[i] = p[next - 1][i]
      BY <1>4, <1>13, <2>1
    <2> QED
      BY <1>1, <1>3, <1>5, <1>12, <1>15, <2>2, UndoneKept
  <1>16. CASE y + 1 < Height
    <2>1. y' = y + 1 /\ next' = next /\ inPlace' = inPlace /\ srcOff' = srcOff /\ dstOff' = dstOff /\ shared' = shared
      BY <1>5, <1>16
    <2>2. /\ Width' = Width /\ Height' = Height /\ CodedWidth' = CodedWidth /\ CodeBits' = CodeBits
      BY <1>2, SameJob
    <2>3. InWords(srcOff, dstOff)'
      BY <1>6, <2>1, <2>2 DEF InWords
    <2>4. \A i : Restored(i)' <=> i < n
      <3>1. undone'.type = "Predictor"
        BY <1>1, <1>2, <2>1 DEF undone
      <3>2. \A i : Restored(i)' <=> i < y' * Width'
        BY <3>1 DEF Restored
      <3>3. y' * Width' = n
        BY <1>7, <2>1, <2>2
      <3> QED
        BY <3>2, <3>3
    <2>5. y' \in 0..Height - 1
      BY <1>8, <1>16, <2>1
    <2>6. \A i \in 0..Size - 1 : Restored(i)' => transformBuf'[i] = p[next - 1][i]
      BY <1>13, <2>4
    <2>7. inPlace => \A i \in 0..Size - 1 : ~Restored(i)' => transformBuf'[i] = p[next][i]
      BY <1>14, <2>4
    <2> QED
      BY <1>1, <1>3, <1>6, <1>12, <2>1, <2>3, <2>5, <2>6, <2>7, StillUndoing
  <1> QED
    BY <1>15, <1>16

\* Where words are expanded in place there is one for each pixel.
LEMMA WordsInPlace ==
  ASSUME IsPicture(job), UsePalette, CodedWidth = Width, NEW j \in 0..CodedWidth - 1
  PROVE  j * 2^CodeBits = j
  <1>1. PICK d : d = 2^CodeBits
    OBVIOUS
  <1>2. CodeBits \in 0..3 /\ Width \in Nat \ {0}
    BY JobFacts
  <1>3. d \in {1, 2, 4, 8}
    BY <1>1, <1>2, WordParts
  <1>4. Width = (Width + d - 1) \div d
    BY <1>1 DEF CodedWidth, SubSampleSize
  <1>5. Width * d <= Width + d - 1
    <2>1. Width + d - 1 \in Nat /\ d \in Nat /\ d >= 1
      BY <1>2, <1>3
    <2> QED
      BY <1>4, <2>1, Division
  <1>6. d = 1 \/ Width = 1
    BY <1>2, <1>3, <1>5
  <1>7. d = 1 \/ j = 0
    BY <1>2, <1>6
  <1>8. j * d = j
    BY <1>2, <1>3, <1>7
  <1> QED
    BY <1>1, <1>8

\* The next word of the row, or the first of the next row.
LEMMA NextWord ==
  ASSUME IsPicture(job), UsePalette, NEW word, NEW pixel, NEW r \in 0..Height - 1, NEW j \in 0..CodedWidth - 1,
         word = r * CodedWidth + j, pixel = r * Width + j * 2^CodeBits, pixel + Few(j) < Size
  PROVE  InWords(word + 1, pixel + Few(j))
  <1>1. PICK d, cw, v, f : d = 2^CodeBits /\ cw = Width /\ v = CodedWidth /\ f = Few(j)
    OBVIOUS
  <1>2. /\ cw \in Nat \ {0} /\ Height \in Nat \ {0} /\ v \in Nat \ {0} /\ Size = cw * Height
    BY <1>1, JobFacts DEF Size
  <1>3. /\ j * d \in Nat /\ (j + 1) * d \in Nat /\ d \in 1..8 /\ f \in 1..d
        /\ j + 1 < v => (j + 1) * d = j * d + f
        /\ j + 1 = v => j * d + f = cw
    BY <1>1, FewFacts, Zenon
  <1>4. PICK o, s, rw, rv : o = j * d /\ s = (j + 1) * d /\ rw = r * cw /\ rv = r * v
    OBVIOUS
  <1>5. o \in Nat /\ s \in Nat /\ rw \in Nat /\ rv \in Nat /\ r \in Nat /\ f \in Nat
    BY <1>2, <1>3, <1>4
  <1>6. word = rv + j /\ pixel = rw + o
    BY <1>1, <1>4, Zenon
  <1>7. CASE j + 1 < v
    <2>1. s = o + f
      BY <1>3, <1>4, <1>7, Zenon
    <2>2. j + 1 \in 0..v - 1 /\ word + 1 = rv + (j + 1) /\ pixel + f = rw + s
      <3>1. j \in Nat
        BY <1>1, <1>2
      <3>2. j + 1 \in 0..v - 1
        BY <1>2, <1>7, <3>1
      <3>3. word + 1 = rv + (j + 1)
        BY <1>5, <1>6, <3>1
      <3>4. pixel + f = rw + s
        BY <1>5, <1>6, <2>1
      <3> QED
        BY <3>2, <3>3, <3>4
    <2>3. word + 1 = r * CodedWidth + (j + 1) /\ pixel + Few(j) = r * Width + (j + 1) * 2^CodeBits
      BY <1>1, <1>4, <2>2, Zenon
    <2> QED
      BY <1>1, <2>2, <2>3, Zenon DEF InWords
  <1>8. CASE j + 1 = v
    <2>1. o + f = cw
      BY <1>3, <1>4, <1>8, Zenon
    <2>2. (r + 1) * cw = rw + cw /\ (r + 1) * v = rv + v /\ 0 * d = 0
      BY <1>2, <1>3, <1>4, <1>5
    <2>3. word + 1 = (r + 1) * v + 0 /\ pixel + f = (r + 1) * cw + 0 * d /\ 0 \in 0..v - 1
      BY <1>2, <1>5, <1>6, <1>8, <2>1, <2>2
    <2>4. r + 1 \in 0..Height - 1
      <3>1. CASE r + 1 = Height
        <4>1. Height * cw = Size
          <5>1. \A a, b \in Nat : a * b = b * a
            OBVIOUS
          <5> QED
            BY <1>2, <5>1
        <4>2. pixel + f = Size
          BY <1>5, <1>6, <2>1, <2>2, <3>1, <4>1
        <4>3. pixel + f < Size
          BY <1>1
        <4>4. Size \in Nat
          BY JobFacts
        <4> QED
          BY <4>2, <4>3, <4>4
      <3> QED
        BY <1>2, <3>1
    <2>5. word + 1 = (r + 1) * CodedWidth + 0 /\ pixel + Few(j) = (r + 1) * Width + 0 * 2^CodeBits
      BY <1>1, <2>3, Zenon
    <2> QED
      BY <1>1, <2>3, <2>4, <2>5, Zenon DEF InWords
  <1> QED
    BY <1>1, <1>2, <1>7, <1>8

LEMMA ColorIndexInverse_Kept ==
  ASSUME Basic, Kept, ColorIndexInverse
  PROVE  Kept'
  <1>1. stage = "inverse" /\ next > 0 /\ undone.type = "ColorIndexing" /\ decoding' = decoding /\ IsPicture(job)
    BY DEF ColorIndexInverse, Undo, Basic, TypeInv
  <1>2. job' = job /\ stage' = "inverse" /\ read' = read
    BY <1>1 DEF decoding
  <1>3. SUFFICES ASSUME Good, NEW p, Explains(p) PROVE Kept'
    BY <1>1, <1>2, SameBack DEF Kept
  <1>4. /\ Size \in Nat /\ IsArray(transformBuf) /\ Cap(transformBuf) >= Size
        /\ ReadBack(undone, transforms[next]) /\ Sound(transforms[next]) /\ UsePalette /\ next = 1
        /\ NumPixels = Size /\ undone.xsize = Width
        /\ Back(transforms[next], p[next - 1], p[next])
        /\ (inPlace => Spread(next) = Size)
        /\ \A i \in 0..Spread(next) - 1 : (inPlace => ~Restored(i)) => src[i] = p[next][i]
    BY <1>1, <1>3, ToUndo
  <1>5. /\ shared \subseteq 0..RowWorkers(Height, Shares(Size)) - 1
        /\ \A i \in 0..Size - 1 : i < dstOff => transformBuf[i] = p[next - 1][i]
        /\ inPlace => \A i \in 0..Size - 1 : ~(i < dstOff) => transformBuf[i] = p[next][i]
        /\ InWords(srcOff, dstOff) /\ y \in 0..Height - 1
    BY <1>1, <1>3 DEF Explains, Undoing, Restored
  <1>6. /\ undone.bits = CodeBits /\ (\A i \in DOMAIN Palette : undone.data[i] = Palette[i])
        /\ transforms[next].type = "ColorIndexing"
    BY <1>1, <1>4 DEF ReadBack, Sound
  <1>7. PICK r \in 0..Height - 1, j \in 0..CodedWidth - 1 :
             srcOff = r * CodedWidth + j /\ dstOff = r * Width + j * 2^CodeBits
    BY <1>5 DEF InWords
  <1>8. PICK d, cw, v, f, a, b : d = 2^CodeBits /\ cw = Width /\ v = CodedWidth /\ f = Few(j) /\ a = p[next - 1] /\ b = p[next]
    OBVIOUS
  <1>9. /\ cw \in Nat \ {0} /\ Height \in Nat \ {0} /\ v \in Nat \ {0}
    BY <1>1, <1>8, JobFacts
  <1>10. /\ j * d \in Nat /\ j * d < cw /\ f \in 1..d /\ d \in 1..8 /\ j * d + f <= cw /\ f = Min({d, cw - j * d})
    BY <1>1, <1>4, <1>8, FewFacts, Zenon
  <1>11. PICK o, rw : o = j * d /\ rw = r * cw
    OBVIOUS
  <1>12. o \in 0..cw - 1 /\ o + f <= cw /\ f \in Nat \ {0} /\ f = Min({d, cw - o}) /\ rw \in Nat /\ dstOff = rw + o /\ dstOff \in Nat
    <2>1. o \in Nat /\ o < cw /\ o + f <= cw /\ f = Min({d, cw - o})
      BY <1>10, <1>11, Zenon
    <2>2. dstOff = rw + o
      BY <1>7, <1>8, <1>11, Zenon
    <2>3. f \in Nat \ {0} /\ rw \in Nat
      BY <1>9, <1>10, <1>11
    <2> QED
      BY <1>9, <2>1, <2>2, <2>3
  <1>13. dstOff % cw = o
    <2>1. (r * cw + o) % cw = o
      <3>1. r \in Nat /\ cw \in Nat /\ o \in 0..cw - 1
        BY <1>9, <1>12
      <3> QED
        BY <3>1, Cell
    <2> QED
      BY <1>11, <1>12, <2>1
  <1> DEFINE few == Min({2^undone.bits, undone.xsize - (dstOff % undone.xsize)})
             color(k) == undone.data[IndexIn(src[srcOff], k, BitsPerPixel(undone.bits))]
  <1>14. few = f
    <2>1. 2^undone.bits = d /\ undone.xsize - (dstOff % undone.xsize) = cw - o
      BY <1>4, <1>6, <1>8, <1>13, Zenon
    <2> QED
      BY <1>12, <2>1, Zenon
  <1>15. src[srcOff] = b[srcOff]
    <2>1. r \in Nat /\ v \in Nat /\ Height \in Nat /\ r < Height
      BY <1>9
    <2>2. r * v + j \in Nat /\ r * v + j < v * Height
      BY <1>8, <1>9, <2>1, Cell
    <2>3. Spread(next) = v * Height /\ v * Height \in Nat
      BY <1>4, <1>8, <1>9 DEF Spread
    <2>4. srcOff \in 0..Spread(next) - 1
      BY <1>7, <1>8, <2>2, <2>3
    <2>5. inPlace => ~(srcOff < dstOff)
      <3>1. SUFFICES ASSUME inPlace PROVE ~(srcOff < dstOff)
        OBVIOUS
      <3>2. v * Height = cw * Height
        BY <1>4, <1>8, <2>3, <3>1 DEF Size
      <3>3. v = cw
        <4>1. ASSUME NEW s \in Nat, NEW u \in Nat, s < u PROVE s * Height < u * Height
          <5>1. s * Height + Height <= u * Height /\ u * Height \in Nat /\ s * Height \in Nat
            BY <1>9, <4>1, Apart
          <5> QED
            BY <1>9, <5>1
        <4>2. v * Height \in Nat /\ cw * Height \in Nat
          BY <1>9
        <4>3. ~(v < cw) /\ ~(cw < v)
          BY <1>9, <3>2, <4>1, <4>2
        <4> QED
          BY <1>9, <4>3
      <3>4. o = j
        BY <1>1, <1>4, <1>8, <1>11, <3>3, WordsInPlace
      <3>5. srcOff = dstOff
        BY <1>7, <1>8, <1>11, <1>12, <3>3, <3>4
      <3> QED
        BY <1>12, <3>5
    <2>6. inPlace => ~Restored(srcOff)
      BY <1>1, <2>5 DEF Restored
    <2> QED
      BY <1>4, <1>8, <2>4, <2>6
  <1>16. ASSUME NEW k \in 0..f - 1 PROVE color(k) = a[dstOff + k]
    <2>1. /\ Number(b, r, j, k) \in DOMAIN Palette
          /\ Palette[Number(b, r, j, k)] = a[r * Width + j * 2^CodeBits + k]
      BY <1>4, <1>6, <1>8, Zenon DEF Back
    <2>2. Number(b, r, j, k) = IndexIn(src[srcOff], k, BitsPerPixel(undone.bits))
      BY <1>6, <1>7, <1>15, Zenon DEF Number
    <2>3. color(k) = Palette[Number(b, r, j, k)]
      BY <1>6, <2>1, <2>2, Zenon
    <2> HIDE DEF color
    <2> QED
      BY <1>7, <2>1, <2>3, Zenon
  <1>17. /\ transformBuf' = [i \in DOMAIN transformBuf |-> IF i \in dstOff..dstOff + few - 1 THEN color(i - dstOff) ELSE transformBuf[i]]
         /\ IF dstOff + few < NumPixels
            THEN srcOff' = srcOff + 1 /\ dstOff' = dstOff + few /\ UNCHANGED <<next, inPlace, y, shared>>
            ELSE Undone
    BY DEF ColorIndexInverse
  <1> HIDE DEF few, color
  <1>18. ASSUME NEW i \in 0..Size - 1
         PROVE  /\ i < dstOff + f => transformBuf'[i] = a[i]
                /\ ~(i < dstOff + f) => transformBuf'[i] = transformBuf[i]
    <2>1. i \in DOMAIN transformBuf
      BY <1>4 DEF IsArray
    <2>2. transformBuf'[i] = IF i \in dstOff..dstOff + f - 1 THEN color(i - dstOff) ELSE transformBuf[i]
      BY <1>14, <1>17, <2>1
    <2>3. CASE i < dstOff
      <3>1. i \notin dstOff..dstOff + f - 1 /\ i < dstOff + f
        BY <1>4, <1>12, <2>3
      <3> QED
        BY <1>5, <1>8, <2>2, <2>3, <3>1
    <2>4. CASE ~(i < dstOff) /\ i < dstOff + f
      <3>1. i \in dstOff..dstOff + f - 1 /\ i - dstOff \in 0..f - 1 /\ dstOff + (i - dstOff) = i
        BY <1>4, <1>12, <2>4
      <3> QED
        BY <1>16, <2>2, <2>4, <3>1
    <2>5. CASE ~(i < dstOff + f)
      <3>1. i \notin dstOff..dstOff + f - 1
        BY <1>4, <1>12, <2>5
      <3> QED
        BY <2>2, <2>5, <3>1
    <2> QED
      BY <2>3, <2>4, <2>5
  <1>19. DOMAIN transformBuf' = DOMAIN transformBuf
    BY <1>17
  <1>20. CASE ~(dstOff + f < Size)
    <2>1. \A i \in 0..Size - 1 : transformBuf'[i] = p[next - 1][i]
      BY <1>4, <1>8, <1>12, <1>18, <1>20
    <2>2. Undone
      BY <1>4, <1>14, <1>17, <1>20
    <2> QED
      BY <1>1, <1>3, <1>19, <2>1, <2>2, UndoneKept
  <1>21. CASE dstOff + f < Size
    <2>1. srcOff' = srcOff + 1 /\ dstOff' = dstOff + f /\ next' = next /\ inPlace' = inPlace /\ y' = y /\ shared' = shared
      BY <1>4, <1>14, <1>17, <1>21
    <2>2. /\ Width' = Width /\ Height' = Height /\ CodedWidth' = CodedWidth /\ CodeBits' = CodeBits
      BY <1>2, SameJob
    <2>3. InWords(srcOff, dstOff)'
      <3>1. InWords(srcOff + 1, dstOff + f)
        <4>1. dstOff + Few(j) < Size
          BY <1>8, <1>21
        <4> QED
          BY <1>1, <1>4, <1>7, <1>8, <4>1, NextWord
      <3> QED
        BY <2>1, <2>2, <3>1 DEF InWords
    <2>4. \A i : Restored(i)' <=> i < dstOff + f
      <3>1. undone'.type = "ColorIndexing"
        BY <1>1, <1>2, <2>1 DEF undone
      <3> QED
        BY <2>1, <3>1 DEF Restored
    <2>5. \A i \in 0..Size - 1 : Restored(i)' => transformBuf'[i] = p[next - 1][i]
      BY <1>8, <1>18, <2>4
    <2>6. inPlace => \A i \in 0..Size - 1 : ~Restored(i)' => transformBuf'[i] = p[next][i]
      <3>1. \A i \in 0..Size - 1 : ~(i < dstOff + f) => ~(i < dstOff)
        BY <1>4, <1>12
      <3> QED
        BY <1>5, <1>18, <2>4, <3>1
    <2> QED
      BY <1>1, <1>3, <1>5, <1>19, <2>1, <2>3, <2>5, <2>6, StillUndoing
  <1> QED
    BY <1>20, <1>21

-----------------------------------------------------------------------------
(* Rounding of the near-lossless passes *)

\* A byte rounded to a multiple of a step, or to 255, is off by at most half of
\* the step; rounding it once more to a finer step changes nothing.
LEMMA RoundedByte ==
  ASSUME NEW v \in Byte, NEW b \in 1..MaxLimitBits
  PROVE  /\ FindClosestDiscretized(v, b) \in Byte
         /\ Absolute(FindClosestDiscretized(v, b) - v) <= 2^(b - 1)
         /\ \A c \in 1..b - 1 : FindClosestDiscretized(FindClosestDiscretized(v, b), c) = FindClosestDiscretized(v, b)
  <1>1. 2^0 = 1 /\ 2^1 = 2 /\ 2^2 = 4 /\ 2^3 = 8 /\ 2^4 = 16 /\ 2^5 = 32
    <2>1. /\ 2^1 = 2 * 2^0 /\ 2^2 = 2 * 2^1 /\ 2^3 = 2 * 2^2 /\ 2^4 = 2 * 2^3 /\ 2^5 = 2 * 2^4 /\ 2^0 = 1
      OBVIOUS
    <2> QED
      BY <2>1
  <1> DEFINE Cut(u, d) == IF u + (d - 1) \div 2 + ((u \div d) % 2) > 255 THEN 255
                          ELSE u + (d - 1) \div 2 + ((u \div d) % 2) - ((u + (d - 1) \div 2 + ((u \div d) % 2)) % d)
             Fit(u, d) == Cut(u, d) \in 0..255 /\ Absolute(Cut(u, d) - u) <= d \div 2
  <1>2. ASSUME NEW u \in 0..255, NEW c, NEW d \in {2, 4, 8, 16, 32}, 2^c = d
        PROVE  FindClosestDiscretized(u, c) = Cut(u, d)
    <2>1. PICK r : r = FindClosestDiscretized(u, c)
      OBVIOUS
    <2>2. PICK low : low = u + (d - 1) \div 2 + ((u \div d) % 2)
      OBVIOUS
    <2>3. r = IF low > 255 THEN 255 ELSE low - (low % d)
      BY <1>2, <2>1, <2>2 DEF FindClosestDiscretized
    <2>4. Cut(u, d) = IF low > 255 THEN 255 ELSE low - (low % d)
      BY <2>2
    <2> QED
      BY <2>1, <2>3, <2>4
  <1>3. \A u \in 0..255 : Fit(u, 2) /\ Fit(u, 4) /\ Fit(u, 8) /\ Fit(u, 16) /\ Fit(u, 32)
    <2>1. \A u \in 0..255 : Fit(u, 2)
      BY DEF Absolute
    <2>2. \A u \in 0..255 : Fit(u, 4)
      BY DEF Absolute
    <2>3. \A u \in 0..255 : Fit(u, 8)
      BY DEF Absolute
    <2>4. \A u \in 0..255 : Fit(u, 16)
      BY DEF Absolute
    <2>5. \A u \in 0..255 : Fit(u, 32)
      BY DEF Absolute
    <2> HIDE DEF Fit
    <2> QED
      BY <2>1, <2>2, <2>3, <2>4, <2>5
  <1> DEFINE Multiple(u, d) == u \in 0..255 /\ (u = 255 \/ u % d = 0)
  <1>4. \A u \in 0..255 : /\ Multiple(Cut(u, 4), 4) /\ Multiple(Cut(u, 8), 8)
                          /\ Multiple(Cut(u, 16), 16) /\ Multiple(Cut(u, 32), 32)
    <2>1. \A u \in 0..255 : Multiple(Cut(u, 4), 4)
      OBVIOUS
    <2>2. \A u \in 0..255 : Multiple(Cut(u, 8), 8)
      OBVIOUS
    <2>3. \A u \in 0..255 : Multiple(Cut(u, 16), 16)
      OBVIOUS
    <2>4. \A u \in 0..255 : Multiple(Cut(u, 32), 32)
      OBVIOUS
    <2> HIDE DEF Multiple, Cut
    <2> QED
      BY <2>1, <2>2, <2>3, <2>4
  <1>5. /\ \A u : Multiple(u, 4) => Cut(u, 2) = u
        /\ \A u : Multiple(u, 8) => Cut(u, 2) = u /\ Cut(u, 4) = u
        /\ \A u : Multiple(u, 16) => Cut(u, 2) = u /\ Cut(u, 4) = u /\ Cut(u, 8) = u
        /\ \A u : Multiple(u, 32) => Cut(u, 2) = u /\ Cut(u, 4) = u /\ Cut(u, 8) = u /\ Cut(u, 16) = u
    <2>1. \A u : Multiple(u, 4) => Cut(u, 2) = u
      OBVIOUS
    <2>2. \A u : Multiple(u, 8) => Cut(u, 4) = u /\ Multiple(u, 4)
      OBVIOUS
    <2>3. \A u : Multiple(u, 16) => Cut(u, 8) = u /\ Multiple(u, 8)
      OBVIOUS
    <2>4. \A u : Multiple(u, 32) => Cut(u, 16) = u /\ Multiple(u, 16)
      OBVIOUS
    <2> HIDE DEF Multiple, Cut
    <2> QED
      BY <2>1, <2>2, <2>3, <2>4
  <1> HIDE DEF Cut, Multiple
  <1>6. v \in 0..255 /\ b \in 1..5
    BY DEF Byte, MaxLimitBits
  <1>7. b = 1 \/ b = 2 \/ b = 3 \/ b = 4 \/ b = 5
    BY <1>6
  <1>8. PICK d, h : d = 2^b /\ h = 2^(b - 1)
    OBVIOUS
  <1>9. h = d \div 2
    <2>1. CASE b = 1
      <3>1. d = 2 /\ h = 1
        BY <1>1, <1>8, <2>1
      <3> QED
        BY <3>1
    <2>2. CASE b = 2
      <3>1. d = 4 /\ h = 2
        BY <1>1, <1>8, <2>2
      <3> QED
        BY <3>1
    <2>3. CASE b = 3
      <3>1. d = 8 /\ h = 4
        BY <1>1, <1>8, <2>3
      <3> QED
        BY <3>1
    <2>4. CASE b = 4
      <3>1. d = 16 /\ h = 8
        BY <1>1, <1>8, <2>4
      <3> QED
        BY <3>1
    <2>5. CASE b = 5
      <3>1. d = 32 /\ h = 16
        BY <1>1, <1>8, <2>5
      <3> QED
        BY <3>1
    <2> QED
      BY <1>7, <2>1, <2>2, <2>3, <2>4, <2>5
  <1>10. \A c \in 1..b : 2^c \in {2, 4, 8, 16, 32}
    <2> TAKE c \in 1..b
    <2>1. c = 1 \/ c = 2 \/ c = 3 \/ c = 4 \/ c = 5
      BY <1>6
    <2> QED
      BY <1>1, <2>1
  <1> HIDE DEF Fit
  <1>11. Fit(v, d)
    <2>1. CASE b = 1
      <3>1. d = 2
        BY <1>1, <1>8, <2>1
      <3> QED
        BY <1>3, <1>6, <3>1
    <2>2. CASE b = 2
      <3>1. d = 4
        BY <1>1, <1>8, <2>2
      <3> QED
        BY <1>3, <1>6, <3>1
    <2>3. CASE b = 3
      <3>1. d = 8
        BY <1>1, <1>8, <2>3
      <3> QED
        BY <1>3, <1>6, <3>1
    <2>4. CASE b = 4
      <3>1. d = 16
        BY <1>1, <1>8, <2>4
      <3> QED
        BY <1>3, <1>6, <3>1
    <2>5. CASE b = 5
      <3>1. d = 32
        BY <1>1, <1>8, <2>5
      <3> QED
        BY <1>3, <1>6, <3>1
    <2> QED
      BY <1>7, <2>1, <2>2, <2>3, <2>4, <2>5
  <1>12. FindClosestDiscretized(v, b) = Cut(v, d)
    <2>1. b \in 1..b
      BY <1>6
    <2>2. d \in {2, 4, 8, 16, 32}
      BY <1>8, <1>10, <2>1
    <2> QED
      BY <1>2, <1>6, <1>8, <2>2
  <1>13. \A c \in 1..b - 1 : Cut(Cut(v, d), 2^c) = Cut(v, d)
    <2> TAKE c \in 1..b - 1
    <2>1. CASE b = 1
      BY <2>1
    <2>2. CASE b = 2
      <3>1. d = 4 /\ 2^c = 2
        BY <1>1, <1>8, <2>2
      <3> QED
        BY <1>4, <1>5, <1>6, <3>1
    <2>3. CASE b = 3
      <3>1. d = 8 /\ (c = 1 \/ c = 2)
        BY <1>1, <1>8, <2>3
      <3>2. 2^c = 2 \/ 2^c = 4
        BY <1>1, <3>1
      <3> QED
        BY <1>4, <1>5, <1>6, <3>1, <3>2
    <2>4. CASE b = 4
      <3>1. d = 16 /\ (c = 1 \/ c = 2 \/ c = 3)
        BY <1>1, <1>8, <2>4
      <3>2. 2^c = 2 \/ 2^c = 4 \/ 2^c = 8
        BY <1>1, <3>1
      <3> QED
        BY <1>4, <1>5, <1>6, <3>1, <3>2
    <2>5. CASE b = 5
      <3>1. d = 32 /\ (c = 1 \/ c = 2 \/ c = 3 \/ c = 4)
        BY <1>1, <1>8, <2>5
      <3>2. 2^c = 2 \/ 2^c = 4 \/ 2^c = 8 \/ 2^c = 16
        BY <1>1, <3>1
      <3> QED
        BY <1>4, <1>5, <1>6, <3>1, <3>2
    <2> QED
      BY <1>7, <2>1, <2>2, <2>3, <2>4, <2>5
  <1>14. \A c \in 1..b - 1 : FindClosestDiscretized(FindClosestDiscretized(v, b), c) = FindClosestDiscretized(v, b)
    <2> TAKE c \in 1..b - 1
    <2>1. PICK r : r = Cut(v, d)
      OBVIOUS
    <2>2. r \in 0..255
      BY <1>11, <2>1 DEF Fit
    <2>3. c \in 1..b
      BY <1>6
    <2>4. FindClosestDiscretized(r, c) = Cut(r, 2^c)
      <3>1. PICK e : e = 2^c
        OBVIOUS
      <3>2. e \in {2, 4, 8, 16, 32}
        BY <1>10, <2>3, <3>1
      <3> QED
        BY <1>2, <2>2, <3>1, <3>2
    <2> QED
      BY <1>12, <1>13, <2>1, <2>4
  <1>15. FindClosestDiscretized(v, b) \in Byte /\ Absolute(FindClosestDiscretized(v, b) - v) <= h
    BY <1>11, <1>12, <1>9 DEF Byte, Fit
  <1> QED
    BY <1>8, <1>14, <1>15

LEMMA RoundedPixel ==
  ASSUME NEW a \in Pixel, NEW b \in 1..MaxLimitBits
  PROVE  /\ ClosestDiscretizedArgb(a, b) \in Pixel
         /\ \A k \in Channels : Absolute(ClosestDiscretizedArgb(a, b)[k] - a[k]) <= 2^(b - 1)
         /\ \A c \in 1..b - 1 : ClosestDiscretizedArgb(ClosestDiscretizedArgb(a, b), c) = ClosestDiscretizedArgb(a, b)
  <1>1. PICK r : r = ClosestDiscretizedArgb(a, b)
    OBVIOUS
  <1>2. \A k \in Channels : a[k] \in Byte
    BY PixelParts DEF Channels
  <1>3. r = [k \in Channels |-> FindClosestDiscretized(a[k], b)]
    BY <1>1, Zenon DEF ClosestDiscretizedArgb
  <1>4. \A k \in Channels : r[k] = FindClosestDiscretized(a[k], b)
    BY <1>3
  <1>5. r \in Pixel
    <2>1. r[1] \in Byte /\ r[2] \in Byte /\ r[3] \in Byte /\ r[4] \in Byte
      BY <1>2, <1>4, RoundedByte DEF Channels
    <2>2. r = <<r[1], r[2], r[3], r[4]>>
      BY <1>3 DEF Channels
    <2> QED
      BY <2>1, <2>2, PixelParts
  <1>6. \A k \in Channels : Absolute(r[k] - a[k]) <= 2^(b - 1)
    BY <1>2, <1>4, RoundedByte
  <1>7. ASSUME NEW c \in 1..b - 1 PROVE ClosestDiscretizedArgb(r, c) = r
    <2>1. \A k \in Channels : FindClosestDiscretized(r[k], c) = r[k]
      BY <1>2, <1>4, RoundedByte
    <2>2. ClosestDiscretizedArgb(r, c) = [k \in Channels |-> FindClosestDiscretized(r[k], c)]
      BY Zenon DEF ClosestDiscretizedArgb
    <2>3. r = [k \in Channels |-> r[k]]
      BY <1>3
    <2> QED
      BY <2>1, <2>2, <2>3
  <1> QED
    BY <1>1, <1>5, <1>6, <1>7

LEMMA Begin_Kept ==
  ASSUME Basic, Begin
  PROVE  Kept' /\ Fades'
  <1>1. TypeInv
    BY DEF Basic
  <1>2. queue # <<>> /\ job' = Head(queue) /\ IsSequence(queue)
    BY <1>1 DEF Begin, TypeInv
  <1>3. IsPicture(job')
    BY <1>1, <1>2, Tailed DEF TypeInv
  <1> DEFINE n == job'.width * job'.height
             to == IF Cap(mem[argb]) >= n THEN argb ELSE Free
  <1>4. /\ argb' = to
        /\ mem' = [mem EXCEPT ![to] = Overwrite(Reused(mem[argb], n), n, job'.argb)]
        /\ stage' = (IF IsNearLossless' THEN "near" ELSE "transform") /\ near' = (IF IsNearLossless' THEN LimitBits' ELSE 0)
        /\ currentWidth' = job'.width /\ transforms' = <<>> /\ y' = 0
    BY DEF Begin
  <1>5. n \in Nat /\ job'.argb \in [0..n - 1 -> Pixel] /\ Size' = n /\ Spread(0)' = n /\ Count' = n
        /\ Width' = job'.width /\ Height' = job'.height /\ Width' \in Nat \ {0} /\ Height' \in Nat \ {0}
    BY <1>3, <1>4 DEF IsPicture, Size, Spread, Count, Width, Height
  <1> HIDE DEF n
  <1>6. Holds(mem'[argb'], n, job'.argb)
    <2>1. to \in 1..3 /\ argb \in 1..3 /\ IsArray(mem[argb])
      BY <1>1, FreeOther DEF TypeInv
    <2> HIDE DEF to
    <2>2. IsArray(Reused(mem[argb], n)) /\ Cap(Reused(mem[argb], n)) >= n
      BY <1>5, <2>1, ReusedArray
    <2>3. PICK a : a = Overwrite(Reused(mem[argb], n), n, job'.argb)
      OBVIOUS
    <2>4. IsArray(a) /\ Cap(a) >= n /\ \A i \in 0..n - 1 : a[i] = job'.argb[i]
      BY <1>5, <2>2, <2>3, OverwrittenArray
    <2>5. mem'[to] = a
      BY <1>1, <1>4, <2>1, <2>3, <2>4, MemPut
    <2> QED
      BY <1>4, <2>4, <2>5 DEF Holds
  <1>7. ASSUME ~IsNearLossless' PROVE Kept'
    <2>1. PICK p : p = [k \in 0..0 |-> job'.argb]
      OBVIOUS
    <2>2. p[0] = job'.argb
      BY <2>1
    <2>3. Len(transforms') = 0
      BY <1>4
    <2>4. Chain(p)'
      <3>1. Original(p[0])'
        BY <1>7, <2>2 DEF Original
      <3>2. \A k \in 0..0 : p[k] \in [0..Spread(k)' - 1 -> Pixel]
        BY <1>5, <2>2
      <3>3. \A k \in 1..Len(transforms') : FALSE
        BY <2>3
      <3> QED
        BY <2>3, <3>1, <3>2, <3>3 DEF Chain
    <2>5. Encoding(p[Len(transforms)])'
      BY <1>4, <1>5, <1>6, <1>7, <2>2, <2>3 DEF Encoding
    <2>6. Reading(p[Len(transforms)])' /\ Undoing(p)' /\ Shown(p[0])'
      BY <1>4, <1>7 DEF Reading, Undoing, Shown
    <2> QED
      BY <2>4, <2>5, <2>6 DEF Kept, Explains
  <1>8. ASSUME IsNearLossless' PROVE Kept'
    BY <1>4, <1>8 DEF Kept
  <1>9. ASSUME IsNearLossless' PROVE Fades'
    <2>1. near' = LimitBits' /\ LimitBits' \in Int /\ LimitBits' > 0
      <3>1. LimitBits' \in Int
        <4>1. job'.near \in Nat
          BY <1>3 DEF IsPicture
        <4>2. NearLosslessBits(job'.near) \in Int /\ MaxLimitBits \in Int
          BY <4>1 DEF NearLosslessBits, MaxLimitBits
        <4>3. LimitBits' = Min({NearLosslessBits(job'.near), MaxLimitBits})
          BY DEF LimitBits
        <4> QED
          BY <4>2, <4>3, MinTwo
      <3> QED
        BY <1>4, <1>9, <3>1 DEF IsNearLossless
    <2>2. \A i \in 0..n - 1 : ~(i < y' * Width')
      BY <1>4, <1>5
    <2> QED
      BY <1>4, <1>5, <1>6, <2>1, <2>2 DEF Fades, Holds
  <1>10. ASSUME ~IsNearLossless' PROVE Fades'
    BY <1>4, <1>10 DEF Fades
  <1> QED
    BY <1>7, <1>8, <1>9, <1>10

-----------------------------------------------------------------------------
(* Near-lossless passes *)

LEMMA Limit ==
  ASSUME IsPicture(job)
  PROVE  LimitBits \in Int /\ LimitBits <= MaxLimitBits
  <1>1. job.near \in Nat
    BY DEF IsPicture
  <1>2. NearLosslessBits(job.near) \in Int /\ MaxLimitBits \in Int
    BY <1>1 DEF NearLosslessBits, MaxLimitBits
  <1> QED
    BY <1>2, MinTwo DEF LimitBits

\* What a pass does to a pixel keeps it rounded once: a value an earlier and
\* coarser pass has rounded is a value of the finer step.
LEMMA RoundedOnce ==
  ASSUME IsPicture(job), NEW i \in 0..Size - 1, NEW b \in 1..LimitBits,
         NEW s, s = job.argb[i] \/ Rounded(s, i, b + 1)
  PROVE  Rounded(s, i, b) /\ (Inside(i) => Rounded(ClosestDiscretizedArgb(s, b), i, b))
  <1>1. LimitBits \in Int /\ LimitBits <= MaxLimitBits /\ MaxLimitBits = 5
    BY Limit DEF MaxLimitBits
  <1>2. job.argb[i] \in Pixel
    BY ColorsFacts
  <1>3. CASE s = job.argb[i]
    <2>1. b \in b..LimitBits
      BY <1>1
    <2> QED
      BY <1>3, <2>1 DEF Rounded
  <1>4. CASE s # job.argb[i]
    <2>1. PICK c \in b + 1..LimitBits : s = ClosestDiscretizedArgb(job.argb[i], c)
      BY <1>4 DEF Rounded
    <2>2. Inside(i) /\ c \in b..LimitBits /\ c \in 1..MaxLimitBits /\ b \in 1..c - 1
      BY <1>1, <1>4, <2>1 DEF Rounded
    <2>3. ClosestDiscretizedArgb(s, b) = s
      BY <1>2, <2>1, <2>2, RoundedPixel
    <2> QED
      BY <2>1, <2>2, <2>3 DEF Rounded
  <1> QED
    BY <1>3, <1>4


LEMMA NearRow_Fades ==
  ASSUME Basic, Fades, NearRow
  PROVE  Fades'
  <1>1. TypeInv /\ stage = "near"
    BY DEF Basic, NearRow
  <1>2. IsPicture(job)
    BY <1>1 DEF TypeInv
  <1> DEFINE from == IF near = LimitBits THEN argb ELSE Free
             rows == IF y = 0 THEN <<None, Row(mem[from], Width, 0), Row(mem[from], Width, 1)>> ELSE scratch
             inner == y \in 1..Height - 2
             below == IF inner THEN Row(mem[from], Width, y + 1) ELSE rows[3]
             new == [x \in 0..Width - 1 |-> IF inner THEN NearPixel(rows[1], rows[2], below, x, near)
                                            ELSE mem[from][y * Width + x]]
             into == IF near = LimitBits /\ y = 0 THEN Zeros(Width * Height) ELSE mem[Free]
             out == [i \in DOMAIN into |-> IF InRow(i, Width, y) THEN new[i % Width] ELSE into[i]]
  <1>3. /\ mem' = [mem EXCEPT ![Free] = out] /\ y < Height /\ y' = y + 1
        /\ scratch' = <<rows[2], below, rows[1]>>
        /\ stage' = stage /\ job' = job /\ argb' = argb /\ residuals' = residuals /\ near' = near
    BY DEF NearRow
  <1>4. /\ Width' = Width /\ Height' = Height /\ Size' = Size /\ LimitBits' = LimitBits /\ Free' = Free
        /\ \A s, i, b : Rounded(s, i, b)' <=> Rounded(s, i, b)
    BY <1>3, SameJob DEF Free, Rounded, Inside
  <1>5. /\ near \in 1..LimitBits /\ y \in 0..Height
        /\ Cap(mem[argb]) >= Size /\ \A i \in 0..Size - 1 : mem[argb][i] = job.argb[i]
        /\ near < LimitBits \/ y > 0 => Cap(mem[Free]) >= Size
        /\ \A i \in 0..Size - 1 :
              /\ i < y * Width => Rounded(mem[Free][i], i, near)
              /\ near < LimitBits /\ i >= y * Width => Rounded(mem[Free][i], i, near + 1)
        /\ y \in 1..Height - 2 => scratch[2] = Row(mem[from], Width, y)
    BY <1>1 DEF Fades
  <1>6. Width \in Nat \ {0} /\ Height \in Nat \ {0} /\ Size \in Nat \ {0} /\ Size = Width * Height
    BY <1>2, JobFacts DEF Size
  <1>7. y \in 0..Height - 1 /\ LimitBits \in Int
    BY <1>2, <1>3, <1>5, <1>6, Limit
  <1>8. Free \in 1..3 /\ Free # argb /\ argb \in 1..3 /\ \A k \in 1..3 : IsArray(mem[k])
    BY <1>1, FreeOther DEF TypeInv
  <1>9. IsArray(into) /\ Cap(into) >= Size
    <2>1. CASE near = LimitBits /\ y = 0
      <3>1. DOMAIN Zeros(Width * Height) = 0..Size - 1
        BY <1>6 DEF Zeros
      <3> QED
        BY <1>6, <2>1, <3>1, ArrayOf
    <2>2. CASE ~(near = LimitBits /\ y = 0)
      <3>1. near < LimitBits \/ y > 0
        BY <1>5, <1>7, <2>2
      <3> QED
        BY <1>5, <1>8, <2>2, <3>1
    <2> QED
      BY <2>1, <2>2
  <1> HIDE DEF new, into, below, rows, from, inner
  <1>10. IsArray(out) /\ Cap(out) = Cap(into) /\ \A i \in 0..Size - 1 :
            out[i] = IF InRow(i, Width, y) THEN new[i % Width] ELSE into[i]
    <2>1. IsArray(out) /\ Cap(out) = Cap(into)
      BY <1>9, SameDomain
    <2>2. \A i \in 0..Size - 1 : i \in DOMAIN into
      BY <1>6, <1>9 DEF IsArray
    <2> QED
      BY <2>1, <2>2
  <1> HIDE DEF out
  <1>11. mem'[Free] = out /\ mem'[argb] = mem[argb]
    BY <1>1, <1>3, <1>8, <1>10, MemPut
  <1>12. ASSUME NEW i \in 0..Size - 1
         PROVE  /\ mem[from][i] = job.argb[i] \/ (i >= y * Width => Rounded(mem[from][i], i, near + 1))
                /\ ~(near = LimitBits /\ y = 0) => into[i] = mem[Free][i]
    <2>1. near = LimitBits \/ near < LimitBits
      BY <1>5, <1>7
    <2> QED
      BY <1>5, <2>1 DEF from, into
  <1>13. ASSUME NEW x \in 0..Width - 1
         PROVE  Rounded(new[x], y * Width + x, near)
    <2>1. PICK i : i = y * Width + x
      OBVIOUS
    <2>2. i \in 0..Size - 1 /\ i \div Width = y /\ i % Width = x /\ i >= y * Width
      <3>1. y * Width \in Nat
        BY <1>6, <1>7, Grows
      <3> QED
        BY <1>2, <1>7, <2>1, <3>1, InPicture
    <2>3. PICK s : s = mem[from][i]
      OBVIOUS
    <2>4. s = job.argb[i] \/ Rounded(s, i, near + 1)
      BY <1>12, <2>2, <2>3
    <2>5. Rounded(s, i, near) /\ (Inside(i) => Rounded(ClosestDiscretizedArgb(s, near), i, near))
      BY <1>2, <1>5, <2>2, <2>4, RoundedOnce
    <2>6. CASE ~inner
      <3>1. new[x] = s
        BY <2>1, <2>3, <2>6 DEF new
      <3> QED
        BY <2>1, <2>5, <3>1
    <2>7. CASE inner
      <3>1. y \in 1..Height - 2 /\ y # 0
        BY <2>7 DEF inner
      <3>2. rows = scratch
        BY <3>1 DEF rows
      <3>3. rows[2] = Row(mem[from], Width, y)
        BY <1>5, <3>1, <3>2 DEF from
      <3>4. rows[2][x] = s
        BY <2>1, <2>3, <3>3 DEF Row
      <3>5. DOMAIN rows[2] = 0..Width - 1
        BY <3>3 DEF Row
      <3>6. Cardinality(DOMAIN rows[2]) = Width
        BY <1>6, <3>5, ArrayOf DEF Cap
      <3>7. new[x] = NearPixel(rows[1], rows[2], below, x, near)
        BY <2>7 DEF new
      <3>8. new[x] = s \/ (new[x] = ClosestDiscretizedArgb(s, near) /\ x \notin {0, Width - 1})
        <4>1. PICK e : e = Cardinality(DOMAIN rows[2]) - 1
          OBVIOUS
        <4>2. \/ NearPixel(rows[1], rows[2], below, x, near) = rows[2][x]
              \/ /\ NearPixel(rows[1], rows[2], below, x, near) = ClosestDiscretizedArgb(rows[2][x], near)
                 /\ x \notin {0, e}
          BY <4>1, Zenon DEF NearPixel
        <4>3. e = Width - 1
          BY <3>6, <4>1
        <4> QED
          BY <3>4, <3>7, <4>2, <4>3
      <3>9. x \notin {0, Width - 1} => Inside(i)
        BY <1>6, <2>2, <3>1 DEF Inside
      <3> QED
        BY <2>1, <2>5, <3>8, <3>9
    <2> QED
      BY <2>6, <2>7
  <1>14. ASSUME NEW i \in 0..Size - 1
         PROVE  /\ i < (y + 1) * Width => Rounded(out[i], i, near)
                /\ near < LimitBits /\ i >= (y + 1) * Width => Rounded(out[i], i, near + 1)
    <2>1. i \in 0..Height * Width - 1
      BY <1>6
    <2>2. /\ i \div Width \in 0..Height - 1 /\ i % Width \in 0..Width - 1 /\ i = (i \div Width) * Width + (i % Width)
      BY <1>6, <2>1, InCell
    <2>3. PICK r : r = i \div Width
      OBVIOUS
    <2>4. r \in Nat /\ i % Width \in 0..Width - 1 /\ i = r * Width + (i % Width)
      BY <2>2, <2>3
    <2>5. r < y => i < y * Width /\ i < (y + 1) * Width
      <3>1. r < y => r * Width + Width <= y * Width
        BY <1>6, <1>7, <2>4, Apart
      <3>2. r < y => r * Width + Width <= (y + 1) * Width
        <4>1. y + 1 \in Nat /\ (r < y => r < y + 1)
          BY <1>7, <2>4
        <4> QED
          BY <1>6, <2>4, <4>1, Apart
      <3>3. r * Width \in Nat /\ y * Width \in Nat /\ (y + 1) * Width \in Nat
        BY <1>6, <1>7, <2>4
      <3> QED
        BY <1>6, <2>4, <3>1, <3>2, <3>3
    <2>6. y < r => i >= (y + 1) * Width
      <3>1. y < r => (y + 1) * Width <= r * Width /\ (y + 1) * Width \in Nat /\ r * Width \in Nat
        <4>1. y + 1 \in Nat /\ (y < r => y + 1 <= r) /\ Width \in Nat
          BY <1>6, <1>7, <2>4
        <4> QED
          BY <2>4, <4>1, Grows
      <3> QED
        BY <1>6, <2>4, <3>1
    <2>7. r = y => i < (y + 1) * Width /\ i >= y * Width
      <3>1. y * Width \in Nat /\ (y + 1) * Width = y * Width + Width
        BY <1>6, <1>7
      <3> QED
        BY <1>6, <2>4, <3>1
    <2>8. CASE r = y
      <3>1. out[i] = new[i % Width]
        BY <1>10, <2>3, <2>8 DEF InRow
      <3>2. (y + 1) * Width \in Int /\ i \in Int
        BY <1>6, <1>7
      <3> QED
        BY <1>13, <2>4, <2>7, <2>8, <3>1, <3>2
    <2>9. CASE r < y
      <3>1. out[i] = into[i]
        BY <1>7, <1>10, <2>3, <2>4, <2>9 DEF InRow
      <3>2. y # 0
        BY <2>4, <2>9
      <3>3. into[i] = mem[Free][i]
        BY <1>12, <3>2
      <3>4. (y + 1) * Width \in Int /\ i \in Int
        BY <1>6, <1>7
      <3> QED
        BY <1>5, <2>5, <2>9, <3>1, <3>3, <3>4
    <2>10. CASE y < r
      <3>1. out[i] = into[i]
        BY <1>7, <1>10, <2>3, <2>4, <2>10 DEF InRow
      <3>2. near < LimitBits => into[i] = mem[Free][i]
        BY <1>12, <1>5, <1>7
      <3>3. (y + 1) * Width \in Int /\ y * Width \in Int /\ i \in Int /\ (y + 1) * Width >= y * Width
        BY <1>6, <1>7
      <3> QED
        BY <1>5, <2>6, <2>10, <3>1, <3>2, <3>3
    <2> QED
      BY <1>7, <2>4, <2>8, <2>9, <2>10
  <1>15. ASSUME y + 1 \in 1..Height - 2
         PROVE  scratch'[2] = Row(mem'[from], Width, y + 1)
    <2>1. scratch'[2] = Row(mem[from], Width, y + 1)
      <3>1. scratch'[2] = below
        BY <1>3
      <3>2. CASE y = 0
        <4>1. ~inner /\ rows = <<None, Row(mem[from], Width, 0), Row(mem[from], Width, 1)>>
          BY <3>2 DEF inner, rows
        <4>2. below = rows[3] /\ y + 1 = 1
          BY <3>2, <4>1 DEF below
        <4> QED
          BY <3>1, <4>1, <4>2
      <3>3. CASE y # 0
        <4>1. inner
          BY <1>6, <1>7, <1>15, <3>3 DEF inner
        <4> QED
          BY <3>1, <4>1 DEF below
      <3> QED
        BY <3>2, <3>3
    <2>2. CASE near = LimitBits
      BY <1>11, <2>1, <2>2 DEF from
    <2>3. CASE near # LimitBits
      <3>1. from = Free
        BY <2>3 DEF from
      <3>2. ASSUME NEW x \in 0..Width - 1 PROVE mem'[from][(y + 1) * Width + x] = mem[from][(y + 1) * Width + x]
        <4>1. PICK i : i = (y + 1) * Width + x
          OBVIOUS
        <4>2. i \in 0..Size - 1 /\ i \div Width = y + 1
          <5>1. y + 1 \in 0..Height - 1
            BY <1>6, <1>7, <1>15
          <5> QED
            BY <1>2, <4>1, <5>1, InPicture
        <4>3. out[i] = into[i]
          BY <1>7, <1>10, <4>2 DEF InRow
        <4> QED
          BY <1>11, <1>12, <2>3, <3>1, <4>1, <4>2, <4>3
      <3> QED
        BY <2>1, <3>2 DEF Row
    <2> QED
      BY <2>2, <2>3
  <1>16. y' \in 0..Height' /\ near' \in 1..LimitBits' /\ Cap(mem'[Free']) >= Size' /\ Cap(mem'[argb']) >= Size'
    BY <1>3, <1>4, <1>5, <1>6, <1>7, <1>9, <1>10, <1>11 DEF IsArray
  <1>17. \A i \in 0..Size' - 1 : mem'[argb'][i] = job'.argb[i]
    BY <1>3, <1>4, <1>5, <1>11
  <1>18. (IF near = LimitBits THEN argb ELSE Free)' = from
    BY <1>3, <1>4 DEF from
  <1> QED
    BY <1>3, <1>4, <1>11, <1>14, <1>15, <1>16, <1>17, <1>18 DEF Fades

LEMMA NextNearPass_Kept ==
  ASSUME Basic, Fades, NextNearPass
  PROVE  Fades' /\ Kept'
  <1>1. TypeInv /\ Line /\ stage = "near" /\ y = Height
    BY DEF Basic, NextNearPass
  <1>2. IsPicture(job) /\ Len(transforms) = 0 /\ IsNearLossless
    BY <1>1 DEF TypeInv, Line
  <1>3. /\ y' = 0 /\ near' = near - 1
        /\ job' = job /\ argb' = argb /\ residuals' = residuals /\ transforms' = transforms /\ currentWidth' = currentWidth
    BY DEF NextNearPass
  <1>4. /\ Width' = Width /\ Height' = Height /\ Size' = Size /\ LimitBits' = LimitBits /\ Free' = Free
        /\ Count' = Count /\ (IsNearLossless' <=> IsNearLossless)
        /\ \A s, i, b : Rounded(s, i, b)' <=> Rounded(s, i, b)
    BY <1>3, SameJob DEF Free, Rounded, Inside, Count
  <1>5. near \in 1..LimitBits /\ LimitBits \in Int /\ LimitBits <= 5
    BY <1>1, <1>2, Limit DEF Fades, MaxLimitBits
  <1>6. Width \in Nat \ {0} /\ Height \in Nat \ {0} /\ Size \in Nat \ {0} /\ y * Width = Size
    BY <1>1, <1>2, JobFacts DEF Size
  <1>7. Cap(mem[argb]) >= Size /\ \A i \in 0..Size - 1 : mem[argb][i] = job.argb[i]
    BY <1>1 DEF Fades
  <1>8. Cap(mem[Free]) >= Size
    BY <1>1, <1>6 DEF Fades
  <1>9. \A i \in 0..Size - 1 : Rounded(mem[Free][i], i, near)
    <2>1. \A i \in 0..Size - 1 : i < y * Width
      BY <1>6
    <2> QED
      BY <1>1, <2>1 DEF Fades
  <1>10. CASE near > 1
    <2>1. stage' = "near" /\ mem' = mem
      BY <1>1, <1>10 DEF NextNearPass
    <2>2. near - 1 \in 1..LimitBits /\ near - 1 < LimitBits /\ near - 1 + 1 = near
      BY <1>5, <1>10
    <2>3. \A i \in 0..Size - 1 : ~(i < 0 * Width)
      BY <1>6
    <2>4. 0 \in 0..Height /\ 0 \notin 1..Height - 2
      BY <1>6
    <2>5. Fades'
      BY <1>3, <1>4, <1>7, <1>8, <1>9, <2>1, <2>2, <2>3, <2>4 DEF Fades
    <2> QED
      BY <2>1, <2>5, Idle_Kept
  <1>11. CASE ~(near > 1)
    <2>1. /\ stage' = "transform" /\ near = 1
          /\ mem' = [mem EXCEPT ![argb] = Overwrite(mem[argb], Width * Height, mem[Free])]
      BY <1>5, <1>11 DEF NextNearPass
    <2>2. PICK a : a = Overwrite(mem[argb], Width * Height, mem[Free])
      OBVIOUS
    <2>3. IsArray(a) /\ Cap(a) >= Size /\ \A i \in 0..Size - 1 : a[i] = mem[Free][i]
      <3>1. IsArray(mem[argb]) /\ Width * Height = Size
        BY <1>1 DEF TypeInv, Size
      <3> QED
        BY <1>6, <1>7, <2>2, <3>1, OverwrittenArray
    <2>4. mem'[argb'] = a
      BY <1>1, <1>3, <2>1, <2>2, <2>3, MemPut DEF TypeInv
    <2>5. PICK p : p = [k \in 0..0 |-> [i \in 0..Size - 1 |-> mem[Free][i]]]
      OBVIOUS
    <2>6. DOMAIN p[0] = 0..Size - 1 /\ p[0] = [i \in 0..Size - 1 |-> p[0][i]] /\ \A i \in 0..Size - 1 : p[0][i] = mem[Free][i]
      BY <2>5
    <2>7. Original(p[0])'
      BY <1>2, <1>4, <1>9, <2>1, <2>6 DEF Original
    <2>8. \A i \in 0..Size - 1 : p[0][i] \in Pixel
      <3> TAKE i \in 0..Size - 1
      <3>1. job.argb[i] \in Pixel
        BY <1>2, ColorsFacts
      <3>2. Rounded(p[0][i], i, 1)
        BY <1>9, <2>1, <2>6
      <3>3. \A b \in 1..LimitBits : ClosestDiscretizedArgb(job.argb[i], b) \in Pixel
        <4>1. \A b \in 1..LimitBits : b \in 1..MaxLimitBits
          BY <1>5 DEF MaxLimitBits
        <4> QED
          BY <3>1, <4>1, RoundedPixel
      <3> QED
        BY <3>1, <3>2, <3>3 DEF Rounded
    <2>9. Len(transforms') = 0 /\ Spread(0)' = Size /\ Count' = Size
      <3>1. currentWidth = Width
        BY <1>1, <1>2 DEF Line, Listed
      <3> QED
        BY <1>2, <1>3, <1>4, <3>1 DEF Spread, Count, Size
    <2>10. Chain(p)'
      <3>1. \A k \in 0..0 : p[k] \in [0..Spread(k)' - 1 -> Pixel]
        BY <2>6, <2>8, <2>9
      <3>2. \A k \in 1..Len(transforms') : FALSE
        BY <2>9
      <3> QED
        BY <2>7, <2>9, <3>1, <3>2 DEF Chain
    <2>11. Encoding(p[Len(transforms)])'
      BY <2>1, <2>3, <2>4, <2>6, <2>9 DEF Encoding, Holds
    <2>12. Reading(p[Len(transforms)])' /\ Undoing(p)' /\ Shown(p[0])'
      BY <2>1 DEF Reading, Undoing, Shown
    <2>13. Kept'
      BY <2>10, <2>11, <2>12 DEF Kept, Explains
    <2> QED
      BY <2>1, <2>13 DEF Fades
  <1> QED
    BY <1>10, <1>11

-----------------------------------------------------------------------------
(* Every step *)

\* Only Begin enters the near-lossless passes.
LEMMA Elsewhere_Fades ==
  ASSUME Next, ~Begin, ~NearRow, ~NextNearPass, ~Finished
  PROVE  Fades'
  <1> SUFFICES stage' # "near"
    BY DEF Fades
  <1>1. CASE SubtractGreen \/ ApplyPalette \/ EndColors \/ EndResiduals
    BY <1>1 DEF SubtractGreen, ApplyPalette, EndColors, EndResiduals, Applied
  <1>2. CASE StartTiles \/ StartResiduals \/ ResidualRow \/ Write
    BY <1>2 DEF StartTiles, StartResiduals, ResidualRow, Write
  <1>3. CASE ReadTransform \/ DecodePixels
    BY <1>3 DEF ReadTransform, DecodePixels
  <1>4. CASE AddGreenToBlueAndRed \/ PredictorInverse \/ ColorIndexInverse
    BY <1>4 DEF AddGreenToBlueAndRed, PredictorInverse, ColorIndexInverse, decoding, Undo
  <1>5. CASE \E w \in Procs : PickMode(w) \/ PickMultipliers(w) \/ ColorSpaceInverse(w) \/ ConvertRows(w)
    <2>1. PICK w \in Procs : PickMode(w) \/ PickMultipliers(w) \/ ColorSpaceInverse(w) \/ ConvertRows(w)
      BY <1>5
    <2> QED
      BY <2>1 DEF PickMode, PickMultipliers, ColorSpaceInverse, ConvertRows, NextTile, Handling, decoding, Undo
  <1>6. CASE Release
    BY <1>6 DEF Release
  <1> QED
    BY <1>1, <1>2, <1>3, <1>4, <1>5, <1>6 DEF Next

LEMMA Still_Fades ==
  ASSUME Fades, UNCHANGED vars
  PROVE  Fades'
  <1>1. /\ stage' = stage /\ job' = job /\ mem' = mem /\ argb' = argb /\ residuals' = residuals
        /\ near' = near /\ y' = y /\ scratch' = scratch
    BY DEF vars, encoder, encoding
  <1>2. /\ Width' = Width /\ Height' = Height /\ Size' = Size /\ LimitBits' = LimitBits /\ Free' = Free
        /\ \A s, i, b : Rounded(s, i, b)' <=> Rounded(s, i, b)
    BY <1>1, SameJob DEF Free, Rounded, Inside
  <1> QED
    BY <1>1, <1>2 DEF Fades

LEMMA Step_Kept == Basic /\ Fades /\ Kept /\ [Next]_vars => Fades' /\ Kept'
  <1> SUFFICES ASSUME Basic, Fades, Kept, [Next]_vars PROVE Fades' /\ Kept'
    OBVIOUS
  <1>1. CASE UNCHANGED vars
    BY <1>1, Still_Fades, Still_Kept
  <1>2. CASE Begin
    BY <1>2, Begin_Kept
  <1>3. CASE NearRow
    <2>1. stage' = "near"
      BY <1>3 DEF NearRow
    <2> QED
      BY <1>3, <2>1, NearRow_Fades, Idle_Kept
  <1>4. CASE NextNearPass
    BY <1>4, NextNearPass_Kept
  <1>5. CASE Finished
    BY <1>5, Still_Fades, Still_Kept DEF Finished
  <1>6. CASE Next /\ ~Begin /\ ~NearRow /\ ~NextNearPass /\ ~Finished
    <2>1. Fades'
      BY <1>6, Elsewhere_Fades
    <2>2. CASE SubtractGreen \/ ApplyPalette
      BY <2>1, <2>2, SubtractGreen_Kept, ApplyPalette_Kept
    <2>3. CASE StartTiles \/ EndColors \/ StartResiduals \/ ResidualRow \/ EndResiduals
      BY <2>1, <2>3, StartTiles_Kept, EndColors_Kept, StartResiduals_Kept, ResidualRow_Kept, EndResiduals_Kept
    <2>4. CASE Write \/ ReadTransform \/ DecodePixels
      BY <2>1, <2>4, Write_Kept, ReadTransform_Kept, DecodePixels_Kept
    <2>5. CASE \E w \in Procs : PickMode(w) \/ PickMultipliers(w) \/ ColorSpaceInverse(w) \/ ConvertRows(w)
      BY <2>1, <2>5, PickMode_Kept, PickMultipliers_Kept, ColorSpaceInverse_Kept, ConvertRows_Kept
    <2>6. CASE AddGreenToBlueAndRed \/ PredictorInverse \/ ColorIndexInverse
      BY <2>1, <2>6, AddGreenToBlueAndRed_Kept, PredictorInverse_Kept, ColorIndexInverse_Kept
    <2>7. CASE Release
      <3>1. stage' = "idle"
        BY <2>7 DEF Release
      <3> QED
        BY <2>1, <3>1, Idle_Kept
    <2> QED
      BY <1>6, <2>2, <2>3, <2>4, <2>5, <2>6, <2>7 DEF Next
  <1> QED
    BY <1>1, <1>2, <1>3, <1>4, <1>5, <1>6

LEMMA AlwaysKept == Spec => [](Basic /\ Fades /\ Kept)
  <1>1. Init => Fades /\ Kept
    BY DEF Init, Fades, Kept
  <1> QED
    BY <1>1, AlwaysBasic, Step_Kept, PTL DEF Spec

\* EncodeLossless, transformImage and DecodeImage: a picture comes back from
\* the decoder as it was given to the encoder, whatever its size and its
\* colours, whatever predictors and multipliers the encoder picks, however many
\* goroutines share the tiles and the rows and in whatever order they run, and
\* whatever the pooled arrays of the two sides hold from the pictures before.
THEOREM LosslessIsLossless == Spec => []DecodedIsSource
  <1>1. Basic /\ Kept => DecodedIsSource
    <2> SUFFICES ASSUME Basic, Kept, stage = "shown", ~IsNearLossless, ~PaletteAndSpatial PROVE image = job.argb
      BY DEF DecodedIsSource
    <2>1. PICK p : Explains(p)
      BY DEF Kept, Good
    <2> QED
      BY <2>1 DEF Explains, Chain, Original, Shown
  <1> QED
    BY <1>1, AlwaysKept, PTL

LEMMA ChannelType == \A p \in Pixel : \A k \in Channels : p[k] \in Int
  <1> TAKE p \in Pixel
  <1>1. p[1] \in Byte /\ p[2] \in Byte /\ p[3] \in Byte /\ p[4] \in Byte
    BY PixelParts
  <1> QED
    BY <1>1 DEF Channels, Byte

LEMMA FinerStep ==
  ASSUME NEW n \in 1..MaxLimitBits, NEW b \in 1..n
  PROVE  2^(b - 1) <= 2^(n - 1) /\ 2^(b - 1) \in Nat /\ 2^(n - 1) \in Nat
  <1>1. 2^0 = 1 /\ 2^1 = 2 /\ 2^2 = 4 /\ 2^3 = 8 /\ 2^4 = 16
    <2>1. /\ 2^1 = 2 * 2^0 /\ 2^2 = 2 * 2^1 /\ 2^3 = 2 * 2^2 /\ 2^4 = 2 * 2^3 /\ 2^0 = 1
      OBVIOUS
    <2> QED
      BY <2>1
  <1>2. PICK d, e : d = n - 1 /\ e = b - 1
    OBVIOUS
  <1>3. d \in 0..4 /\ e \in 0..4 /\ e <= d
    BY <1>2 DEF MaxLimitBits
  <1>4. 2^e <= 2^d /\ 2^e \in Nat /\ 2^d \in Nat
    <2>1. (d = 0 \/ d = 1 \/ d = 2 \/ d = 3 \/ d = 4) /\ (e = 0 \/ e = 1 \/ e = 2 \/ e = 3 \/ e = 4)
      BY <1>3
    <2>2. (2^d = 1 /\ d = 0) \/ (2^d = 2 /\ d = 1) \/ (2^d = 4 /\ d = 2) \/ (2^d = 8 /\ d = 3) \/ (2^d = 16 /\ d = 4)
      BY <1>1, <2>1
    <2>3. (2^e = 1 /\ e = 0) \/ (2^e = 2 /\ e = 1) \/ (2^e = 4 /\ e = 2) \/ (2^e = 8 /\ e = 3) \/ (2^e = 16 /\ e = 4)
      BY <1>1, <2>1
    <2>4. PICK u, v : u = 2^d /\ v = 2^e
      OBVIOUS
    <2> QED
      BY <1>3, <2>2, <2>3, <2>4
  <1> QED
    BY <1>2, <1>4

\* ApplyNearLossless, however many passes it makes: once the decoder shows the
\* picture no channel is off by more than half of the coarsest step, although
\* each pass reads what the one before has rounded, and the border of the
\* picture is as it was.
THEOREM NearLosslessIsClose == Spec => []NearIsClose
  <1>1. Basic /\ Kept => NearIsClose
    <2> SUFFICES ASSUME Basic, Kept, stage = "shown", IsNearLossless, ~UsePalette, NEW i \in DOMAIN image
                 PROVE  /\ \A k \in Channels : Absolute(image[i][k] - job.argb[i][k]) <= 2^(LimitBits - 1)
                        /\ i \div Width \in {0, Height - 1} \/ i % Width \in {0, Width - 1} => image[i] = job.argb[i]
      BY DEF NearIsClose
    <2>1. PICK p : Explains(p)
      BY DEF Kept, Good, PaletteAndSpatial
    <2>2. IsPicture(job) /\ IsSequence(transforms)
      BY DEF Basic, TypeInv, Line
    <2>3. image = p[0] /\ p[0] \in [0..Size - 1 -> Pixel] /\ \A j \in 0..Size - 1 : Rounded(p[0][j], j, 1)
      <3>1. 0 \in 0..Len(transforms)
        BY <2>2 DEF IsSequence
      <3>2. Spread(0) = Size
        BY DEF Spread
      <3> QED
        BY <2>1, <3>1, <3>2 DEF Explains, Chain, Original, Shown
    <2>4. i \in 0..Size - 1 /\ Rounded(image[i], i, 1)
      BY <2>3
    <2>5. job.argb[i] \in Pixel /\ Width \in Nat /\ Height \in Nat
      BY <2>2, <2>4, ColorsFacts, JobFacts
    <2>6. LimitBits \in 1..MaxLimitBits
      <3>1. LimitBits > 0
        BY DEF IsNearLossless
      <3> QED
        BY <2>2, <3>1, Limit DEF MaxLimitBits
    <2>7. CASE image[i] = job.argb[i]
      <3>1. \A k \in Channels : Absolute(image[i][k] - job.argb[i][k]) = 0
        <4>1. \A k \in Channels : job.argb[i][k] \in Int
          BY <2>5, ChannelType
        <4> QED
          BY <2>7, <4>1 DEF Absolute
      <3>2. PICK e : e = 2^(LimitBits - 1)
        OBVIOUS
      <3>3. e \in Nat
        <4>1. LimitBits \in 1..LimitBits
          BY <2>6
        <4> QED
          BY <2>6, <3>2, <4>1, FinerStep
      <3>4. \A k \in Channels : Absolute(image[i][k] - job.argb[i][k]) <= e
        BY <3>1, <3>3
      <3> QED
        BY <2>7, <3>2, <3>4
    <2>8. CASE image[i] # job.argb[i]
      <3>1. PICK b \in 1..LimitBits : image[i] = ClosestDiscretizedArgb(job.argb[i], b)
        BY <2>4, <2>8 DEF Rounded
      <3>2. Inside(i)
        BY <2>4, <2>8 DEF Rounded
      <3>3. b \in 1..MaxLimitBits
        BY <2>6, <3>1 DEF MaxLimitBits
      <3>4. PICK d, e : d = 2^(b - 1) /\ e = 2^(LimitBits - 1)
        OBVIOUS
      <3>5. d \in Nat /\ e \in Nat /\ d <= e
        BY <2>6, <3>4, FinerStep
      <3>6. \A k \in Channels : Absolute(image[i][k] - job.argb[i][k]) <= d
        BY <2>5, <3>1, <3>3, <3>4, RoundedPixel
      <3>7. \A k \in Channels : Absolute(image[i][k] - job.argb[i][k]) \in Int
        <4>1. \A k \in Channels : job.argb[i][k] \in Int /\ image[i][k] \in Int
          <5>1. image[i] \in Pixel
            BY <2>3, <2>4
          <5> QED
            BY <2>5, <5>1, ChannelType
        <4> QED
          BY <4>1 DEF Absolute
      <3>8. \A k \in Channels : Absolute(image[i][k] - job.argb[i][k]) <= e
        BY <3>5, <3>6, <3>7
      <3>9. ~(i \div Width \in {0, Height - 1} \/ i % Width \in {0, Width - 1})
        BY <2>5, <3>2 DEF Inside
      <3> QED
        BY <3>4, <3>8, <3>9
    <2> QED
      BY <2>7, <2>8
  <1> QED
    BY <1>1, AlwaysKept, PTL
=============================================================================
