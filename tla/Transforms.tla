------------------------------ MODULE Transforms ------------------------------
(***************************************************************************)
(* The transforms of a lossless picture, there and back.  A pooled encoder  *)
(* works in two arrays that one encode leaves to the next, and that may be  *)
(* one and the same; a pooled decoder undoes the transforms from the array  *)
(* of coded pixels into a second one, and from then on in place.  Rows of   *)
(* tiles, and rows of pixels, are shared among workers.                     *)
(***************************************************************************)
EXTENDS PixelOps, WorkShares

CONSTANTS Jobs,               \* the pictures of one process, in order
          MaxProcs,           \* GOMAXPROCS
          MaxPaletteSize,     \* 256
          PackLimits,         \* 2, 4, 16: the most colours of 1, 2 and 4 bits
          ParallelTiles,      \* 16: fewer tiles are not shared
          ParallelPixels,     \* 100000: fewer pixels are not shared
          MinNearLossless,    \* 64
          CacheRows           \* 16: rows the decoder's first array is longer

\* A picture with the options of its encoder, and what the searches may find.
IsPicture(j) ==
    /\ j.width \in Nat \ {0} /\ j.height \in Nat \ {0}
    /\ j.argb \in [0..j.width * j.height - 1 -> Pixel]
    /\ j.quality \in Nat /\ j.method \in Nat /\ j.near \in Nat
    /\ \A m \in j.multipliers : m[1] \in -128..127 /\ m[2] \in -128..127 /\ m[3] \in -128..127

ASSUME TransformsAssumption ==
    /\ MaxProcs \in Nat \ {0} /\ CacheRows \in Nat
    /\ MaxPaletteSize \in 0..256
    /\ PackLimits[1] \in 0..2 /\ PackLimits[2] \in 0..4 /\ PackLimits[3] \in 0..16
    /\ \A q \in Jobs : q \in Seq(Range(q)) /\ \A j \in Range(q) : IsPicture(j)

VARIABLES queue, job, stage,
          mem, argb, residuals, todo, currentWidth, transforms,    \* encoder
          y, scratch, near, at, data, visits,
          stream, pixels, transformBuf, read, xsize, transformWidth,  \* decoder
          next, inPlace, srcOff, dstOff, shared, image

encoder == <<mem, argb, residuals, todo, currentWidth, transforms>>
encoding == <<y, scratch, near, at, data, visits>>
reading == <<stream, pixels, transformBuf, read, xsize, transformWidth>>
undoing == <<next, inPlace, srcOff, dstOff, shared, image>>
vars == <<queue, job, stage, encoder, encoding, reading, undoing>>

Procs == 0..MaxProcs - 1
None == [i \in {} |-> 0]
Cap(a) == Cardinality(DOMAIN a)
Zeros(n) == [i \in 0..n - 1 |-> Zero]
\* The first n of an array of at least as many are written.
Overwrite(a, n, f) == [i \in DOMAIN a |-> IF i < n THEN f[i] ELSE a[i]]
Reused(a, n) == IF Cap(a) >= n THEN a ELSE Zeros(n)
SubSampleSize(size, bits) == (size + 2^bits - 1) \div 2^bits

-----------------------------------------------------------------------------
(* What the encoder decides from the picture *)

Width == job.width
Height == job.height
Count == currentWidth * Height
Colors == Range(job.argb)
UsePalette == Cardinality(Colors) <= MaxPaletteSize
Palette == SortedColors(Colors)
UsePredict == IF UsePalette THEN job.method >= 5 /\ job.quality >= 75 ELSE job.quality >= 10
Chosen ==
    IF UsePalette THEN <<"ColorIndexing">> \o (IF UsePredict THEN <<"Predictor">> ELSE <<>>)
    ELSE (IF job.quality >= 25 THEN <<"SubtractGreen">> ELSE <<>>)
           \o (IF UsePredict THEN <<"Predictor">> ELSE <<>>)
           \o (IF job.quality >= 50 THEN <<"CrossColor">> ELSE <<>>)

MinBits == 2
MaxBits == 9
MaxHuffImageSize == 2600
Sampled(bits) == SubSampleSize(Width, bits) * SubSampleSize(Height, bits)
\* Coarser while there are too many tiles, then finer while there is only one.
ClampBits(bits) ==
    LET start == Max({MinBits, Min({bits, MaxBits})})
        coarse == CHOOSE b \in start..MaxBits :
                     /\ b = MaxBits \/ Sampled(b) <= MaxHuffImageSize
                     /\ \A c \in start..b - 1 : Sampled(c) > MaxHuffImageSize
    IN  IF Sampled(coarse) # 1 THEN coarse
        ELSE CHOOSE b \in MinBits..coarse :
                /\ b = MinBits \/ Sampled(b - 1) # 1
                /\ \A c \in b..coarse - 1 : Sampled(c) = 1
HistoBits == ClampBits(IF UsePalette THEN 9 - job.method ELSE 7 - job.method)
TransformBits == Min({HistoBits, IF job.method < 4 THEN 6 ELSE IF job.method > 4 THEN 4 ELSE 5})
MaxMode == IF job.quality < 25 THEN 4 ELSE IF job.quality < 50 THEN 8 ELSE 14

\* 3, 2, 1 or 0: the logarithm of how many numbers share a word.
PaletteCodeBits(size) ==
    IF size <= PackLimits[1] THEN 3 ELSE IF size <= PackLimits[2] THEN 2 ELSE IF size <= PackLimits[3] THEN 1 ELSE 0
BitsPerPixel(codeBits) == 8 \div 2^codeBits

LimitBits == Min({NearLosslessBits(job.near), MaxLimitBits})
IsNearLossless ==
    job.near < 100 /\ LimitBits > 0 /\ (Width >= MinNearLossless \/ Height >= MinNearLossless) /\ Height >= 3

-----------------------------------------------------------------------------
(* Encode *)

Init ==
    /\ queue \in Jobs
    /\ job = None /\ stage = "idle"
    /\ mem = [i \in 1..3 |-> None] /\ argb = 1 /\ residuals = 2
    /\ todo = <<>> /\ currentWidth = 0 /\ transforms = <<>>
    /\ y = 0 /\ scratch = <<None, None, None>> /\ near = 0
    /\ at = [w \in Procs |-> 0] /\ data = None /\ visits = None
    /\ stream = None /\ pixels = None /\ transformBuf = None /\ read = <<>> /\ xsize = 0 /\ transformWidth = 0
    /\ next = 0 /\ inPlace = FALSE /\ srcOff = 0 /\ dstOff = 0 /\ shared = {} /\ image = None

\* An array of the pool that nobody holds.
Free == CHOOSE i \in 1..3 : i \notin {argb, residuals}

\* acquireEncoder; the caller's pixels are copied; analyze.
Begin ==
    /\ stage = "idle" /\ queue # <<>>
    /\ queue' = Tail(queue) /\ job' = Head(queue)
    /\ LET n == job'.width * job'.height
           to == IF Cap(mem[argb]) >= n THEN argb ELSE Free
       IN  /\ argb' = to
           /\ mem' = [mem EXCEPT ![to] = Overwrite(Reused(mem[argb], n), n, job'.argb)]
    /\ currentWidth' = job'.width /\ transforms' = <<>> /\ todo' = Chosen'
    /\ stage' = IF IsNearLossless' THEN "near" ELSE "transform"
    /\ near' = IF IsNearLossless' THEN LimitBits' ELSE 0
    /\ y' = 0 /\ scratch' = <<None, None, None>>
    /\ UNCHANGED <<residuals, at, data, visits, reading, undoing>>

Row(a, width, k) == [x \in 0..width - 1 |-> a[k * width + x]]
InRow(i, width, k) == i \div width = k

\* One row of a pass: the three rows it looks at are copies.  The first pass
\* writes another array, the later ones the array they read.
NearRow ==
    LET from == IF near = LimitBits THEN argb ELSE Free
        rows == IF y = 0 THEN <<None, Row(mem[from], Width, 0), Row(mem[from], Width, 1)>> ELSE scratch
        below == IF y \in 1..Height - 2 THEN Row(mem[from], Width, y + 1) ELSE rows[3]
        inner == y \in 1..Height - 2
        new == [x \in 0..Width - 1 |-> IF inner THEN NearPixel(rows[1], rows[2], below, x, near)
                                       ELSE mem[from][y * Width + x]]
        into == IF near = LimitBits /\ y = 0 THEN Zeros(Width * Height) ELSE mem[Free]
    IN  /\ stage = "near" /\ y < Height
        /\ mem' = [mem EXCEPT ![Free] = [i \in DOMAIN into |-> IF InRow(i, Width, y) THEN new[i % Width] ELSE into[i]]]
        /\ scratch' = <<rows[2], below, rows[1]>>
        /\ y' = y + 1
        /\ UNCHANGED <<queue, job, stage, argb, residuals, todo, currentWidth, transforms, near, at, data, visits,
                       reading, undoing>>

NextNearPass ==
    /\ stage = "near" /\ y = Height
    /\ y' = 0 /\ near' = near - 1
    /\ IF near > 1 THEN UNCHANGED <<stage, mem>>
       ELSE stage' = "transform" /\ mem' = [mem EXCEPT ![argb] = Overwrite(@, Width * Height, mem[Free])]
    /\ UNCHANGED <<queue, job, argb, residuals, todo, currentWidth, transforms, scratch, at, data, visits, reading, undoing>>

Transform(type) == stage = "transform" /\ todo # <<>> /\ Head(todo) = type
Applied(type, bits, values) ==
    /\ transforms' = Append(transforms, [type |-> type, bits |-> bits, xsize |-> currentWidth',
                                         ysize |-> Height, data |-> values])
    /\ todo' = Tail(todo)
    /\ stage' = "transform"

SubtractGreen ==
    /\ Transform("SubtractGreen")
    /\ mem' = [mem EXCEPT ![argb] = [i \in DOMAIN @ |-> IF i < Count THEN SubtractGreenPixel(@[i]) ELSE @[i]]]
    /\ UNCHANGED currentWidth
    /\ Applied("SubtractGreen", 0, None)
    /\ UNCHANGED <<queue, job, argb, residuals, encoding, reading, undoing>>

\* Words of numbers for each row, in an array of its own.
Packed(codeBits) ==
    LET perWord == 2^codeBits
        words == SubSampleSize(Width, codeBits)
        word(r, j) == LET few == Min({perWord, Width - j * perWord})
                          indices == [k \in 0..few - 1 |-> Lookup(Palette, mem[argb][r * Width + j * perWord + k])]
                      IN  PackedWord(indices, BitsPerPixel(codeBits))
    IN  [i \in 0..words * Height - 1 |-> word(i \div words, i % words)]
ApplyPalette ==
    /\ Transform("ColorIndexing")
    /\ LET codeBits == PaletteCodeBits(Cardinality(Colors))
       IN  /\ mem' = [mem EXCEPT ![Free] = Packed(codeBits)]
           /\ argb' = Free
           /\ currentWidth' = SubSampleSize(Width, codeBits)
           /\ Applied("ColorIndexing", codeBits, Palette)
    /\ UNCHANGED <<queue, job, residuals, encoding, reading, undoing>>

-----------------------------------------------------------------------------
(* Tiles, a range of rows of tiles for each worker *)

TileXSize == SubSampleSize(currentWidth, TransformBits)
TileYSize == SubSampleSize(Height, TransformBits)
NumTiles == TileXSize * TileYSize
NumWorkers == IF NumTiles >= ParallelTiles THEN Min({MaxProcs, TileYSize}) ELSE 1
\* mutant: rounded down, the last rows of tiles are nobody's.
RowsPerWorkerDown == RoundedDown(TileYSize, NumWorkers)
RowsPerWorker == RoundedUp(TileYSize, NumWorkers)
TyStart(w) == ShareStart(RowsPerWorker, w)
TyEnd(w) == ShareEnd(TileYSize, RowsPerWorker, w)
WorkersDone == \A w \in 0..NumWorkers - 1 : TyStart(w) * TileXSize + at[w] >= TyEnd(w) * TileXSize

TileOf(i) == ((i \div currentWidth) \div 2^TransformBits) * TileXSize + (i % currentWidth) \div 2^TransformBits

StartTiles ==
    /\ Transform("Predictor") \/ Transform("CrossColor")
    /\ stage' = "tiles"
    /\ at' = [w \in Procs |-> 0] /\ data' = Zeros(NumTiles) /\ visits' = [t \in 0..NumTiles - 1 |-> 0]
    /\ UNCHANGED <<queue, job, encoder, y, scratch, near, reading, undoing>>

Handling(type) == stage = "tiles" /\ Head(todo) = type
NextTile(w, t) ==
    /\ w < NumWorkers
    /\ t = TyStart(w) * TileXSize + at[w]
    /\ t < TyEnd(w) * TileXSize
    /\ at' = [at EXCEPT ![w] = @ + 1]
    /\ visits' = [visits EXCEPT ![t] = @ + 1]
    /\ UNCHANGED <<queue, job, stage, argb, residuals, todo, currentWidth, transforms, y, scratch, near, reading, undoing>>

\* The estimate of every predictor tried, and the search for the multipliers
\* with the least sum of differences, may come out any way.
LeastEstimate == {mode \in job.modes : mode < MaxMode}
BestMultipliers == job.multipliers

PickMode(w) ==
    /\ Handling("Predictor")
    /\ \E t \in DOMAIN data, mode \in LeastEstimate :
         /\ NextTile(w, t)
         /\ data' = [data EXCEPT ![t] = <<255, 0, mode, 0>>]
    /\ UNCHANGED mem

\* The tile is rewritten where it is.
PickMultipliers(w) ==
    /\ Handling("CrossColor")
    /\ \E t \in DOMAIN data, m \in BestMultipliers :
         /\ NextTile(w, t)
         /\ data' = [data EXCEPT ![t] = PackMultipliers(m)]
         /\ mem' = [mem EXCEPT ![argb] = [i \in DOMAIN @ |->
                       IF i < Count /\ TileOf(i) = t THEN ApplyColorTransformPixel(m, @[i]) ELSE @[i]]]

EndColors ==
    /\ Handling("CrossColor") /\ WorkersDone
    /\ UNCHANGED currentWidth
    /\ Applied("CrossColor", TransformBits, data)
    /\ UNCHANGED <<queue, job, mem, argb, residuals, encoding, reading, undoing>>

\* The array of residuals is kept if it is long enough, whatever it holds and
\* even if it is the array of the pixels.
StartResiduals ==
    /\ Handling("Predictor") /\ WorkersDone
    /\ stage' = "residuals" /\ y' = 0 /\ scratch' = <<Zeros(currentWidth + 1), Zeros(currentWidth + 1)>>
    /\ residuals' = IF Cap(mem[residuals]) >= Count THEN residuals ELSE Free
    /\ mem' = [mem EXCEPT ![residuals'] = Reused(mem[residuals], Count)]
    /\ UNCHANGED <<queue, job, argb, todo, currentWidth, transforms, near, at, data, visits, reading, undoing>>

\* The row and the pixel after it; the last row has none after it.
CopiedRow(old) ==
    [x \in 0..currentWidth |-> IF x < currentWidth \/ y + 1 < Height THEN mem[argb][y * currentWidth + x] ELSE old[x]]
Mode(i) == data[TileOf(i)][3]
ResidualPixel(upper, current, x) ==
    LET pred == IF y = 0 THEN (IF x = 0 THEN ARGBBlack ELSE current[x - 1])
                ELSE IF x = 0 THEN upper[0]
                ELSE Predicted(Mode(y * currentWidth + x), current[x - 1], upper[x], upper[x + 1], upper[x - 1],
                               SelectPred(current[x - 1], upper[x], upper[x - 1]))
    IN  SubPixels(current[x], pred)
\* mutant: the row above is read from the picture instead of the copy.
RowAboveInPlace == IF y = 0 THEN scratch[2] ELSE [x \in 0..currentWidth |-> mem[argb][(y - 1) * currentWidth + x]]
RowAbove == scratch[2]
ResidualRow ==
    LET upper == RowAbove
        current == CopiedRow(scratch[1])
    IN  /\ stage = "residuals" /\ y < Height
        /\ scratch' = <<upper, current>>
        /\ mem' = [mem EXCEPT ![residuals] = [i \in DOMAIN @ |->
                      IF i < Count /\ InRow(i, currentWidth, y) THEN ResidualPixel(upper, current, i % currentWidth) ELSE @[i]]]
        /\ y' = y + 1
        /\ UNCHANGED <<queue, job, stage, argb, residuals, todo, currentWidth, transforms, near, at, data, visits,
                       reading, undoing>>

EndResiduals ==
    /\ stage = "residuals" /\ y = Height
    /\ argb' = residuals
    /\ UNCHANGED currentWidth
    /\ Applied("Predictor", TransformBits, data)
    /\ UNCHANGED <<queue, job, mem, residuals, encoding, reading, undoing>>

\* The transforms in the order they were applied, then the pixels; the sizes of
\* a transform are not written.
Write ==
    /\ stage = "transform" /\ todo = <<>>
    /\ stage' = "header"
    /\ stream' = [width |-> Width, height |-> Height,
                  transforms |-> [k \in DOMAIN transforms |->
                      LET t == transforms[k]
                      IN  IF t.type = "ColorIndexing"
                          THEN [type |-> t.type, numColors |-> Cap(t.data), data |-> DeltaPalette(t.data)]
                          ELSE [type |-> t.type, bits |-> t.bits, data |-> t.data]],
                  pixels |-> [i \in 0..Count - 1 |-> mem[argb][i]]]
    /\ read' = <<>> /\ xsize' = Width /\ transformWidth' = 0
    /\ UNCHANGED <<queue, job, encoder, encoding, pixels, transformBuf, undoing>>

-----------------------------------------------------------------------------
(* Decode *)

\* A transform knows the width before it; a sub-image leaves its own width
\* behind as the width of the coded pixels.
ReadTransform ==
    /\ stage = "header" /\ Len(read) < Len(stream.transforms)
    /\ LET t == stream.transforms[Len(read) + 1]
           indexed == t.type = "ColorIndexing"
           bits == IF indexed THEN PaletteCodeBits(t.numColors) ELSE t.bits
       IN  /\ read' = Append(read, [type |-> t.type, bits |-> bits, xsize |-> xsize,
                                    data |-> IF indexed THEN ExpandColorMap(t.data, bits) ELSE t.data])
           /\ xsize' = IF indexed THEN SubSampleSize(xsize, bits) ELSE xsize
           /\ transformWidth' = CASE indexed -> t.numColors
                                  [] t.type = "SubtractGreen" -> transformWidth
                                  [] OTHER -> SubSampleSize(xsize, bits)
    /\ UNCHANGED <<queue, job, stage, encoder, encoding, stream, pixels, transformBuf, undoing>>

\* The arrays of the decode before are kept when they are long enough.
UpdateDecoder == transformWidth' = xsize
DecodePixels ==
    LET coded == transformWidth' * stream.height
        numAlloc == Max({stream.width * stream.height, coded})
        needed == numAlloc + stream.width * (1 + CacheRows)
    IN  /\ stage = "header" /\ Len(read) = Len(stream.transforms)
        /\ UpdateDecoder
        /\ pixels' = Overwrite(Reused(pixels, needed), coded, stream.pixels)
        /\ transformBuf' = Reused(transformBuf, numAlloc)
        /\ next' = Len(read) /\ inPlace' = FALSE /\ y' = 0 /\ srcOff' = 0 /\ dstOff' = 0 /\ shared' = {}
        /\ stage' = "inverse" /\ image' = None
        /\ UNCHANGED <<queue, job, encoder, scratch, near, at, data, visits, stream, read, xsize>>

src == IF inPlace THEN transformBuf ELSE pixels
undone == read[next]
Undo(type) == stage = "inverse" /\ next > 0 /\ undone.type = type
NumPixels == undone.xsize * stream.height
Undone ==
    /\ next' = next - 1 /\ inPlace' = TRUE
    /\ y' = 0 /\ srcOff' = 0 /\ dstOff' = 0 /\ shared' = {}
decoding == <<queue, job, stage, encoder, scratch, near, at, data, visits, stream, pixels, read, xsize, transformWidth, image>>

AddGreenToBlueAndRed ==
    /\ Undo("SubtractGreen")
    /\ transformBuf' = [i \in DOMAIN transformBuf |-> IF i < NumPixels THEN AddGreen(src[i]) ELSE transformBuf[i]]
    /\ Undone
    /\ UNCHANGED decoding

\* One row: every pixel from what the row has so far, and from the row above.
DecodedMode(x) == undone.data[(y \div 2^undone.bits) * SubSampleSize(undone.xsize, undone.bits) + x \div 2^undone.bits][3]
AddPredicted(line, x) ==
    LET above(k) == transformBuf[(y - 1) * undone.xsize + k]
        topRight == IF x = undone.xsize - 1 THEN line[1] ELSE above(x + 1)
        pred == IF y = 0 THEN line[x]
                ELSE Predicted(DecodedMode(x), line[x], above(x), topRight, above(x - 1),
                               SelectPredictor(line[x], above(x), above(x - 1)))
    IN  Append(line, AddPixels(src[y * undone.xsize + x], pred))
InverseRow ==
    LET first == AddPixels(src[y * undone.xsize], IF y = 0 THEN ARGBBlack ELSE transformBuf[(y - 1) * undone.xsize])
        line[x \in 0..undone.xsize - 1] == IF x = 0 THEN <<first>> ELSE AddPredicted(line[x - 1], x)
    IN  line[undone.xsize - 1]
PredictorInverse ==
    /\ Undo("Predictor")
    /\ LET new == InverseRow
       IN  transformBuf' = [i \in DOMAIN transformBuf |->
                               IF i < NumPixels /\ InRow(i, undone.xsize, y) THEN new[(i % undone.xsize) + 1] ELSE transformBuf[i]]
    /\ IF y + 1 < stream.height THEN y' = y + 1 /\ UNCHANGED <<next, inPlace, srcOff, dstOff, shared>> ELSE Undone
    /\ UNCHANGED decoding

\* Rows of pixels, shared when there are enough; the last worker takes the rest.
RowWorkers(height, share) == IF share THEN Min({MaxProcs, height}) ELSE 1
RowRange(w, workers, height) == DownStart(height, workers, w)..DownEnd(height, workers, w) - 1
Shares(n) == MaxProcs > 1 /\ n >= ParallelPixels

ColorSpaceInverse(w) ==
    LET workers == RowWorkers(stream.height, Shares(NumPixels))
        code(i) == undone.data[((i \div undone.xsize) \div 2^undone.bits) * SubSampleSize(undone.xsize, undone.bits)
                               + (i % undone.xsize) \div 2^undone.bits]
    IN  /\ Undo("CrossColor") /\ w < workers /\ w \notin shared
        /\ transformBuf' = [i \in DOMAIN transformBuf |->
                               IF i < NumPixels /\ i \div undone.xsize \in RowRange(w, workers, stream.height)
                               THEN ColorInversePixel(code(i), src[i]) ELSE transformBuf[i]]
        /\ IF shared \cup {w} = 0..workers - 1 THEN Undone
           ELSE shared' = shared \cup {w} /\ UNCHANGED <<next, inPlace, y, srcOff, dstOff>>
        /\ UNCHANGED decoding

\* The next word, read where the words are, becomes the next pixels of the row.
ColorIndexInverse ==
    LET few == Min({2^undone.bits, undone.xsize - (dstOff % undone.xsize)})
        word == src[srcOff]
        color(k) == undone.data[IndexIn(word, k, BitsPerPixel(undone.bits))]
    IN  /\ Undo("ColorIndexing")
        /\ transformBuf' = [i \in DOMAIN transformBuf |-> IF i \in dstOff..dstOff + few - 1 THEN color(i - dstOff) ELSE transformBuf[i]]
        /\ IF dstOff + few < NumPixels
           THEN srcOff' = srcOff + 1 /\ dstOff' = dstOff + few /\ UNCHANGED <<next, inPlace, y, shared>>
           ELSE Undone
        /\ UNCHANGED decoding

\* argbToNRGBA: a picture without transforms is shown from the first array.
ConvertRows(w) ==
    LET height == stream.height
        workers == IF Shares(stream.width * height) THEN MaxProcs ELSE 1
        rows == RowRange(w, workers, height)
        n == stream.width * height
    IN  /\ stage = "inverse" /\ next = 0 /\ w < workers /\ w \notin shared
        /\ image' = [i \in 0..n - 1 |-> IF i \div stream.width \in rows THEN src[i]
                                        ELSE IF i \in DOMAIN image THEN image[i] ELSE Zero]
        /\ shared' = shared \cup {w}
        /\ stage' = IF shared' = 0..workers - 1 THEN "shown" ELSE stage
        /\ UNCHANGED <<queue, job, encoder, encoding, reading, next, inPlace, srcOff, dstOff>>

Release ==
    /\ stage = "shown" /\ stage' = "idle"
    /\ UNCHANGED <<queue, job, encoder, encoding, reading, undoing>>
Finished == stage = "idle" /\ queue = <<>> /\ UNCHANGED vars

Next ==
    \/ Begin \/ NearRow \/ NextNearPass \/ SubtractGreen \/ ApplyPalette
    \/ StartTiles \/ EndColors \/ StartResiduals \/ ResidualRow \/ EndResiduals \/ Write
    \/ \E w \in Procs : PickMode(w) \/ PickMultipliers(w) \/ ColorSpaceInverse(w) \/ ConvertRows(w)
    \/ ReadTransform \/ DecodePixels \/ AddGreenToBlueAndRed \/ PredictorInverse \/ ColorIndexInverse
    \/ Release \/ Finished

Spec == Init /\ [][Next]_vars

-----------------------------------------------------------------------------
(* Properties *)

PaletteAndSpatial == UsePalette /\ UsePredict /\ PaletteCodeBits(Cardinality(Colors)) > 0

\* A picture comes back from the decoder as it was given to the encoder,
\* whatever predictors and multipliers were picked, in whatever order the
\* workers ran, and whatever the pooled arrays held before.
DecodedIsSource ==
    stage = "shown" /\ ~IsNearLossless /\ ~PaletteAndSpatial => image = job.argb

\* encode.go, 268 and 456: predictors after a palette can improve compression;
\* the picture is then no other than the one given.
SpatialIsSource == stage = "shown" /\ PaletteAndSpatial /\ ~IsNearLossless => image = job.argb

\* encode_near.go, 5: after all passes a channel is off by at most half of the
\* first and coarsest step, and the border of the picture is untouched.
NearIsClose ==
    stage = "shown" /\ IsNearLossless /\ ~UsePalette =>
        \A i \in DOMAIN image :
            /\ \A k \in Channels : Absolute(image[i][k] - job.argb[i][k]) <= 2^(LimitBits - 1)
            /\ i \div Width \in {0, Height - 1} \/ i % Width \in {0, Width - 1} => image[i] = job.argb[i]

\* When the workers are joined every tile was handled, by one of them, once.
TilesOnce == (stage = "tiles" /\ WorkersDone) => \A t \in DOMAIN visits : visits[t] = 1
=============================================================================
