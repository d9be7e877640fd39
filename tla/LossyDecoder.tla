----------------------------- MODULE LossyDecoder -----------------------------
(***************************************************************************)
(* The lossy decoder (internal/lossy: DecodeFrame and what it calls).       *)
(*                                                                         *)
(* A decoder comes from a pool: its header is zeroed when it is taken, its  *)
(* buffers when the frame is set up, and what neither resets is left from   *)
(* the frame before (intraL, fstrengths, dqm).  Rows are decoded one after  *)
(* the other: modes, then coefficients, then samples, then the loop filter. *)
(*                                                                         *)
(* Samples are named as in LossyWriter.  What arrives may be shorter than   *)
(* what was written.                                                        *)
(***************************************************************************)
EXTENDS ModeTrees, CoeffTokens, FrameHeader

VARIABLES
    stage,      \* where DecodeFrame is
    dec,        \* what stays in the pool: intraL, fstrengths, segHdr, filterHdr, dqm
    frame,      \* the rest of the header of this frame, and its size
    br,         \* reader of the first partition
    parts,      \* readers of the token partitions
    mbX, mbY,
    intraT,     \* modes above
    mbInfo,     \* contexts: left, above[x], each [Nz, NzDC]
    mbData,     \* the macroblocks of the row
    fInfo,      \* their filters
    yuvT,       \* the last lines of the row above
    yuvB,       \* borders of the macroblock under reconstruction
    rebuilt,    \* history: border, modes and coefficients of each macroblock
    filtered    \* history: what was filtered and how

readerVars == <<br, parts>>
rowVars == <<intraT, mbInfo, mbData, fInfo, yuvT, yuvB>>
outVars == <<rebuilt, filtered>>
decoderVars == <<stage, dec, frame, readerVars, mbX, mbY, rowVars, outVars>>

NoModes == [n \in 0 .. 3 |-> BDCPred]
NoFInfo == [FLimit |-> 0, FILevel |-> 0, HevThresh |-> 0, FInner |-> FALSE]

\* A decoder of the pool.
PooledInit ==
    [intraL |-> NoModes, fstrengths |-> [s \in 0 .. 3 |-> [i \in 0 .. 1 |-> NoFInfo]],
     segHdr |-> <<>>, filterHdr |-> <<>>, dqm |-> <<>>]

ZeroSegHdr == [UseSegment |-> FALSE, UpdateMap |-> FALSE, AbsoluteDelta |-> TRUE,
               Quantizer |-> NoDeltas, FilterStrength |-> NoDeltas]
ZeroFilterHdr == [Simple |-> FALSE, Level |-> 0, Sharpness |-> 0, UseLFDelta |-> FALSE,
                  RefLFDelta |-> NoDeltas, ModeLFDelta |-> NoDeltas]

(***************************************************************************)
(* Loop filter strengths                                                    *)
(***************************************************************************)

Clamped(v) == Clip(v, 63)

\* The filter of a level, keeping what was in the entry when it is zero.
FilterOf(old, level, sharpness, isI4) ==
    LET shifted == IF sharpness > 4 THEN level \div 4 ELSE IF sharpness > 0 THEN level \div 2 ELSE level
        capped == IF sharpness > 0 /\ shifted > 9 - sharpness THEN 9 - sharpness ELSE shifted
        ilevel == IF capped < 1 THEN 1 ELSE capped
    IN IF level = 0 THEN [old EXCEPT !.FLimit = 0, !.FInner = isI4]
       ELSE [FLimit |-> 2 * level + ilevel, FILevel |-> ilevel,
             HevThresh |-> IF level >= 40 THEN 2 ELSE IF level >= 15 THEN 1 ELSE 0,
             FInner |-> isI4]

LevelOf(segHdr, filterHdr, s, i) ==
    LET base == IF segHdr.UseSegment
                THEN segHdr.FilterStrength[s + 1] + (IF segHdr.AbsoluteDelta THEN 0 ELSE filterHdr.Level)
                ELSE filterHdr.Level
    IN Clamped(base + (IF filterHdr.UseLFDelta
                       THEN filterHdr.RefLFDelta[1] + (IF i = 1 THEN filterHdr.ModeLFDelta[1] ELSE 0)
                       ELSE 0))

Strengths(old, segHdr, filterHdr) ==
    [s \in 0 .. 3 |-> [i \in 0 .. 1 |->
        FilterOf(old[s][i], LevelOf(segHdr, filterHdr, s, i), filterHdr.Sharpness, i = 1)]]

StrengthsOnce(old, segHdr, filterHdr) ==   \* mutant: strengths of the pool are good
    IF FilterType(filterHdr) = 0 \/ old[0][0].FLimit > 0 THEN old
    ELSE Strengths(old, segHdr, filterHdr)

precomputeFilterStrengths(old, segHdr, filterHdr) ==
    IF FilterType(filterHdr) = 0 THEN old ELSE Strengths(old, segHdr, filterHdr)

(***************************************************************************)
(* DecodeFrame up to the first row.  An input is                            *)
(*   [part0, w, h, tokens, cut]: cut is how many symbols of the tokens      *)
(*   arrived, -1 when not even the sizes of the partitions did, -2 when     *)
(*   the first partition did not.                                           *)
(***************************************************************************)

RECURSIVE TotalLen(_, _)
TotalLen(seqs, k) == IF k = 0 THEN 0 ELSE Len(seqs[k]) + TotalLen(seqs, k - 1)

\* Each partition but the last must be whole; the last has what is left.
PartitionsFit(tokens, cut) ==
    TotalLen(tokens, Len(tokens) - 1) <= cut

Partitions(tokens, cut) ==
    [p \in 1 .. Len(tokens) |->
        NewBoolReader(IF p < Len(tokens) THEN tokens[p]
                      ELSE SubSeq(tokens[p], 1, cut - TotalLen(tokens, p - 1)))]

\* The number of partitions.
PartitionCount(h) ==
    LET log2 == GetValue(h.br, 2)
    IN [h EXCEPT !.br = log2.br, !.numParts = 2 ^ log2.val]

\* ParseProba, after the flag that says whether the tables are kept.
ParseProba(h) ==
    LET coeffs == GetBit(GetFlag(h.br).br, CoeffTable)
    IN [h EXCEPT !.br = coeffs.br, !.table = coeffs.val]

ParseSkip(h) ==
    LET use == GetFlag(h.br)
        skipP == GetValue(use.br, 8)
    IN IF use.val = 0 THEN [h EXCEPT !.br = use.br]
       ELSE [h EXCEPT !.br = skipP.br, !.useSkip = TRUE, !.skipP = skipP.val]

\* parseHeaders: the fields of the first partition, after the colour space.
HeaderOf(part0) ==
    ParseSkip(ParseProba(ParseQuant(PartitionCount(parseFilterHeader(parseSegmentHeader(
        [br |-> GetValue(NewBoolReader(part0), 2).br,
         segHdr |-> ZeroSegHdr, filterHdr |-> ZeroFilterHdr, segments |-> <<255, 255, 255>>,
         numParts |-> 1, dqm |-> <<>>, table |-> 0, useSkip |-> FALSE, skipP |-> 0]))))))

BlankBlock == [IsI4x4 |-> FALSE, IModes |-> [n \in 0 .. 15 |-> 0], UVMode |-> 0, Skip |-> FALSE,
               Segment |-> 0, y |-> [n \in 0 .. 15 |-> Zeros], uv |-> [n \in 0 .. 7 |-> Zeros],
               NonZeroY |-> [n \in 0 .. 15 |-> 0], NonZeroUV |-> [n \in 0 .. 7 |-> 0]]

\* acquireDecoder, parseHeaders, initFrame and precomputeFilterStrengths.
StartFrame(input) ==
    LET h == HeaderOf(input.part0)
    IN /\ stage = "idle"
       /\ rebuilt' = <<>>
       /\ filtered' = <<>>
       /\ IF input.cut = -2
          THEN /\ stage' = "failed"
               /\ UNCHANGED <<dec, frame, readerVars, mbX, mbY, rowVars>>
          ELSE IF input.cut = -1 \/ ~PartitionsFit(input.tokens, input.cut)
          THEN /\ stage' = "failed"
               /\ dec' = [dec EXCEPT !.segHdr = h.segHdr, !.filterHdr = h.filterHdr]
               /\ UNCHANGED <<frame, readerVars, mbX, mbY, rowVars>>
          ELSE /\ stage' = "modes"
               /\ dec' = [dec EXCEPT !.segHdr = h.segHdr, !.filterHdr = h.filterHdr, !.dqm = h.dqm,
                              !.fstrengths = precomputeFilterStrengths(@, h.segHdr, h.filterHdr)]
               /\ frame' = [w |-> input.w, h |-> input.h, numParts |-> h.numParts, table |-> h.table,
                            segments |-> h.segments, useSkip |-> h.useSkip, skipP |-> h.skipP,
                            stale |-> dec.intraL # NoModes]
               /\ br' = h.br
               /\ parts' = Partitions(input.tokens, input.cut)
               /\ mbX' = 0
               /\ mbY' = 0
               /\ intraT' = [x \in 0 .. input.w - 1 |-> NoModes]
               /\ mbInfo' = [left |-> [Nz |-> 0, NzDC |-> 0],
                             above |-> [x \in 0 .. input.w - 1 |-> [Nz |-> 0, NzDC |-> 0]]]
               /\ mbData' = [x \in 0 .. input.w - 1 |-> BlankBlock]
               /\ fInfo' = [x \in 0 .. input.w - 1 |-> NoFInfo]
               /\ yuvT' = [x \in 0 .. input.w - 1 |-> <<>>]
               /\ yuvB' = [top |-> <<>>, topRight |-> <<>>, topLeft |-> <<>>, left |-> <<>>]

(***************************************************************************)
(* parseIntraModeRow                                                        *)
(***************************************************************************)

\* A macroblock in stages as well: r has the reader, the block and the modes
\* above and to the left of it, which become those it leaves.
ParseSegment(r) ==
    LET segment == ReadSegment(r.br, frame.segments)
    IN IF dec.segHdr.UpdateMap THEN [r EXCEPT !.br = segment.br, !.block.Segment = segment.val]
       ELSE [r EXCEPT !.block.Segment = 0]

ParseSkipFlag(r) ==
    LET skip == GetBit(r.br, frame.skipP)
    IN IF frame.useSkip THEN [r EXCEPT !.br = skip.br, !.block.Skip = skip.val = 1] ELSE r

ParseModes(r) ==
    LET size == GetBit(r.br, 145)
        mode == ReadI16Mode(size.br)
        modes == ReadI4Modes(size.br, r.top, r.left, r.block.IModes, 0)
        same == [n \in 0 .. 3 |-> mode.val]
    IN IF size.val = 0
       THEN [br |-> modes.br, top |-> modes.top, left |-> modes.left,
             block |-> [r.block EXCEPT !.IsI4x4 = TRUE, !.IModes = modes.modes]]
       ELSE [br |-> mode.br, top |-> same, left |-> same,
             block |-> [r.block EXCEPT !.IsI4x4 = FALSE, !.IModes[0] = mode.val]]

ParseUVMode(r) ==
    LET uv == ReadUVMode(r.br)
    IN [r EXCEPT !.br = uv.br, !.block.UVMode = uv.val]

ReadBlock(reader, old, top, left) ==
    ParseUVMode(ParseModes(ParseSkipFlag(ParseSegment(
        [br |-> reader, block |-> old, top |-> top, left |-> left]))))

RECURSIVE ReadRow(_, _)
ReadRow(x, row) ==
    LET read == ReadBlock(row.br, row.data[x], row.intraT[x], row.intraL)
    IN IF x = frame.w THEN row
       ELSE ReadRow(x + 1, [br |-> read.br, data |-> [row.data EXCEPT ![x] = read.block],
                            intraT |-> [row.intraT EXCEPT ![x] = read.top], intraL |-> read.left])

ParseIntraModeRow ==
    LET row == ReadRow(0, [br |-> br, data |-> mbData, intraT |-> intraT, intraL |-> dec.intraL])
    IN /\ stage = "modes"
       /\ br' = row.br
       /\ mbData' = row.data
       /\ intraT' = row.intraT
       /\ dec' = [dec EXCEPT !.intraL = row.intraL]
       /\ stage' = IF row.br.eof THEN "failed" ELSE "blocks"
       /\ UNCHANGED <<frame, parts, mbX, mbY, mbInfo, fInfo, yuvT, yuvB, outVars>>

(***************************************************************************)
(* decodeMB                                                                 *)
(***************************************************************************)

nzCodeBits(nz, dcNz) == IF nz > 3 THEN 3 ELSE IF nz > 1 THEN 2 ELSE dcNz

\* Reads the blocks of a plane, size in a row, through the packed contexts
\* c.tnz and c.lnz; c.l is the bit to the left and c.blocks what is read.
AfterBlock(c, size, spec, coeffs) ==
    LET bit == Flag(coeffs.nz > spec.first)
        t == c.tnz \div 2 + bit * 2 ^ (IF size = 4 THEN 7 ELSE 3)
        lastInRow == (Len(c.blocks) % size) = size - 1
    IN [br |-> coeffs.br, l |-> bit,
        tnz |-> IF lastInRow THEN t \div 2 ^ size ELSE t,
        lnz |-> IF lastInRow THEN c.lnz \div 2 + bit * 2 ^ (IF size = 4 THEN 7 ELSE 5) ELSE c.lnz,
        blocks |-> Append(c.blocks, [nz |-> coeffs.nz, out |-> Dequantized(coeffs.out, spec.dq)])]

RECURSIVE ReadPlane(_, _, _)
ReadPlane(c, size, spec) ==
    LET left == IF (Len(c.blocks) % size) = 0 THEN c.lnz % 2 ELSE c.l
    IN IF Len(c.blocks) = size * size THEN c
       ELSE ReadPlane(AfterBlock(c, size, spec, getCoeffs(c.br, frame.table, spec.type, spec.first,
                                                          left + (c.tnz % 2))), size, spec)

PlaneAt(r, shift) ==
    [br |-> r.br, tnz |-> r.above.Nz \div shift, lnz |-> r.left.Nz \div shift, l |-> 0, blocks |-> <<>>]

QuantOf(block) == dec.dqm[block.Segment]

\* parseResiduals in stages: r has the block, the reader and the contexts
\* above and to the left.  First the DC coefficients of a 16x16 macroblock.
TransformedDC(r, dc, dcOut) ==
    [r EXCEPT !.br = dc.br, !.above.NzDC = Flag(dc.nz > 0), !.left.NzDC = Flag(dc.nz > 0),
              !.wht = IF dc.nz > 1 THEN TransformWHT(dcOut)
                      ELSE [n \in 0 .. 15 |-> (dcOut[0] + 3) \div 8]]

DequantizedDC(r, dc) == TransformedDC(r, dc, Dequantized(dc.out, QuantOf(r.block).Y2))

ParseDC(r) ==
    IF r.block.IsI4x4 THEN r
    ELSE DequantizedDC(r, getCoeffs(r.br, frame.table, 1, 0, r.above.NzDC + r.left.NzDC))

WithLuma(r, luma) ==
    LET Out(n) == IF r.block.IsI4x4 THEN luma.blocks[n + 1].out
                  ELSE [luma.blocks[n + 1].out EXCEPT ![0] = r.wht[n]]
    IN [r EXCEPT !.br = luma.br, !.bits = [above |-> luma.tnz, left |-> luma.lnz \div 16],
                 !.block.y = [n \in 0 .. 15 |-> Out(n)],
                 !.block.NonZeroY = [n \in 0 .. 15 |-> nzCodeBits(luma.blocks[n + 1].nz, Flag(Out(n)[0] # 0))]]

ParseLuma(r) ==
    LET is4 == r.block.IsI4x4
        start == PlaneAt(r, 1)
    IN WithLuma(r, ReadPlane([start EXCEPT !.tnz = @ % 16, !.lnz = @ % 16], 4,
                             [type |-> IF is4 THEN 3 ELSE 0, first |-> Flag(~is4),
                              dq |-> QuantOf(r.block).Y1]))

\* Plane 0 is U and plane 1 is V.
WithChroma(r, plane, shift, uv) ==
    LET Read(n) == uv.blocks[n - 4 * plane + 1]
        IsOf(n) == n \div 4 = plane
    IN [r EXCEPT !.br = uv.br,
                 !.bits = [above |-> @.above + (uv.tnz % 16) * shift, left |-> @.left + (uv.lnz \div 16) * shift],
                 !.block.uv = [n \in 0 .. 7 |-> IF IsOf(n) THEN Read(n).out ELSE @[n]],
                 !.block.NonZeroUV = [n \in 0 .. 7 |->
                     IF IsOf(n) THEN nzCodeBits(Read(n).nz, Flag(Read(n).out[0] # 0)) ELSE @[n]]]

ParseChroma(r, plane) ==
    LET shift == 16 * 4 ^ plane
    IN WithChroma(r, plane, shift,
                  ReadPlane(PlaneAt(r, shift), 2, [type |-> 2, first |-> 0, dq |-> QuantOf(r.block).UV]))

\* The contexts the macroblock leaves.
StoreContexts(r) == [r EXCEPT !.above.Nz = r.bits.above % 256, !.left.Nz = r.bits.left]

parseResiduals(block, reader, above, left) ==
    StoreContexts(ParseChroma(ParseChroma(ParseLuma(ParseDC(
        [block |-> block, br |-> reader, above |-> above, left |-> left,
         wht |-> Zeros, bits |-> [above |-> 0, left |-> 0]])), 0), 1))

\* A skipped macroblock: no coefficient, and contexts are cleared.
SkippedResiduals(block, reader, above, left) ==
    LET NzDC(old) == IF block.IsI4x4 THEN old.NzDC ELSE 0
    IN [block |-> [block EXCEPT !.NonZeroY = [n \in 0 .. 15 |-> 0], !.NonZeroUV = [n \in 0 .. 7 |-> 0]],
        br |-> reader, above |-> [Nz |-> 0, NzDC |-> NzDC(above)], left |-> [Nz |-> 0, NzDC |-> NzDC(left)]]

\* The filter of a macroblock: inner edges too unless it is 16x16 and skipped.
FInfoOf(block, skip) ==
    [dec.fstrengths[block.Segment][Flag(block.IsI4x4)] EXCEPT !.FInner = @ \/ ~skip]

\* What reading macroblock mbX of the row from its partition changes.
Decoded(part, skip, read) ==
    /\ mbData' = [mbData EXCEPT ![mbX] = read.block]
    /\ parts' = [parts EXCEPT ![part] = read.br]
    /\ mbInfo' = [mbInfo EXCEPT !.left = read.left, !.above[mbX] = read.above]
    /\ fInfo' = IF FilterType(dec.filterHdr) > 0
                THEN [fInfo EXCEPT ![mbX] = FInfoOf(mbData[mbX], skip)] ELSE fInfo
    /\ mbX' = mbX + 1
    /\ stage' = IF read.br.eof THEN "failed" ELSE IF mbX + 1 = frame.w THEN "row" ELSE "blocks"

DecodeMB ==
    LET block == mbData[mbX]
        part == (mbY % frame.numParts) + 1
        skip == frame.useSkip /\ block.Skip
    IN /\ stage = "blocks"
       /\ Decoded(part, skip,
                  IF skip THEN SkippedResiduals(block, parts[part], mbInfo.above[mbX], mbInfo.left)
                  ELSE parseResiduals(block, parts[part], mbInfo.above[mbX], mbInfo.left))
       /\ UNCHANGED <<dec, frame, br, mbY, intraT, yuvT, yuvB, outVars>>

(***************************************************************************)
(* The end of a row: initScanline, reconstructRow, filterRowAt              *)
(***************************************************************************)

\* What the transform of a code adds: the AC3 transform knows three
\* coefficients, the DC transform one.
doTransform(code, coeffs) ==
    LET seen == CASE code = 3 -> 0 .. 15 [] code = 2 -> {0, 1, 4} [] code = 1 -> {0} [] OTHER -> {}
    IN [k \in 0 .. 15 |-> IF k \in seen THEN coeffs[k] ELSE 0]

\* The four blocks of a chroma plane from the block base on.
doUVTransform(block, base) ==
    LET any == \E n \in base .. base + 3 : block.NonZeroUV[n] >= 2
    IN [n \in base .. base + 3 |-> doTransform(IF any THEN 3 ELSE Flag(block.NonZeroUV[n] # 0),
                                              block.uv[n])]

\* The borders of the buffer at the head of a row.
RowBuffer ==
    IF mbY > 0 THEN [yuvB EXCEPT !.left = <<129>>, !.topLeft = <<129>>]
    ELSE [left |-> <<129>>, topLeft |-> <<127>>, top |-> <<127>>, topRight |-> <<127, "first">>]

\* The buffer for macroblock x: samples of the block before move to the left.
Rotated(buf, x) ==
    LET moved == IF x > 0 THEN [buf EXCEPT !.topLeft = buf.top, !.left = <<mbY, x - 1>>] ELSE buf
    IN IF mbY > 0 THEN [moved EXCEPT !.top = yuvT[x]] ELSE moved

WithTopRight(buf, x, above) ==
    IF mbY = 0 \/ ~mbData[x].IsI4x4 THEN buf
    ELSE [buf EXCEPT !.topRight = IF x >= frame.w - 1 THEN Append(above[x], "last")
                                  ELSE Append(above[x + 1], "first")]

Rebuilt(buf, x) ==
    LET block == mbData[x]
    IN [border |-> IF block.IsI4x4 THEN buf ELSE [buf EXCEPT !.topRight = <<>>],
        modes |-> IF block.IsI4x4 THEN block.IModes ELSE checkMode(x, mbY, block.IModes[0]),
        uvMode |-> checkMode(x, mbY, block.UVMode),
        y |-> [n \in 0 .. 15 |-> doTransform(block.NonZeroY[n], block.y[n])],
        uv |-> [n \in 0 .. 7 |-> doUVTransform(block, IF n < 4 THEN 0 ELSE 4)[n]]]

RECURSIVE reconstructFrom(_, _, _)
reconstructFrom(x, buf, done) ==
    LET next == WithTopRight(Rotated(buf, x), x, yuvT)
    IN IF x = frame.w THEN [buf |-> buf, done |-> done]
       ELSE reconstructFrom(x + 1, next, Append(done, Rebuilt(next, x)))

\* doFilter of each macroblock of the row whose limit is not zero.
RECURSIVE FilterRow(_)
FilterRow(x) ==
    IF x = frame.w THEN <<>>
    ELSE (IF fInfo[x].FLimit = 0 THEN <<>>
          ELSE << [mb |-> mbY * frame.w + x, type |-> FilterType(dec.filterHdr), info |-> fInfo[x]] >>)
             \o FilterRow(x + 1)

EndRow ==
    LET row == reconstructFrom(0, RowBuffer, <<>>)
    IN /\ stage = "row"
       /\ dec' = [dec EXCEPT !.intraL = NoModes]
       /\ mbInfo' = [mbInfo EXCEPT !.left = [Nz |-> 0, NzDC |-> 0]]
       /\ rebuilt' = rebuilt \o row.done
       /\ yuvB' = row.buf
       /\ yuvT' = IF mbY < frame.h - 1 THEN [x \in 0 .. frame.w - 1 |-> <<mbY, x>>] ELSE yuvT
       /\ filtered' = IF FilterType(dec.filterHdr) > 0 THEN filtered \o FilterRow(0) ELSE filtered
       /\ mbX' = 0
       /\ mbY' = mbY + 1
       /\ stage' = IF mbY + 1 = frame.h THEN "done" ELSE "modes"
       /\ UNCHANGED <<frame, readerVars, intraT, mbData, fInfo>>

DecoderInit ==
    /\ stage = "idle"
    /\ dec = PooledInit
    /\ frame = <<>>
    /\ br = <<>>
    /\ parts = <<>>
    /\ mbX = 0
    /\ mbY = 0
    /\ intraT = <<>>
    /\ mbInfo = <<>>
    /\ mbData = <<>>
    /\ fInfo = <<>>
    /\ yuvT = <<>>
    /\ yuvB = <<>>
    /\ rebuilt = <<>>
    /\ filtered = <<>>

DecoderStep ==
    \/ ParseIntraModeRow
    \/ DecodeMB
    \/ EndRow

\* ReleaseDecoder: the decoder goes back to the pool as it is.
Release ==
    /\ stage \in {"done", "failed"}
    /\ stage' = "idle"
    /\ UNCHANGED <<dec, frame, readerVars, mbX, mbY, rowVars, outVars>>
=============================================================================
