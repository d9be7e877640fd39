----------------------------- MODULE LossyWriter -----------------------------
(***************************************************************************)
(* From the decisions of the lossy encoder to the symbols of a frame        *)
(* (internal/lossy: analysis, encodeFrame, recordAllTokens, emitFrame).     *)
(*                                                                         *)
(* A picture brings what the search for modes and levels decides: for each  *)
(* macroblock its modes and quantized coefficients, for each segment its    *)
(* quality.  The model follows what is derived from them and must be        *)
(* derived again by a decoder: the pixels a macroblock is predicted from,   *)
(* the contexts and tables its coefficients are coded with, the segments    *)
(* and filter strengths of the header, the tokens and their partitions.     *)
(*                                                                         *)
(* Pixels are the place they were reconstructed at, <<y, x>>, or the value  *)
(* of a border, <<127>> and <<129>>; luma stands for the three planes.      *)
(* A context of non-zero blocks is packed in bits, as in the code: four for *)
(* luma, two for U and two for V.                                           *)
(***************************************************************************)
EXTENDS ModeTrees, CoeffTokens, FrameHeader, FiniteSets

CONSTANTS Pictures,          \* the sequences of pictures encoded one after the other
          MinParallelRows    \* rows from which workers encode (4 in the code)

VARIABLES
    pics,       \* the pictures that are left, the current one first
    phase,      \* where the current picture is
    dqm,        \* Quant, FStrength and Beta of each segment
    header,     \* segmentHdr, filterHdr and proba.Segments
    infos,      \* mbInfo
    mbIdx,      \* the iterator
    samples,    \* topY, leftY and topLeftY of the iterator
    nz,         \* topNz, topNzDC, leftNz, leftNzDC
    recon,      \* history: how each macroblock was reconstructed
    contexts,   \* history: the contexts of each macroblock's blocks, in any walk
    table,      \* version of the coefficient probabilities
    tokens, mbStart, numSkip,
    stats,      \* the counters of ProbaStats
    file        \* what emitFrame returned

setup == <<dqm, header, table>>
walk == <<mbIdx, samples, nz, recon, contexts>>
recorded == <<tokens, mbStart, numSkip, stats>>
writerVars == <<pics, phase, setup, infos, walk, recorded, file>>

pic == Head(pics)
mbW == pic.w
mbH == pic.h
totalMB == mbW * mbH
MBs == 0 .. totalMB - 1
X(i) == i % mbW
Y(i) == i \div mbW

useParallel == pic.method >= 3 /\ pic.cpus /\ mbH >= MinParallelRows

(***************************************************************************)
(* Analysis: segments, their filter strength and the header                 *)
(***************************************************************************)

\* kLevelsFromDelta, for the two sharpnesses of the pictures.
filterStrengthFromDelta(sharpness, delta) ==
    IF sharpness = 0 THEN delta
    ELSE <<0, 1, 2, 4, 5, 7, 8, 9, 11, 12, 13, 15, 16, 17, 19>>[delta + 1]

qstep(q) == Factor(KAcTable, q, 127) \div 4

Strength(q, beta) ==
    LET f == (filterStrengthFromDelta(pic.sharpness, qstep(q)) * 5 * pic.strength) \div (256 + beta)
    IN IF f < 2 THEN 0 ELSE IF f > 63 THEN 63 ELSE f

\* setSegmentParams, from the qualities on, and setupFilterStrength.
InitialSegments ==
    [s \in 0 .. 3 |->
        LET used == s < pic.numSegs
            q == pic.quants[IF used THEN s + 1 ELSE 1]
        IN [Quant |-> q, Beta |-> IF used THEN pic.betas[s + 1] ELSE 0,
            FStrength |-> IF used /\ pic.strength > 0 THEN Strength(q, pic.betas[s + 1]) ELSE 0]]

FilterHdr(segs) ==
    [Simple |-> pic.simple, Sharpness |-> pic.sharpness, UseLFDelta |-> FALSE,
     Level |-> IF pic.strength <= 0 THEN 0 ELSE segs[0].FStrength,
     RefLFDelta |-> NoDeltas, ModeLFDelta |-> NoDeltas]

\* The loop of simplifySegments: s1 joins an equal segment before it or
\* becomes the next one.
RECURSIVE Simplified(_, _, _, _)
Simplified(s1, segs, segMap, numFinal) ==
    LET equal == {s2 \in 0 .. numFinal - 1 : segs[s1].Quant = segs[s2].Quant
                                             /\ segs[s1].FStrength = segs[s2].FStrength}
        s2 == CHOOSE s \in equal : \A t \in equal : s <= t
    IN IF s1 = pic.numSegs THEN [segs |-> segs, segMap |-> segMap, num |-> numFinal]
       ELSE IF equal # {} THEN Simplified(s1 + 1, segs, [segMap EXCEPT ![s1] = s2], numFinal)
       ELSE Simplified(s1 + 1, [segs EXCEPT ![numFinal] = segs[s1]],
                       [segMap EXCEPT ![s1] = numFinal], numFinal + 1)

simplifySegments ==
    LET done == Simplified(1, InitialSegments, [s \in 0 .. 3 |-> s], 1)
    IN [done EXCEPT !.segs = [s \in 0 .. 3 |->
            IF s \in done.num .. pic.numSegs - 1 THEN done.segs[done.num - 1] ELSE done.segs[s]]]

Div(a, b) == IF a < 0 THEN - ((- a) \div b) ELSE a \div b
Clamp(v, lo, hi) == IF v < lo THEN lo ELSE IF v > hi THEN hi ELSE v

buildSegmentHeader(segs, numSegs) ==
    LET Coded(f(_)) == [i \in 1 .. 4 |-> IF numSegs > 1 /\ i <= numSegs THEN f(i - 1) ELSE 0]
        Quality(s) == segs[s].Quant
        fDelta(s) == Clamp(Div((qstep(segs[s].Quant) - qstep(segs[0].Quant)) * pic.strength, 100), -63, 63)
    IN [UseSegment |-> numSegs > 1, UpdateMap |-> numSegs > 1, AbsoluteDelta |-> TRUE,
        Quantizer |-> Coded(Quality), FilterStrength |-> Coded(fDelta)]

getProba(a, b) == IF a + b = 0 THEN 255 ELSE (255 * a + (a + b) \div 2) \div (a + b)

segmentProbas(segment) ==
    LET count(s) == Cardinality({i \in MBs : segment[i] = s})
    IN <<getProba(count(0) + count(1), count(2) + count(3)), getProba(count(0), count(1)),
         getProba(count(2), count(3))>>

FreshInfo(content, s) ==
    [MBType |-> content.MBType, Modes |-> content.Modes, UVMode |-> content.UVMode,
     dc |-> content.dc, y |-> content.y, uv |-> content.uv, Segment |-> s, Skip |-> FALSE]

NoContexts == [topNz |-> [x \in 0 .. mbW - 1 |-> 0], topNzDC |-> [x \in 0 .. mbW - 1 |-> 0],
               leftNz |-> 0, leftNzDC |-> 0]

\* InitIterator, and the contexts at the head of a pass.
StartPass ==
    /\ mbIdx' = 0
    /\ samples' = [topY |-> [x \in 0 .. mbW - 1 |-> <<127>>], leftY |-> <<129>>, topLeftY |-> <<127>>]
    /\ nz' = NoContexts

SegmentsRemapped(done) == [i \in MBs |-> done.segMap[pic.map[i + 1]]]

\* analysis and setSegmentProbas.  When every probability is 255 the map is
\* not written and every macroblock is in segment 0.
Analyse ==
    LET done == simplifySegments
        segment == SegmentsRemapped(done)
        probas == segmentProbas(segment)
        hdr == buildSegmentHeader(done.segs, done.num)
        mapped == probas # <<255, 255, 255>>
    IN /\ phase = "analysis"
       /\ dqm' = done.segs
       /\ header' = [segmentHdr |-> [hdr EXCEPT !.UpdateMap = @ /\ mapped],
                     filterHdr |-> FilterHdr(InitialSegments), segments |-> probas]
       /\ infos' = [i \in MBs |-> FreshInfo(pic.mbs[i + 1], IF mapped THEN segment[i] ELSE 0)]
       /\ StartPass
       /\ numSkip' = 0
       /\ mbStart' = IF DOMAIN mbStart = 0 .. totalMB THEN mbStart ELSE [i \in 0 .. totalMB |-> 0]
       /\ tokens' = <<>>
       /\ stats' = <<>>
       /\ recon' = <<>>
       /\ contexts' = <<>>
       /\ phase' = IF pic.method < 3 THEN "stat" ELSE "encode"
       /\ UNCHANGED <<pics, table, file>>

(***************************************************************************)
(* Contexts of non-zero blocks                                              *)
(***************************************************************************)

\* Block n has coefficients, or levels beyond the DC that goes to Y2.
First(info) == IF info.MBType = 0 THEN 1 ELSE 0
NzY(info, n) == NzCount(info.y[n]) > First(info)
NzUV(info, n) == NzCount(info.uv[n]) > 0

\* Walks over n blocks of a plane, size in a row, with the bits of the blocks
\* above (tnz) and to the left (lnz), which come back updated.
RECURSIVE Scan(_, _, _, _, _, _, _)
Scan(nonzero, size, tnz, lnz, l, n, ctxs) ==
    LET left == IF (n % size) = 0 THEN lnz % 2 ELSE l
        bit == Flag(nonzero[n])
        high == IF size = 4 THEN 7 ELSE 3
        t == tnz \div 2 + bit * 2 ^ high
        lastInRow == (n % size) = size - 1
    IN IF n = size * size THEN [tnz |-> tnz, lnz |-> lnz, ctxs |-> ctxs]
       ELSE Scan(nonzero, size,
                 IF lastInRow THEN t \div 2 ^ size ELSE t,
                 IF lastInRow THEN lnz \div 2 + bit * 2 ^ (IF size = 4 THEN 7 ELSE 5) ELSE lnz,
                 bit, n + 1, Append(ctxs, left + (tnz % 2)))

Nibble(bits, shift) == (bits \div 2 ^ shift) % 16

\* The contexts of the blocks of a macroblock, and the packed bits after it.
ScanMB(info, topNz, leftNz) ==
    LET luma == Scan([n \in 0 .. 15 |-> NzY(info, n)], 4, topNz % 16, leftNz % 16, 0, 0, <<>>)
        Chroma(ch) == Scan([n \in 0 .. 3 |-> NzUV(info, 2 * ch + n)], 2,
                           Nibble(topNz, 4 + ch), Nibble(leftNz, 4 + ch), 0, 0, <<>>)
        u == Chroma(0)
        v == Chroma(2)
    IN [y |-> luma.ctxs, uv |-> u.ctxs \o v.ctxs,
        topNz |-> luma.tnz + u.tnz * 16 + v.tnz * 64,
        leftNz |-> luma.lnz \div 16 + (u.lnz \div 16) * 16 + (v.lnz \div 16) * 64]

\* NZ context of the Y2 block: only macroblocks that have one change it.
dcContext(c, x) == c.topNzDC[x] + c.leftNzDC

\* leftNz and leftNzDC are reset at the head of a row.
RowStart(c, i) == IF X(i) = 0 THEN [c EXCEPT !.leftNz = 0, !.leftNzDC = 0] ELSE c

WithDC(c, x, info, bit) ==
    IF info.MBType = 0 THEN [c EXCEPT !.topNzDC[x] = bit, !.leftNzDC = bit] ELSE c

ClearedKeepingDC(c, x, info) == [c EXCEPT !.topNz[x] = 0, !.leftNz = 0]   \* mutant: NzDC stays

\* A skipped macroblock.
Cleared(c, x, info) == [WithDC(c, x, info, 0) EXCEPT !.topNz[x] = 0, !.leftNz = 0]

updateNZContext(c, x, info) ==
    LET scan == ScanMB(info, c.topNz[x], c.leftNz)
    IN [WithDC(c, x, info, Flag(NzCount(info.dc) > 0)) EXCEPT
            !.topNz[x] = scan.topNz, !.leftNz = scan.leftNz]

(***************************************************************************)
(* Tokens and statistics of a macroblock                                    *)
(***************************************************************************)

\* The blocks of a macroblock in the order they are coded: coefficients,
\* type, first coefficient and context.
MBBlocks(info, ctxs) ==
    (IF info.MBType = 0 THEN << <<info.dc, 1, 0, ctxs.dc>> >> ELSE <<>>)
        \o [n \in 1 .. 16 |-> <<info.y[n - 1], IF info.MBType = 0 THEN 0 ELSE 3, First(info), ctxs.y[n]>>]
        \o [n \in 1 .. 8 |-> <<info.uv[n - 1], 2, 0, ctxs.uv[n]>>]

RECURSIVE TokensOf(_, _, _), StatsOf(_, _)
TokensOf(blocks, t, k) ==
    IF k > Len(blocks) THEN <<>>
    ELSE RecordCoeffs(blocks[k][1], t, blocks[k][2], blocks[k][3], blocks[k][4])
             \o TokensOf(blocks, t, k + 1)

StatsOf(blocks, k) ==
    IF k > Len(blocks) THEN <<>>
    ELSE collectCoeffStats(blocks[k][1], blocks[k][2], blocks[k][3], blocks[k][4])
             \o StatsOf(blocks, k + 1)

MBContexts(c, i, info) ==
    LET scan == ScanMB(info, c.topNz[X(i)], c.leftNz)
    IN [dc |-> dcContext(c, X(i)), y |-> scan.y, uv |-> scan.uv]

recordMBTokens(c, i, info, t) == TokensOf(MBBlocks(info, MBContexts(c, i, info)), t, 1)

StatsAlone(c, i, info) ==   \* mutant: contexts without neighbours
    StatsOf(MBBlocks(info, MBContexts(NoContexts, i, info)), 1)

collectMBStats(c, i, info) == StatsOf(MBBlocks(info, MBContexts(c, i, info)), 1)

\* The contexts after a macroblock, coded or skipped.
Passed(c, i, info) ==
    IF info.Skip THEN Cleared(c, X(i), info) ELSE updateNZContext(c, X(i), info)

(***************************************************************************)
(* The encoding pass (encodeFrame, or the rows of encodeFrameParallel)      *)
(***************************************************************************)

\* The samples around macroblock i that its prediction reads (FillPredContext).
FillPredContext(i) ==
    LET x == X(i)
        y == Y(i)
    IN [top |-> IF y > 0 THEN samples.topY[x] ELSE <<127>>,
        topRight |-> IF y = 0 THEN <<127, "first">>
                     ELSE IF x < mbW - 1 THEN Append(samples.topY[x + 1], "first")
                     ELSE Append(samples.topY[x], "last"),
        topLeft |-> IF x > 0 /\ y > 0 THEN samples.topLeftY ELSE IF y > 0 THEN <<129>> ELSE <<127>>,
        left |-> IF x > 0 THEN samples.leftY ELSE <<129>>]

ExportedLate(i) ==   \* mutant: the top-left sample is saved after the top row
    [topY |-> [samples.topY EXCEPT ![X(i)] = <<Y(i), X(i)>>], leftY |-> <<Y(i), X(i)>>,
     topLeftY |-> <<Y(i), X(i)>>]

\* Export keeps the top-left sample before the top row is replaced.
Export(i) ==
    [topY |-> [samples.topY EXCEPT ![X(i)] = <<Y(i), X(i)>>], leftY |-> <<Y(i), X(i)>>,
     topLeftY |-> samples.topY[X(i)]]

\* The border, modes and coefficients macroblock i is rebuilt from, for the
\* macroblocks after it to be predicted from it.
reconstructMB(i, info) ==
    LET seg == setupSegment(dqm[info.Segment].Quant, pic.dqUVDC, pic.dqUVAC)
        is4 == info.MBType = 1
        border == FillPredContext(i)
        wht == TransformWHT(Dequantized(info.dc, seg.Y2))
        Luma(n) == Dequantized(info.y[n], seg.Y1)
    IN [border |-> IF is4 THEN border ELSE [border EXCEPT !.topRight = <<>>],
        modes |-> IF is4 THEN info.Modes ELSE checkMode(X(i), Y(i), info.Modes[0]),
        uvMode |-> checkMode(X(i), Y(i), info.UVMode),
        y |-> [n \in 0 .. 15 |-> IF is4 THEN Luma(n) ELSE [Luma(n) EXCEPT ![0] = wht[n]]],
        uv |-> [n \in 0 .. 7 |-> Dequantized(info.uv[n], seg.UV)]]

\* A pass of statistics decides for itself.
Decision(i) == pic.mbs[IF phase = "stat" THEN totalMB - i ELSE i + 1]

IsSkip(content) ==
    /\ content.MBType = 0 => content.dc = Zeros
    /\ \A n \in 0 .. 15 : content.y[n] = Zeros
    /\ \A n \in 0 .. 7 : content.uv[n] = Zeros

EncodeMB ==
    LET i == mbIdx
        info == [FreshInfo(Decision(i), infos[i].Segment) EXCEPT !.Skip = IsSkip(Decision(i))]
        c == RowStart(nz, i)
        records == phase = "encode" /\ ~useParallel /\ ~info.Skip
        last == i = totalMB - 1
    IN /\ phase \in {"stat", "encode"}
       /\ infos' = [infos EXCEPT ![i] = info]
       /\ numSkip' = numSkip + Flag(info.Skip)
       /\ tokens' = IF records THEN tokens \o recordMBTokens(c, i, info, table) ELSE tokens
       /\ mbStart' = IF records THEN [mbStart EXCEPT ![i] = Len(tokens)] ELSE mbStart
       /\ contexts' = Append(contexts, MBContexts(c, i, info))
       /\ recon' = Append(recon, reconstructMB(i, info))
       /\ nz' = Passed(c, i, info)
       /\ samples' = IF X(i) = mbW - 1 THEN [Export(i) EXCEPT !.leftY = <<129>>, !.topLeftY = <<127>>]
                     ELSE Export(i)
       /\ mbIdx' = i + 1
       /\ phase' = IF ~last THEN phase
                   ELSE IF phase = "stat" THEN "restart"
                   ELSE IF useParallel THEN "record" ELSE "collect"
       /\ UNCHANGED <<pics, setup, stats, file>>

(***************************************************************************)
(* Walks over the whole frame: rerecordAllTokens, collectAllStats and       *)
(* recordAllTokens, which does both                                         *)
(***************************************************************************)

RECURSIVE WalkFrom(_, _, _, _)
WalkFrom(i, c0, t, out) ==
    LET info == infos[i]
        c == RowStart(c0, i)
        coded == [out EXCEPT !.tokens = @ \o recordMBTokens(c, i, info, t),
                             !.stats = @ \o collectMBStats(c, i, info),
                             !.mbStart[i] = Len(out.tokens),
                             !.contexts = Append(@, MBContexts(c, i, info))]
        skipped == [out EXCEPT !.contexts = Append(@, MBContexts(c, i, info))]
    IN IF i = totalMB THEN [out EXCEPT !.nz = c0]
       ELSE WalkFrom(i + 1, Passed(c, i, info), t, IF info.Skip THEN skipped ELSE coded)

Walk(t) ==
    WalkFrom(0, NoContexts, t, [tokens |-> <<>>, stats |-> <<>>, mbStart |-> mbStart,
                                contexts |-> <<>>, nz |-> nz])

\* After a pass of statistics the table of probabilities may change.
EndStatPass ==
    /\ phase = "restart"
    /\ \E changed \in {0, 1} : table' = table + changed
    /\ StartPass
    /\ numSkip' = 0
    /\ recon' = <<>>
    /\ contexts' = <<>>
    /\ phase' = "encode"
    /\ UNCHANGED <<pics, dqm, header, infos, tokens, mbStart, stats, file>>

\* Phase B of the parallel path, once every row is encoded.
RecordAllTokens ==
    LET walked == Walk(table)
    IN /\ phase = "record"
       /\ tokens' = walked.tokens
       /\ mbStart' = walked.mbStart
       /\ stats' = walked.stats
       /\ nz' = walked.nz
       /\ contexts' = contexts \o walked.contexts
       /\ numSkip' = Cardinality({i \in MBs : infos[i].Skip})
       /\ phase' = "optimize"
       /\ UNCHANGED <<pics, setup, infos, mbIdx, samples, recon, file>>

CollectAllStats ==
    LET walked == Walk(table)
    IN /\ phase = "collect"
       /\ stats' = walked.stats
       /\ contexts' = contexts \o walked.contexts
       /\ phase' = "optimize"
       /\ UNCHANGED <<pics, setup, infos, mbIdx, samples, nz, recon, tokens, mbStart, numSkip, file>>

KeptTokens(walked) == tokens   \* mutant: the tokens are not recorded again

Rerecorded(walked) == walked.tokens

\* optimizeProba keeps the table or changes it; every token follows.
OptimizeProba ==
    /\ phase = "optimize"
    /\ phase' = "emit"
    /\ \/ UNCHANGED <<table, tokens, mbStart, nz, contexts>>
       \/ LET walked == Walk(table + 1)
          IN /\ table' = table + 1
             /\ tokens' = Rerecorded(walked)
             /\ mbStart' = walked.mbStart
             /\ nz' = walked.nz
             /\ contexts' = contexts \o walked.contexts
    /\ UNCHANGED <<pics, dqm, header, infos, mbIdx, samples, recon, numSkip, stats, file>>

(***************************************************************************)
(* emitFrame                                                                *)
(***************************************************************************)

skipProba == ((totalMB - numSkip) * 255) \div totalMB

log2Parts == CASE pic.parts = 2 -> 1 [] pic.parts = 4 -> 2 [] pic.parts = 8 -> 3 [] OTHER -> 0

\* Sixteen modes in the bitstream's order of contexts; a 16x16 mode leaves
\* itself in all of them.
RECURSIVE writeMBModes(_, _, _)
writeMBModes(i, topModes, leftModes) ==
    LET info == infos[i]
        left == IF X(i) = 0 THEN [n \in 0 .. 3 |-> BDCPred] ELSE leftModes
        top == topModes[X(i)]
        all == [n \in 0 .. 3 |-> info.Modes[0]]
        is4 == info.MBType = 1
        bits == (IF header.segmentHdr.UseSegment /\ header.segmentHdr.UpdateMap
                 THEN writeSegmentID(info.Segment, header.segments) ELSE <<>>)
                \o (IF numSkip > 0 THEN PutBit(Flag(info.Skip), skipProba) ELSE <<>>)
                \o PutBit(Flag(~is4), 145)
                \o (IF is4 THEN I4Modes(info.Modes, top, left, 0) ELSE writeI16Mode(info.Modes[0]))
                \o writeUVMode(info.UVMode)
    IN IF i = totalMB THEN <<>>
       ELSE bits \o writeMBModes(i + 1,
                [topModes EXCEPT ![X(i)] = IF is4 THEN [n \in 0 .. 3 |-> info.Modes[12 + n]] ELSE all],
                IF is4 THEN [n \in 0 .. 3 |-> info.Modes[4 * n + 3]] ELSE all)

emitPartition0 ==
    PutBits(0, 2) \o writeSegmentHeader(header.segmentHdr, header.segments)
        \o writeFilterHeader(header.filterHdr) \o PutBits(log2Parts, 2)
        \o writeQuantParams(dqm[0].Quant, pic.dqUVDC, pic.dqUVAC) \o PutBitUniform(FALSE)
        \o writeCoeffProba(table)
        \o (IF numSkip > 0 THEN PutBitUniform(TRUE) \o PutBits(skipProba, 8) ELSE PutBitUniform(FALSE))
        \o writeMBModes(0, [x \in 0 .. mbW - 1 |-> [n \in 0 .. 3 |-> BDCPred]],
                         [n \in 0 .. 3 |-> BDCPred])

\* The tokens of the rows of a partition, from the start of each macroblock
\* to the start of the next.
RECURSIVE PartitionFrom(_, _, _)
PartitionFrom(part, starts, i) ==
    IF i = totalMB THEN <<>>
    ELSE (IF Y(i) % pic.parts = part THEN SubSeq(tokens, starts[i] + 1, starts[i + 1]) ELSE <<>>)
             \o PartitionFrom(part, starts, i + 1)

EmitTokensPartitioned(part) ==
    IF pic.parts <= 1 THEN tokens
    ELSE PartitionFrom(part, [mbStart EXCEPT ![totalMB] = Len(tokens)], 0)

EmitFrame ==
    /\ phase = "emit"
    /\ file' = [part0 |-> emitPartition0, w |-> mbW, h |-> mbH,
                tokens |-> [p \in 1 .. pic.parts |-> EmitTokensPartitioned(p - 1)]]
    /\ phase' = "sent"
    /\ UNCHANGED <<pics, setup, infos, walk, recorded>>

\* The next picture goes to the same encoder, from its pool.
NextPicture ==
    /\ phase = "sent"
    /\ Len(pics) > 1
    /\ pics' = Tail(pics)
    /\ table' = 0
    /\ phase' = "analysis"
    /\ UNCHANGED <<dqm, header, infos, walk, recorded, file>>

WriterInit ==
    /\ pics \in Pictures
    /\ phase = "analysis"
    /\ dqm = <<>>
    /\ header = <<>>
    /\ infos = <<>>
    /\ mbIdx = 0
    /\ samples = <<>>
    /\ nz = <<>>
    /\ recon = <<>>
    /\ contexts = <<>>
    /\ table = 0
    /\ tokens = <<>>
    /\ mbStart = <<>>
    /\ numSkip = 0
    /\ stats = <<>>
    /\ file = <<>>

WriterStep ==
    \/ Analyse
    \/ EncodeMB
    \/ EndStatPass
    \/ RecordAllTokens
    \/ CollectAllStats
    \/ OptimizeProba
    \/ EmitFrame
=============================================================================
