----------------------------- MODULE FrameHeader -----------------------------
(***************************************************************************)
(* The header of a lossy frame: segments, loop filter, partitions,          *)
(* quantizers and coefficient probabilities, as emitPartition0              *)
(* (encode_syntax.go) puts them and parseHeaders (decode.go) and ParseQuant *)
(* (decode_quant.go) get them.                                              *)
(*                                                                         *)
(*   segHdr     [UseSegment, UpdateMap, AbsoluteDelta, Quantizer,           *)
(*               FilterStrength], the last two by segment                   *)
(*   filterHdr  [Simple, Level, Sharpness, UseLFDelta, RefLFDelta,          *)
(*               ModeLFDelta]                                               *)
(*   segments   the three probabilities of the segment tree                 *)
(***************************************************************************)
EXTENDS BoolSymbols

\* A value that is only there when it is not zero.
PutOptional(v, n) == IF v = 0 THEN PutBitUniform(FALSE)
                     ELSE PutBitUniform(TRUE) \o PutBits(Magnitude(v), n) \o PutBitUniform(v < 0)

PutAll(values, n) ==
    LET Put[i \in 0 .. Len(values)] == IF i = 0 THEN <<>> ELSE Put[i - 1] \o PutOptional(values[i], n)
    IN Put[Len(values)]

\* A probability of 255 is not written.
PutProba(p) == PutBitUniform(p # 255) \o IF p = 255 THEN <<>> ELSE PutBits(p, 8)

writeSegmentHeader(hdr, segments) ==
    PutBitUniform(hdr.UseSegment) \o
    IF ~hdr.UseSegment THEN <<>>
    ELSE PutBitUniform(hdr.UpdateMap) \o PutBitUniform(TRUE) \o PutBitUniform(hdr.AbsoluteDelta)
             \o PutAll(hdr.Quantizer, 7) \o PutAll(hdr.FilterStrength, 6)
             \o IF hdr.UpdateMap
                THEN PutProba(segments[1]) \o PutProba(segments[2]) \o PutProba(segments[3])
                ELSE <<>>

\* The encoder never asks for deltas of modes or references.
writeFilterHeader(hdr) ==
    PutBitUniform(hdr.Simple) \o PutBits(hdr.Level, 6) \o PutBits(hdr.Sharpness, 3)
        \o PutBitUniform(hdr.UseLFDelta)

writeQuantParams(base, dqUVDC, dqUVAC) ==
    PutBits(base, 7) \o PutSignedBits(0, 4) \o PutSignedBits(0, 4) \o PutSignedBits(0, 4)
        \o PutSignedBits(dqUVDC, 4) \o PutSignedBits(dqUVAC, 4)

writeCoeffProba(table) == PutBit(table, CoeffTable)

(***************************************************************************)
(* Reading                                                                  *)
(***************************************************************************)

GetFlag(br) == GetBit(br, 128)

\* One value for each of those it may replace.
RECURSIVE GetAll(_, _, _, _)
GetAll(br, n, absent, got) ==
    LET present == GetFlag(br)
        value == IF present.val = 1 THEN GetSignedValue(present.br, n)
                 ELSE [br |-> present.br, val |-> absent[Len(got) + 1]]
    IN IF Len(got) = Len(absent) THEN [br |-> br, val |-> got]
       ELSE GetAll(value.br, n, absent, Append(got, value.val))

RECURSIVE GetProbas(_, _)
GetProbas(br, got) ==
    LET present == GetFlag(br)
        value == IF present.val = 1 THEN GetValue(present.br, 8) ELSE [br |-> present.br, val |-> 255]
    IN IF Len(got) = 3 THEN [br |-> br, val |-> got]
       ELSE GetProbas(value.br, Append(got, value.val))

NoDeltas == <<0, 0, 0, 0>>

\* Headers are read in stages.  A stage takes the header read so far, h,
\* whose reader is h.br, and returns it with what it has read.

\* An absent value of a segment is zero.
SegmentData(h) ==
    LET absolute == GetFlag(h.br)
        quants == GetAll(absolute.br, 7, NoDeltas, <<>>)
        strengths == GetAll(quants.br, 6, NoDeltas, <<>>)
    IN [h EXCEPT !.br = strengths.br, !.segHdr.AbsoluteDelta = absolute.val = 1,
                 !.segHdr.Quantizer = quants.val, !.segHdr.FilterStrength = strengths.val]

SegmentProbas(h) ==
    LET probas == GetProbas(h.br, <<>>)
    IN IF h.segHdr.UpdateMap THEN [h EXCEPT !.br = probas.br, !.segments = probas.val] ELSE h

parseSegmentHeader(h) ==
    LET use == GetFlag(h.br)
        flags == GetFields(use.br, <<1, 1>>, <<>>)
        used == [h EXCEPT !.br = flags.br, !.segHdr.UseSegment = TRUE,
                          !.segHdr.UpdateMap = flags.val[1] = 1]
    IN IF use.val = 0
       THEN [h EXCEPT !.br = use.br, !.segHdr.UseSegment = FALSE, !.segHdr.UpdateMap = FALSE]
       ELSE SegmentProbas(IF flags.val[2] = 1 THEN SegmentData(used) ELSE used)

\* An absent delta of the loop filter stays what it was.
FilterDeltas(h) ==
    LET update == GetFlag(h.br)
        refs == GetAll(update.br, 6, h.filterHdr.RefLFDelta, <<>>)
        modes == GetAll(refs.br, 6, h.filterHdr.ModeLFDelta, <<>>)
    IN IF update.val = 0 THEN [h EXCEPT !.br = update.br]
       ELSE [h EXCEPT !.br = modes.br, !.filterHdr.RefLFDelta = refs.val,
                      !.filterHdr.ModeLFDelta = modes.val]

parseFilterHeader(h) ==
    LET fields == GetFields(h.br, <<1, 6, 3, 1>>, <<>>)
        read == [h EXCEPT !.br = fields.br,
                          !.filterHdr = [@ EXCEPT !.Simple = fields.val[1] = 1, !.Level = fields.val[2],
                                                  !.Sharpness = fields.val[3],
                                                  !.UseLFDelta = fields.val[4] = 1]]
    IN IF fields.val[4] = 1 THEN FilterDeltas(read) ELSE read

\* 0 none, 1 simple, 2 complex.
FilterType(hdr) == IF hdr.Level = 0 THEN 0 ELSE IF hdr.Simple THEN 1 ELSE 2

(***************************************************************************)
(* Quantizers: the tables of the codec, for small qualities, and the        *)
(* factors of the three kinds of coefficients as <<DC, AC>>                 *)
(***************************************************************************)

KDcTable == <<4, 5, 6, 7, 8, 9, 10, 10, 11, 12, 13, 14, 15, 16, 17, 17, 18, 19, 20, 20, 21, 21, 22, 22, 23, 23, 24, 25, 25, 26>>
KAcTable == [i \in 1 .. 55 |-> i + 3]
KAcTable2 == <<8, 8, 9, 10, 12, 13, 15, 17, 18, 20, 21, 23, 24, 26, 27, 29, 31, 32, 34, 35, 37, 38, 40, 41, 43, 44, 46, 48, 49, 51>>

Clip(v, max) == IF v < 0 THEN 0 ELSE IF v > max THEN max ELSE v
Factor(table, q, max) == table[Clip(q, max) + 1]

AtLeast8(v) == IF v < 8 THEN 8 ELSE v

\* The decoder's factors of quality q.
QuantMatrix(q, y1dc, y2dc, y2ac, uvdc, uvac) ==
    [Y1 |-> <<Factor(KDcTable, q + y1dc, 127), Factor(KAcTable, q, 127)>>,
     Y2 |-> <<2 * Factor(KDcTable, q + y2dc, 127),
              AtLeast8((Factor(KAcTable, q + y2ac, 127) * 101581) \div 65536)>>,
     UV |-> <<Factor(KDcTable, q + uvdc, 117), Factor(KAcTable, q + uvac, 127)>>]

\* ParseQuant: a quality for each segment, or one for all; the deltas of
\* y1dc, y2dc, y2ac, uvdc and uvac are zero when absent.
ParseQuant(h) ==
    LET base == GetValue(h.br, 7)
        deltas == GetAll(base.br, 4, <<0, 0, 0, 0, 0>>, <<>>)
        d(k) == deltas.val[k]
        Quality(s) == IF ~h.segHdr.UseSegment THEN base.val
                      ELSE h.segHdr.Quantizer[s + 1] + IF h.segHdr.AbsoluteDelta THEN 0 ELSE base.val
    IN [h EXCEPT !.br = deltas.br,
                 !.dqm = [s \in 0 .. 3 |-> QuantMatrix(Quality(s), d(1), d(2), d(3), d(4), d(5))]]

\* setupSegment: the encoder's factors.
setupSegment(q, dqUVDC, dqUVAC) ==
    [Y1 |-> <<Factor(KDcTable, q, 127), Factor(KAcTable, q, 127)>>,
     Y2 |-> <<AtLeast8(2 * Factor(KDcTable, q, 127)), Factor(KAcTable2, q, 127)>>,
     UV |-> <<Factor(KDcTable, q + dqUVDC, 117), Factor(KAcTable, q + dqUVAC, 127)>>]
=============================================================================
