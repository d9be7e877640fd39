------------------------------ MODULE LossyCodec ------------------------------
(***************************************************************************)
(* The lossy encoder and decoder together: pictures are encoded one after   *)
(* the other, each frame reaches the decoder whole or cut short, and both   *)
(* sides go back to their pools and are used again.                         *)
(***************************************************************************)
EXTENDS LossyWriter, LossyDecoder

CONSTANTS Cuts(_)      \* how much of a frame's tokens may arrive, of so many

VARIABLE arrival       \* how the current frame arrived

vars == <<writerVars, decoderVars, arrival>>

Whole(f) == TotalLen(f.tokens, Len(f.tokens))

Deliver ==
    /\ phase = "sent"
    /\ arrival = "none"
    /\ \E cut \in Cuts(Whole(file)) :
          /\ StartFrame([part0 |-> file.part0, w |-> file.w, h |-> file.h,
                         tokens |-> file.tokens, cut |-> cut])
          /\ arrival' = IF cut = Whole(file) THEN "whole" ELSE "cut"
    /\ UNCHANGED writerVars

Encode == WriterStep /\ UNCHANGED <<decoderVars, arrival>>

Decode == DecoderStep /\ UNCHANGED <<writerVars, arrival>>

\* Both sides are released and taken again.
Again ==
    /\ Release
    /\ NextPicture
    /\ arrival' = "none"

Init == WriterInit /\ DecoderInit /\ arrival = "none"

Next ==
    \/ Encode
    \/ Deliver
    \/ Decode
    \/ Again

Spec == Init /\ [][Next]_vars

(***************************************************************************)
(* Properties                                                               *)
(***************************************************************************)

\* The frame being decoded started with no modes left of another frame.
CleanStart == frame # <<>> /\ ~frame.stale

\* A decoder reads every bit with the probability it was written with, stops
\* where the writer stopped, and fails only when something is missing; what
\* is missing never passes for a picture (emitPartition0 and recordMBTokens
\* against parseHeaders, parseIntraModeRow and parseResiduals).  Modes left
\* in a decoder by a frame that failed are the exception (CleanStart).
ReadsWhatWasWritten ==
    /\ stage \in {"blocks", "row", "modes", "done"} /\ CleanStart =>
          ~br.bad /\ \A p \in DOMAIN parts : ~parts[p].bad
    /\ stage = "done" /\ CleanStart =>
          /\ arrival = "whole"
          /\ br.pos = Len(br.data) + 1
          /\ \A p \in DOMAIN parts : parts[p].pos = Len(parts[p].data) + 1
    /\ stage = "failed" /\ CleanStart => arrival = "cut"

\* Every macroblock is rebuilt from the samples, with the modes and with the
\* coefficients the encoder reconstructed it from: what is predicted later
\* does not drift (reconstructMB and FillPredContext against parseResiduals
\* and reconstructRow).
RebuildsEveryMacroblock == stage = "done" /\ CleanStart => rebuilt = recon

\* The macroblocks are filtered once each, in order, with the strength of
\* their own segment and kind in this frame's header, inner edges included
\* when they are 4x4 or have coefficients (precomputeFilterStrengths, decodeMB
\* and doFilter; the strengths of the frame before are still in the decoder).
FilterExact ==
    LET Expected(i) ==
            LET info == infos[i]
            IN [FilterOf(NoFInfo,
                         LevelOf(header.segmentHdr, header.filterHdr, info.Segment, info.MBType),
                         header.filterHdr.Sharpness, info.MBType = 1)
                    EXCEPT !.FInner = @ \/ ~info.Skip]
        IsFiltered(i) == header.filterHdr.Level > 0 /\ Expected(i).FLimit > 0
        RECURSIVE From(_)
        From(i) == IF i = totalMB THEN <<>>
                   ELSE (IF IsFiltered(i)
                         THEN << [mb |-> i, type |-> FilterType(header.filterHdr), info |-> Expected(i)] >>
                         ELSE <<>>) \o From(i + 1)
    IN stage = "done" /\ CleanStart => filtered = From(0)

\* The context of a block is the number of its neighbours above and to the
\* left that have coefficients, wherever they are; a block of luma DC looks
\* at the last macroblocks that have one (the packed bits of topNz and leftNz
\* and the flags of topNzDC and leftNzDC, in every walk over the frame).
ContextsAreNeighbours ==
    LET Block(plane, size, gx, gy) ==   \* 0 luma, 1 U, 2 V; size blocks in a row
            IF gx < 0 \/ gy < 0 THEN 0
            ELSE LET info == infos[(gy \div size) * mbW + gx \div size]
                     n == (gy % size) * size + (gx % size)
                 IN Flag(~info.Skip /\ IF plane = 0 THEN NzY(info, n) ELSE NzUV(info, (plane - 1) * 4 + n))
        Near(i, plane, size, n) ==
            LET gx == X(i) * size + (n % size)
                gy == Y(i) * size + n \div size
            IN Block(plane, size, gx - 1, gy) + Block(plane, size, gx, gy - 1)
        LastDC(before) ==
            LET i == CHOOSE j \in before : \A k \in before : k <= j
            IN IF before = {} THEN 0 ELSE Flag(~infos[i].Skip /\ infos[i].dc # Zeros)
        HasDC(i) == infos[i].MBType = 0
        Expected(i) ==
            [dc |-> LastDC({j \in MBs : j < i /\ X(j) = X(i) /\ HasDC(j)})
                    + LastDC({j \in MBs : j < i /\ Y(j) = Y(i) /\ HasDC(j)}),
             y |-> [n \in 1 .. 16 |-> Near(i, 0, 4, n - 1)],
             uv |-> [n \in 1 .. 8 |-> Near(i, IF n <= 4 THEN 1 ELSE 2, 2, (n - 1) % 4)]]
    IN phase \in {"restart", "optimize", "emit"} =>
          \A k \in 1 .. Len(contexts) : contexts[k] = Expected((k - 1) % totalMB)

\* The statistics the tables are computed from count exactly the bits that
\* are coded with those tables, with the same contexts (collectCoeffStats
\* mirrors RecordCoeffs; collectAllStats and collectMBStats mirror
\* recordMBTokens).
StatsCountTokens ==
    LET FromTable(symbol) == symbol[1] >= 256
        coded == SelectSeq(tokens, FromTable)
    IN phase = "emit" =>
          stats = [k \in 1 .. Len(coded) |-> <<256 + ((coded[k][1] - 256) % 1056), coded[k][2]>>]
=============================================================================
