------------------------------ MODULE FrameLoop ------------------------------
(***************************************************************************)
(* VP8Encoder.EncodeFrame (src/internal/lossy/encode.go): the passes over   *)
(* the macroblocks of one frame, and what the emitted frame is made of.     *)
(*                                                                          *)
(*   method < 3   statLoop runs encodeFrame without tokens and exports      *)
(*   search       the frame is encoded again with an adjusted quality       *)
(*                until adjustQuantForTarget is content or passes run out   *)
(*   finally      statistics, optimizeProba, rerecordAllTokens, emitFrame   *)
(*                                                                          *)
(* Data are abstracted to identities: a macroblock remembers the quality    *)
(* whose quantizers made its coefficients, the pass and the pixels it read; *)
(* the probability tables are a version number, raised when optimizeProba   *)
(* changes an entry; a macroblock that has coefficients records one token,  *)
(* which stands for all of its tokens and carries the tables they were      *)
(* recorded with.                                                           *)
(***************************************************************************)
EXTENDS Integers, Sequences, FiniteSets, Functions, SequencesExt

CONSTANTS mbW, mbH,        \* the frame in macroblocks
          Configs,         \* encoder configurations
          Qualities,       \* config.Quality: the qualities a search may visit
          MinRefreshCount  \* minRefreshCount (96 in the code)

Searches == {"none", "size", "psnr"}

ASSUME FrameLoopAssumption ==
    /\ mbW \in Nat \ {0} /\ mbH \in Nat \ {0}
    /\ MinRefreshCount \in Nat \ {0}
    /\ Qualities \subseteq Nat
    /\ Configs \subseteq [method3 : BOOLEAN,    \* Method >= 3
                          cpus : BOOLEAN,       \* GOMAXPROCS(0) > 1
                          search : Searches,    \* TargetSize / TargetPSNR set
                          pass : Nat,           \* config.Pass
                          numParts : {1, 2, 4, 8},
                          skips : BOOLEAN]      \* the picture has flat parts

totalMB == mbW * mbH
MBs == 0 .. totalMB - 1
X(i) == i % mbW
Y(i) == i \div mbW

\* The members of S, a set of macroblocks, in raster order.
Before(S, i) == {j \in S : j < i}
InRasterOrder(S) ==
    [n \in 1 .. Cardinality(S) |-> CHOOSE i \in S : Cardinality(Before(S, i)) = n - 1]

VARIABLES
    cfg,        \* enc.config, but for the quality
    quality,    \* config.Quality; dqm and segmentHdr are computed from it
    phase,      \* where EncodeFrame is
    pass,       \* the pass that runs, counted over statLoop and the main loop
    mbIdx,      \* the iterator
    refreshCnt,
    info,       \* mbInfo
    numSkip,
    proba,      \* version of enc.proba
    tokens,     \* enc.tokens
    mbStart,    \* TokenBuffer.mbStart
    recon,      \* macroblocks whose planes hold reconstructed pixels
    saved,      \* the planes saved by saveSourcePixels
    rateCtrl,   \* passStats
    out         \* the emitted frame

encVars == <<cfg, quality, phase, pass>>
mbVars == <<mbIdx, refreshCnt, info, numSkip>>
tokenVars == <<tokens, mbStart>>
planeVars == <<recon, saved>>
vars == <<encVars, mbVars, proba, tokenVars, planeVars, rateCtrl, out>>

NoPlanes == {-1}     \* savedY is nil
NoFrame == [q |-> 0, proba |-> 0, numSkip |-> 0, parts |-> <<>>]
FreshInfo == [q |-> 0, pass |-> 0, skip |-> FALSE, from |-> "source", Disto |-> 0]

useParallel ==
    cfg.cpus /\ mbH >= 4 /\ cfg.method3 /\ cfg.search = "none"

\* maxPasses of the main loop: a search gets at least three.
Max2(a, b) == IF a > b THEN a ELSE b
maxPasses == IF cfg.search = "none" THEN 1 ELSE Max2(cfg.pass, 3)
statPasses == IF Max2(cfg.pass, 1) > 10 THEN 10 ELSE Max2(cfg.pass, 1)

maxCount == Max2(totalMB \div 8, MinRefreshCount)

(***************************************************************************)
(* Probabilities                                                            *)
(***************************************************************************)

\* collectAllStats walks every mbInfo entry, encoded in this pass or not; an
\* entry that is not a skip contributes, if only end-of-block symbols.
HasStats == \E i \in MBs : ~info[i].skip

\* optimizeProba(stats, proba): k entries are worth an update, compared with
\* the default tables; the tables may be what they were all the same.
optimizeProba(k) ==
    /\ k \in {0, 1}
    /\ k > 0 => HasStats
    /\ proba' \in IF k > 0 THEN {proba, proba + 1} ELSE {proba}

(***************************************************************************)
(* encodeFrame                                                              *)
(***************************************************************************)

\* InitIterator and the counters at the head of encodeFrame.
ResetPass ==
    /\ mbIdx' = 0
    /\ refreshCnt' = maxCount
    /\ numSkip' = 0

RefreshAlways ==   \* mutant: also while parallel workers run
    IF refreshCnt = 0
    THEN /\ \E k \in {0, 1} : optimizeProba(k)
         /\ refreshCnt' = maxCount
    ELSE /\ refreshCnt' = refreshCnt - 1
         /\ UNCHANGED proba

\* refreshProbas, before the macroblock is encoded: every maxCount
\* macroblocks, but never while parallel workers read enc.proba.
Refresh ==
    IF refreshCnt = 0 /\ ~useParallel
    THEN /\ \E k \in {0, 1} : optimizeProba(k)
         /\ refreshCnt' = maxCount
    ELSE /\ refreshCnt' = refreshCnt - (IF useParallel THEN 0 ELSE 1)
         /\ UNCHANGED proba

\* MarkMBStart and RecordToken, with tables p.
Recorded(ts, i, p) == Append(ts, [mb |-> i, pass |-> pass, proba |-> p])

\* MBIterator.Export: the reconstruction replaces the source, unless statLoop
\* has asked to keep it.
Export(i) ==
    recon' = IF phase = "stat" THEN recon ELSE recon \cup {i}

\* One iteration of encodeFrame's loop (of encodeRow and recordAllTokens when
\* useParallel holds): import, mode decision, residuals, skip detection,
\* tokens, reconstruction, export.  No statement
\* assigns info.Disto.
EncodeMB(skip) ==
    LET i == mbIdx
    IN /\ phase \in {"stat", "encode"}
       /\ i < totalMB
       /\ skip => cfg.skips
       /\ Refresh
       /\ info' = [info EXCEPT ![i] =
             [q |-> quality, pass |-> pass, skip |-> skip, Disto |-> @.Disto,
              from |-> IF i \in recon THEN "reconstruction" ELSE "source"]]
       /\ numSkip' = numSkip + (IF skip THEN 1 ELSE 0)
       /\ IF skip \/ phase = "stat"
          THEN UNCHANGED tokenVars
          ELSE /\ tokens' = Recorded(tokens, i, proba')
               /\ mbStart' = [mbStart EXCEPT ![i] = Len(tokens)]
       /\ Export(i)
       /\ mbIdx' = i + 1
       /\ UNCHANGED <<encVars, saved, rateCtrl, out>>

\* saveSourcePixels, when the main loop starts and a search is asked for.
StartMainLoop ==
    /\ phase' = "encode"
    /\ pass' = pass + 1
    /\ saved' = IF cfg.search # "none" THEN recon ELSE saved
    /\ tokens' = <<>>
    /\ ResetPass

\* statLoop, after a pass: optimizeProba, then another pass unless nothing
\* changed or there were enough.
EndStatPass ==
    /\ phase = "stat"
    /\ mbIdx = totalMB
    /\ \E k \in {0, 1} :
          /\ optimizeProba(k)
          /\ IF k = 0 \/ pass = statPasses
             THEN StartMainLoop
             ELSE /\ pass' = pass + 1
                  /\ ResetPass
                  /\ UNCHANGED <<phase, saved, tokens>>
    /\ UNCHANGED <<cfg, quality, info, mbStart, recon, rateCtrl, out>>

\* The main loop after a pass: one pass is enough unless a search is on.
EndPass ==
    /\ phase = "encode"
    /\ mbIdx = totalMB
    /\ phase' = IF cfg.search = "none" THEN "optimize" ELSE "adjust"
    /\ UNCHANGED <<cfg, quality, pass, mbVars, proba, tokenVars, planeVars, rateCtrl, out>>

(***************************************************************************)
(* Rate control                                                             *)
(***************************************************************************)

\* getPSNR: 99 dB without distortion, else less; one class is enough here.
getPSNR(mse) == IF mse > 0 THEN 40 ELSE 99

Sum(f) == FoldFunction(+, 0, f)

\* The value the search measures: the size of the trial frame, whatever it
\* is, or the PSNR of the distortion accumulated in mbInfo[].Disto.
Measured(v) ==
    v \in IF cfg.search = "size" THEN {0, 1}
          ELSE {getPSNR(Sum([i \in MBs |-> info[i].Disto]))}

\* initPassStats
initPassStats == [isFirst |-> TRUE, small |-> FALSE, last |-> -1, passes |-> 0]

\* computeNextQ: the first step is +-10, a repeated value gives dq = 0, any
\* other step is a secant, within 0.4 (small) or not.
computeNextQ(rc, v) ==
    /\ \/ /\ rc.isFirst
          /\ rateCtrl' = [rc EXCEPT !.isFirst = FALSE, !.last = v, !.passes = @ + 1]
          /\ quality' \in Qualities
       \/ /\ ~rc.isFirst
          /\ v = rc.last
          /\ rateCtrl' = [rc EXCEPT !.small = TRUE, !.passes = @ + 1]
          /\ UNCHANGED quality
       \/ /\ ~rc.isFirst
          /\ v # rc.last
          /\ \E s \in BOOLEAN :
                rateCtrl' = [rc EXCEPT !.small = s, !.last = v, !.passes = @ + 1]
          /\ quality' \in Qualities

restoreSourcePixels == recon' = IF saved = NoPlanes THEN recon ELSE saved

\* The last step was small: the frame just encoded is the one to emit.
Settle ==
    /\ phase' = "optimize"
    /\ UNCHANGED <<quality, pass, rateCtrl, recon, tokens, mbIdx, refreshCnt, numSkip>>

\* adjustQuantForTarget (emitFrame writes the trial frame's end sentinel into
\* mbStart only), then the loop condition of EncodeFrame.
adjustQuantForTarget ==
    LET rc == rateCtrl
    IN /\ phase = "adjust"
       /\ \E v \in {0, 1, 40, 99} :
             /\ Measured(v)
             /\ IF rc.small /\ ~rc.isFirst
                THEN Settle
                ELSE /\ computeNextQ(rc, v)
                     /\ restoreSourcePixels
                     /\ IF rateCtrl'.passes < maxPasses
                        THEN /\ phase' = "encode"
                             /\ pass' = pass + 1
                             /\ tokens' = <<>>
                             /\ ResetPass
                        ELSE /\ phase' = "optimize"
                             /\ UNCHANGED <<pass, tokens, mbIdx, refreshCnt, numSkip>>
       /\ mbStart' = IF cfg.search = "size" /\ cfg.numParts > 1
                     THEN [mbStart EXCEPT ![totalMB] = Len(tokens)] ELSE mbStart
       /\ UNCHANGED <<cfg, info, proba, saved, out>>

(***************************************************************************)
(* The last steps                                                           *)
(***************************************************************************)

\* The macroblocks that have tokens.
Coded == {i \in MBs : ~info[i].skip}

RerecordedSkips(p) ==   \* mutant: skipped macroblocks are recorded too
    [j \in 1 .. totalMB |-> [mb |-> j - 1, pass |-> info[j - 1].pass, proba |-> p]]

\* rerecordAllTokens: all macroblocks that are not skipped, with tables p.
Rerecorded(p) ==
    LET kept == InRasterOrder(Coded)
    IN [j \in DOMAIN kept |-> [mb |-> kept[j], pass |-> info[kept[j]].pass, proba |-> p]]

\* The place of every macroblock that is not skipped; a skipped one keeps
\* what mbStart said before.
RerecordedStart ==
    [i \in 0 .. totalMB |->
        IF i \in Coded THEN Cardinality(Before(Coded, i)) ELSE mbStart[i]]

\* optimizeProba over the final statistics; tokens are recorded again when an
\* entry was worth an update.
Optimize ==
    /\ phase = "optimize"
    /\ \E k \in {0, 1} :
          /\ optimizeProba(k)
          /\ IF k > 0
             THEN tokens' = Rerecorded(proba') /\ mbStart' = RerecordedStart
             ELSE UNCHANGED tokenVars
    /\ phase' = "emit"
    /\ UNCHANGED <<cfg, quality, pass, mbVars, planeVars, rateCtrl, out>>

\* EmitTokensPartitioned: for each macroblock of the partition's rows, the
\* tokens from its mark to the next one.
PartTokens(k) ==
    LET start == [mbStart EXCEPT ![totalMB] = Len(tokens)]
        rows == InRasterOrder({i \in MBs : Y(i) % cfg.numParts = k})
    IN FlattenSeq([j \in DOMAIN rows |->
                      SubSeq(tokens, start[rows[j]] + 1, start[rows[j] + 1])])

emitTokenPartitions ==
    IF cfg.numParts = 1 THEN <<tokens>>
    ELSE [k \in 1 .. cfg.numParts |-> PartTokens(k - 1)]

\* emitFrame: partition 0 carries the quantizers, the probability tables and
\* the skip header as they are now.
Emit ==
    /\ phase = "emit"
    /\ out' = [q |-> quality, proba |-> proba, numSkip |-> numSkip,
               parts |-> emitTokenPartitions]
    /\ phase' = "done"
    /\ UNCHANGED <<cfg, quality, pass, mbVars, proba, tokenVars, planeVars, rateCtrl>>

Done == phase = "done" /\ UNCHANGED vars

(***************************************************************************)
(* The encoder, as NewEncoder leaves it after analysis                      *)
(***************************************************************************)
Init ==
    /\ cfg \in Configs
    /\ quality \in Qualities
    /\ phase = IF cfg.method3 THEN "encode" ELSE "stat"
    /\ pass = 1
    /\ mbIdx = 0
    /\ refreshCnt = maxCount
    /\ info = [i \in MBs |-> FreshInfo]
    /\ numSkip = 0
    /\ proba = 0
    /\ tokens = <<>>
    /\ mbStart = [i \in 0 .. totalMB |-> 0]
    /\ recon = {}
    /\ saved = IF cfg.method3 /\ cfg.search # "none" THEN {} ELSE NoPlanes
    /\ rateCtrl = initPassStats
    /\ out = NoFrame

Next ==
    \/ \E skip \in BOOLEAN : EncodeMB(skip)
    \/ EndStatPass
    \/ EndPass
    \/ adjustQuantForTarget
    \/ Optimize
    \/ Emit
    \/ Done

Spec == Init /\ [][Next]_vars

(***************************************************************************)
(* Properties                                                               *)
(***************************************************************************)
\* ts are tokens of the macroblocks of S, one each, in raster order.
TokensOf(ts, S) ==
    /\ {ts[j].mb : j \in DOMAIN ts} = S
    /\ \A j, k \in DOMAIN ts : j < k => ts[j].mb < ts[k].mb

\* Partition k holds the tokens of the rows y with y & (numParts - 1) = k.
PartitionsExact ==
    \A k \in 1 .. cfg.numParts :
        /\ TokensOf(out.parts[k], {i \in Coded : Y(i) % cfg.numParts = k - 1})
        /\ Range(out.parts[k]) \subseteq Range(tokens)

(***************************************************************************)
(* What is emitted is the last pass and nothing of those before it: the     *)
(* token buffer holds the macroblocks that are not skipped, once each, in   *)
(* raster order, with the coefficients of that pass, made from source       *)
(* pixels and not from the reconstruction an earlier pass left in the       *)
(* planes; and partition k holds the tokens of the rows y with              *)
(* y & (numParts - 1) = k ("Each MB row is assigned to partition            *)
(* (mbY & (numParts-1))", EmitTokensPartitioned).  Several partitions are   *)
(* right only where no macroblock is skipped: MarkMBStart is called for the *)
(* others alone.                                                            *)
(***************************************************************************)
TokensComplete ==
    phase \in {"optimize", "emit", "done"} =>
        /\ \A i \in MBs : info[i].pass = pass /\ info[i].from = "source"
        /\ TokensOf(tokens, Coded)
        /\ \A j \in DOMAIN tokens : tokens[j].pass = pass
        /\ phase = "done" /\ (cfg.numParts = 1 \/ ~cfg.skips) => PartitionsExact

\* A search that stops before it has used up its passes.
Converged == rateCtrl.passes < maxPasses

(***************************************************************************)
(* The frame header is that of the emitted tokens: it counts the skipped    *)
(* macroblocks of their pass; on the parallel path, which never refreshes   *)
(* the tables in the middle of a frame, it carries the probabilities they   *)
(* were recorded with; and if the search for a quantizer converged, it      *)
(* carries the quantizers the coefficients were made with ("Restore source  *)
(* pixels and re-encode with new quantizers", adjustQuantForTarget).        *)
(***************************************************************************)
HeaderExact ==
    phase = "done" =>
        /\ out.numSkip = Cardinality({i \in MBs : info[i].skip})
        /\ useParallel => \A j \in DOMAIN tokens : tokens[j].proba = out.proba
        /\ Converged => \A i \in MBs : ~info[i].skip => info[i].q = out.q
=============================================================================
