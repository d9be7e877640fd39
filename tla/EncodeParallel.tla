--------------------------- MODULE EncodeParallel ---------------------------
(***************************************************************************)
(* VP8Encoder.encodeFrameParallel (src/internal/lossy/encode_parallel.go):  *)
(* numWorkers goroutines claim macroblock rows and encode them (Phase A)    *)
(* while the calling goroutine records the tokens of every row that is      *)
(* complete (Phase B).  They share the top context (one slot per column),   *)
(* mbInfo (one slot per macroblock) and the rowSync; the whole state goes   *)
(* through parallelPool from one frame to the next.                         *)
(*                                                                          *)
(* Data are abstracted to provenance.  A top-context slot holds the tag of  *)
(* the row that wrote it last (row y writes tag y + 1; 0 is the value       *)
(* encodeFrameParallel initialises it with), and an encoded macroblock      *)
(* holds the tags it was predicted from: mode decision, quantisation and    *)
(* reconstruction are functions of the source block, of read-only           *)
(* parameters and of that context, so a macroblock is what the serial       *)
(* encoder makes of it exactly when it read the same tags.                  *)
(***************************************************************************)
EXTENDS RowSync, Sequences, FiniteSets

CONSTANTS Caller,       \* the goroutine that runs encodeFrameParallel
          Dims,         \* frame sizes in macroblocks, records [w, h]
          MaxFrames,    \* bound on the frames of a behaviour
          NoPool,       \* parallelPool holds no state
          NotEncoded    \* mbInfo entry not yet written in this frame

\* EncodeFrame takes the parallel path from four rows on.
MinParallelRows == 4

ASSUME EncodeParallelAssumption ==
    /\ Caller \in Procs
    /\ IsFiniteSet(Procs)
    /\ Dims \subseteq [w : 1 .. MaxCols, h : MinParallelRows .. MaxRows]
    /\ MaxFrames \in Nat

\* The goroutines the frames may launch, one per processor.
Workers == Procs \ {Caller}
GOMAXPROCS == Cardinality(Workers)

VARIABLES
    frame,      \* frames started
    dim,        \* size of the current frame
    pool,       \* what parallelPool holds: the capacities of a state, or NoPool
    ps,         \* capacities of the state in use
    parallelRS, \* enc.parallelRS is set
    nextRow,    \* ps.nextRow
    topCtx,     \* topY, topU, topV and topModes, per column
    topNz,      \* topNz and topNzDC, per column
    mbInfo,     \* enc.mbInfo, per row and column
    tokens,     \* enc.tokens: the macroblocks recorded
    pc,         \* next statement of every goroutine, outside rowSync
    row, col,   \* the macroblock every goroutine is at
    topLeft,    \* encodeRow's topLeftY, topLeftU, topLeftV
    read        \* the context in the worker's prediction buffer

frameVars == <<frame, dim, pool, ps>>
localVars == <<pc, row, col, topLeft, read>>
vars == <<syncVars, frameVars, parallelRS, nextRow, topCtx, topNz, mbInfo,
          tokens, localVars>>

Tags == 0 .. MaxRows
Contexts == [top : Tags, right : Tags, left : Tags]
MBInfos == [top : Tags, right : Tags, left : Tags, modes : Tags, nz : Tags]
NoContext == [top |-> 0, right |-> 0, left |-> 0]

ASSUME NotEncodedAssumption == NotEncoded \notin MBInfos

Min2(a, b) == IF a < b THEN a ELSE b

numWorkers(d) == Min2(Min2(GOMAXPROCS, 6), d.h)

Returned(p) == call[p] = Out

(***************************************************************************)
(* Between frames                                                           *)
(***************************************************************************)
PoolFits(d) ==
    /\ pool # NoPool
    /\ pool.workers >= numWorkers(d)
    /\ pool.rows >= d.h
    /\ pool.cols >= d.w

ReuseWithoutReset(d) ==   \* mutant: the progress of the last frame is kept
    /\ PoolFits(d)
    /\ ps' = pool
    /\ UNCHANGED <<done, waiters, mu, parked>>

\* A pooled state keeps everything but the progress of the frame's rows.
ReuseState(d) ==
    /\ PoolFits(d)
    /\ ps' = pool
    /\ done' = [y \in Rows |-> IF y < d.h THEN 0 ELSE done[y]]
    /\ UNCHANGED <<waiters, mu, parked>>

\* sync.Pool may have dropped its content, or it is too small.
FreshState(d) ==
    /\ ps' = [workers |-> numWorkers(d), rows |-> d.h, cols |-> d.w]
    /\ newRowSync

getParallelState(d) ==
    /\ ReuseState(d) \/ FreshState(d)
    /\ pool' = NoPool

WaitTargetUnclamped(x) ==   \* mutant: the last column waits past the end of the row
    x + 2

WaitTargetShort(x) ==   \* mutant: the macroblock to the top right is forgotten
    Min2(x + 1, dim.w)

\* What row y - 1 must have published before macroblock (x, y) is encoded.
WaitTarget(x) == Min2(x + 2, dim.w)

\* encodeFrameParallel up to the launch of the goroutines and the start of
\* recordAllTokens, whose first call waits for row 0.
StartFrame(d) ==
    /\ pc[Caller] = "idle"
    /\ frame < MaxFrames
    /\ frame' = frame + 1
    /\ dim' = d
    /\ getParallelState(d)
    /\ nextRow' = 0
    /\ parallelRS' = TRUE
    /\ topCtx' = [x \in Cols |-> 0]
    /\ topNz' = [x \in Cols |-> 0]
    /\ mbInfo' = [y \in Rows |-> [x \in Cols |-> NotEncoded]]
    /\ tokens' = <<>>
    /\ \E W \in SUBSET Workers :
          /\ Cardinality(W) = numWorkers(d)
          /\ pc' = [p \in Procs |-> IF p = Caller THEN "record"
                                    ELSE IF p \in W THEN "claim" ELSE "exited"]
    /\ row' = [p \in Procs |-> 0]
    /\ col' = [p \in Procs |-> 0]
    /\ topLeft' = [p \in Procs |-> 0]
    /\ read' = [p \in Procs |-> NoContext]
    /\ call' = [call EXCEPT ![Caller] = waitFor(0, d.w)]

(***************************************************************************)
(* Phase A: encodeRow                                                       *)
(***************************************************************************)

\* The head of encodeRow's loop for macroblock (x, y): it waits for the row
\* above, then runs on at "fill".
BeginMB(p, y, x) ==
    /\ pc' = [pc EXCEPT ![p] = "fill"]
    /\ col' = [col EXCEPT ![p] = x]
    /\ call' = [call EXCEPT ![p] = IF y > 0 THEN waitFor(y - 1, WaitTarget(x)) ELSE Out]

\* y := ps.nextRow.Add(1) - 1; past the last row the goroutine ends.
ClaimRow(p) ==
    /\ pc[p] = "claim"
    /\ nextRow' = nextRow + 1
    /\ IF nextRow < dim.h
       THEN /\ row' = [row EXCEPT ![p] = nextRow]
            /\ BeginMB(p, nextRow, 0)
       ELSE /\ pc' = [pc EXCEPT ![p] = "exited"]
            /\ UNCHANGED <<row, col, call>>
    /\ UNCHANGED <<done, waiters, mu, parked, frameVars, parallelRS, topCtx, topNz,
                   mbInfo, tokens, topLeft, read>>

\* fillPredContextParallel: the first row and the first column use constants,
\* the last column replicates its own top row.
FillContext(p) ==
    LET y == row[p]
        x == col[p]
    IN /\ pc[p] = "fill"
       /\ Returned(p)
       /\ read' = [read EXCEPT ![p] =
             [top   |-> IF y > 0 THEN topCtx[x] ELSE 0,
              right |-> IF y = 0 THEN 0
                        ELSE topCtx[IF x < dim.w - 1 THEN x + 1 ELSE x],
              left  |-> IF x > 0 /\ y > 0 THEN topLeft[p] ELSE 0]]
       /\ pc' = [pc EXCEPT ![p] = "pick"]
       /\ UNCHANGED <<syncVars, frameVars, parallelRS, nextRow, topCtx, topNz, mbInfo,
                      tokens, row, col, topLeft>>

\* pickBestModeParallel, encodeResidualsParallel, the skip test and
\* reconstructMBParallel: fill in mbInfo from the prediction context, the
\* modes above and the non-zero flags above.
EncodeMB(p) ==
    LET y == row[p]
        x == col[p]
    IN /\ pc[p] = "pick"
       /\ mbInfo' = [mbInfo EXCEPT ![y][x] =
             [top |-> read[p].top, right |-> read[p].right, left |-> read[p].left,
              modes |-> topCtx[x], nz |-> topNz[x]]]
       /\ pc' = [pc EXCEPT ![p] = "export"]
       /\ UNCHANGED <<syncVars, frameVars, parallelRS, nextRow, topCtx, topNz, tokens,
                      row, col, topLeft, read>>

\* exportParallel: the old slot becomes the top left of the next macroblock.
ExportMB(p) ==
    LET x == col[p]
    IN /\ pc[p] = "export"
       /\ topLeft' = [topLeft EXCEPT ![p] = topCtx[x]]
       /\ topCtx' = [topCtx EXCEPT ![x] = row[p] + 1]
       /\ pc' = [pc EXCEPT ![p] = "updateNz"]
       /\ UNCHANGED <<syncVars, frameVars, parallelRS, nextRow, topNz, mbInfo, tokens,
                      row, col, read>>

\* updateNZContextParallel, then the call of signal.
UpdateNZ(p) ==
    /\ pc[p] = "updateNz"
    /\ topNz' = [topNz EXCEPT ![col[p]] = row[p] + 1]
    /\ pc' = [pc EXCEPT ![p] = "advance"]
    /\ call' = [call EXCEPT ![p] = signal(row[p], col[p] + 1)]
    /\ UNCHANGED <<done, waiters, mu, parked, frameVars, parallelRS, nextRow, topCtx,
                   mbInfo, tokens, row, col, topLeft, read>>

\* signal has returned: the next macroblock of the row, or the next row.
Advance(p) ==
    /\ pc[p] = "advance"
    /\ Returned(p)
    /\ IF col[p] + 1 < dim.w
       THEN BeginMB(p, row[p], col[p] + 1)
       ELSE /\ pc' = [pc EXCEPT ![p] = "claim"]
            /\ UNCHANGED <<col, call>>
    /\ UNCHANGED <<done, waiters, mu, parked, frameVars, parallelRS, nextRow, topCtx,
                   topNz, mbInfo, tokens, row, topLeft, read>>

(***************************************************************************)
(* Phase B: recordAllTokens, on the calling goroutine                       *)
(***************************************************************************)
RecordMB ==
    LET y == row[Caller]
        x == col[Caller]
    IN /\ pc[Caller] = "record"
       /\ Returned(Caller)
       /\ tokens' = Append(tokens, mbInfo[y][x])
       /\ IF x + 1 < dim.w
          THEN /\ col' = [col EXCEPT ![Caller] = x + 1]
               /\ UNCHANGED <<pc, row, call, parallelRS>>
          ELSE /\ col' = [col EXCEPT ![Caller] = 0]
               /\ row' = [row EXCEPT ![Caller] = y + 1]
               /\ IF y + 1 < dim.h
                  THEN /\ call' = [call EXCEPT ![Caller] = waitFor(y + 1, dim.w)]
                       /\ UNCHANGED <<pc, parallelRS>>
                  ELSE /\ pc' = [pc EXCEPT ![Caller] = "join"]
                       /\ parallelRS' = FALSE
                       /\ UNCHANGED call
       /\ UNCHANGED <<done, waiters, mu, parked, frameVars, nextRow, topCtx, topNz,
                      mbInfo, topLeft, read>>

\* wg.Wait() and the deferred putParallelState.
EndFrame ==
    /\ pc[Caller] = "join"
    /\ \A p \in Workers : pc[p] = "exited"
    /\ pool' = ps
    /\ pc' = [pc EXCEPT ![Caller] = "idle"]
    /\ UNCHANGED <<syncVars, frame, dim, ps, parallelRS, nextRow, topCtx, topNz, mbInfo,
                   tokens, row, col, topLeft, read>>

(***************************************************************************)
(* The whole system                                                         *)
(***************************************************************************)
Init ==
    /\ done = [y \in Rows |-> 0]
    /\ waiters = [y \in Rows |-> 0]
    /\ mu = [y \in Rows |-> NoProc]
    /\ parked = [y \in Rows |-> {}]
    /\ call = [p \in Procs |-> Out]
    /\ frame = 0
    /\ dim \in Dims
    /\ pool = NoPool
    /\ ps = [workers |-> 0, rows |-> 0, cols |-> 0]
    /\ parallelRS = FALSE
    /\ nextRow = 0
    /\ topCtx = [x \in Cols |-> 0]
    /\ topNz = [x \in Cols |-> 0]
    /\ mbInfo = [y \in Rows |-> [x \in Cols |-> NotEncoded]]
    /\ tokens = <<>>
    /\ pc = [p \in Procs |-> IF p = Caller THEN "idle" ELSE "exited"]
    /\ row = [p \in Procs |-> 0]
    /\ col = [p \in Procs |-> 0]
    /\ topLeft = [p \in Procs |-> 0]
    /\ read = [p \in Procs |-> NoContext]

\* A step inside waitFor or signal.
Sync(p) ==
    /\ SyncStep(p)
    /\ UNCHANGED <<frameVars, parallelRS, nextRow, topCtx, topNz, mbInfo, tokens,
                   localVars>>

\* A step of encodeRow or of the goroutine's claiming loop.
WorkerStep(p) ==
    \/ ClaimRow(p)
    \/ FillContext(p)
    \/ EncodeMB(p)
    \/ ExportMB(p)
    \/ UpdateNZ(p)
    \/ Advance(p)

\* MaxFrames frames are encoded; nothing more happens.
Finished ==
    /\ pc[Caller] = "idle"
    /\ frame = MaxFrames
    /\ UNCHANGED vars

Next ==
    \/ \E d \in Dims : StartFrame(d)
    \/ \E p \in Procs : Sync(p)
    \/ \E p \in Workers : WorkerStep(p)
    \/ RecordMB
    \/ EndFrame
    \/ Finished

Spec == Init /\ [][Next]_vars

\* The Go scheduler runs every runnable goroutine.  A mutex is acquired a
\* bounded number of times per frame, so weak fairness suffices for Lock.
\* Nothing forces the program to encode a further frame.
Fairness ==
    /\ \A p \in Procs : WF_vars(Sync(p))
    /\ \A p \in Workers : WF_vars(WorkerStep(p))
    /\ WF_vars(RecordMB)
    /\ WF_vars(EndFrame)

FairSpec == Spec /\ Fairness

(***************************************************************************)
(* Properties                                                               *)
(***************************************************************************)
PCs == {"idle", "record", "join", "exited", "claim", "fill", "pick", "export",
        "updateNz", "advance"}
Capacities == [workers : Nat, rows : 0 .. MaxRows, cols : 0 .. MaxCols]

FrameTypeOK ==
    /\ frame \in 0 .. MaxFrames
    /\ dim \in Dims
    /\ pool \in Capacities \cup {NoPool}
    /\ ps \in Capacities
    /\ parallelRS \in BOOLEAN
    /\ nextRow \in Nat

SharedTypeOK ==
    /\ topCtx \in [Cols -> Tags]
    /\ topNz \in [Cols -> Tags]
    /\ mbInfo \in [Rows -> [Cols -> MBInfos \cup {NotEncoded}]]
    /\ tokens \in Seq(MBInfos \cup {NotEncoded})

LocalTypeOK ==
    /\ pc \in [Procs -> PCs]
    /\ row \in [Procs -> 0 .. MaxRows]
    /\ col \in [Procs -> Cols]
    /\ topLeft \in [Procs -> Tags]
    /\ read \in [Procs -> Contexts]

\* Every variable has its type; in particular no index leaves its array.
TypeOK == SyncTypeOK /\ FrameTypeOK /\ SharedTypeOK /\ LocalTypeOK

Busy == pc[Caller] # "idle"

\* The context the serial encoder reads for macroblock (x, y): whatever it
\* takes from above is what row y - 1 left there.
SerialContext(y, x) ==
    [top |-> y, right |-> y, left |-> IF x > 0 THEN y ELSE 0, modes |-> y, nz |-> y]

(***************************************************************************)
(* Whatever the goroutines do, every encoded macroblock was predicted from  *)
(* the context the serial encoder would have read: its top, top-right and   *)
(* top-left pixels, modes and non-zero flags all come from the row above,   *)
(* complete, and from no later row (encodeRow's wait for x + 2).            *)
(***************************************************************************)
ContextExact ==
    \A y \in Rows, x \in Cols :
        mbInfo[y][x] # NotEncoded => mbInfo[y][x] = SerialContext(y, x)

(***************************************************************************)
(* The tokens recorded while the workers run are the final macroblocks in   *)
(* raster order: recordAllTokens never reads an mbInfo entry that is not    *)
(* written yet or that changes later.                                       *)
(***************************************************************************)
TokensAreFinal ==
    \A y \in 0 .. dim.h - 1, x \in 0 .. dim.w - 1 :
        LET i == y * dim.w + x + 1
        IN i <= Len(tokens) => tokens[i] # NotEncoded /\ tokens[i] = mbInfo[y][x]

\* The shared locations the next statement of p reads and writes.
Pix(x) == <<"topY", x>>
Modes(x) == <<"topModes", x>>
Nz(x) == <<"topNz", x>>
MB(y, x) == <<"mbInfo", y, x>>
Proba == <<"proba", 0>>

Reads(p) ==
    LET y == row[p]
        x == col[p]
    IN CASE pc[p] = "fill" /\ Returned(p) /\ y > 0 ->
              {Pix(x), Pix(Min2(x + 1, dim.w - 1))}
         [] pc[p] = "pick" -> {Modes(x), Nz(x), Proba}
         [] pc[p] = "export" -> {Pix(x), MB(y, x)}
         [] pc[p] = "updateNz" -> {Nz(x), MB(y, x)}
         [] pc[p] = "record" /\ Returned(p) -> {MB(y, x)}
         [] OTHER -> {}

\* With parallelRS unset, recordAllTokens may refresh enc.proba.
Writes(p) ==
    LET y == row[p]
        x == col[p]
    IN CASE pc[p] = "pick" -> {MB(y, x)}
         [] pc[p] = "export" -> {Pix(x), Modes(x)}
         [] pc[p] = "updateNz" -> {Nz(x)}
         [] pc[p] = "record" /\ Returned(p) /\ ~parallelRS -> {Proba}
         [] OTHER -> {}

(***************************************************************************)
(* No data race: no two goroutines are about to touch the same slot of the  *)
(* top context, of mbInfo or of enc.proba, one of them writing.             *)
(***************************************************************************)
RaceFree ==
    \A p, q \in Procs :
        p # q => Writes(p) \cap (Reads(q) \cup Writes(q)) = {}

\* Every frame ends: no worker waits for ever for the row above, and the
\* calling goroutine neither for a row nor for the workers.
FramesEnd == Busy ~> ~Busy

\* Every frame encodes and records all its macroblocks.
Promise == INSTANCE Wavefront WITH
    busy <- Busy,
    encoded <- {m \in Rows \X Cols : mbInfo[m[1]][m[2]] # NotEncoded},
    recorded <- Len(tokens)

\* The row pipeline implements Wavefront.
ImplementsWavefront == Promise!Spec
=============================================================================
