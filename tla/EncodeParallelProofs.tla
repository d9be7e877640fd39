------------------------ MODULE EncodeParallelProofs ------------------------
(* Theorems about EncodeParallel, for every set of goroutines and every set  *)
(* of frame sizes.                                                           *)
EXTENDS EncodeParallel, FiniteSetTheorems, TLAPS

\* The goroutines at a macroblock.
AtMB == {"record", "fill", "pick", "export", "updateNz", "advance"}

\* A goroutine at a macroblock is inside the frame.
RowsInFrame == \A p \in Procs : pc[p] \in AtMB => row[p] < dim.h

TypeInv == TypeOK /\ RowsInFrame

\* Frame sizes are within the bounds of the arrays.
LEMMA DimsBounded ==
    ASSUME NEW d \in Dims
    PROVE  /\ d.w \in Nat /\ d.h \in Nat
           /\ 1 <= d.w /\ d.w <= MaxCols
           /\ 4 <= d.h /\ d.h <= MaxRows
BY EncodeParallelAssumption, RowSyncAssumption DEF MinParallelRows

LEMMA WorkersCount == \A d \in Dims : numWorkers(d) \in Nat
<1>1. GOMAXPROCS \in Nat
    BY EncodeParallelAssumption, FS_Subset, FS_CardinalityType DEF GOMAXPROCS, Workers
<1>2. QED
    BY <1>1, DimsBounded DEF numWorkers, Min2

LEMMA InitTypeInv == Init => TypeInv
<1> SUFFICES ASSUME Init PROVE TypeInv
    OBVIOUS
<1> USE RowSyncAssumption, EncodeParallelAssumption
<1>1. SyncTypeOK
    BY DEF Init, SyncTypeOK, Rows, Cols, Calls, Out
<1>2. FrameTypeOK
    <2>1. [workers |-> 0, rows |-> 0, cols |-> 0] \in Capacities
        BY DEF Capacities
    <2>2. 0 \in 0 .. MaxFrames
        OBVIOUS
    <2>3. parallelRS \in BOOLEAN
        BY Zenon DEF Init
    <2>4. QED
        BY <2>1, <2>2, <2>3 DEF Init, FrameTypeOK
<1>3. SharedTypeOK
    <2>1. tokens \in Seq(MBInfos \cup {NotEncoded})
        BY DEF Init
    <2>2. QED
        BY <2>1 DEF Init, SharedTypeOK, Tags
<1>4. LocalTypeOK
    <2>1. 0 \in 0 .. MaxRows /\ 0 \in Cols /\ 0 \in Tags /\ NoContext \in Contexts
        BY DEF Cols, Tags, Contexts, NoContext
    <2>2. QED
        BY <2>1 DEF Init, LocalTypeOK, PCs
<1>5. RowsInFrame
    BY DEF Init, RowsInFrame, AtMB
<1>6. QED
    BY <1>1, <1>2, <1>3, <1>4, <1>5 DEF TypeInv, TypeOK

\* What waitFor and signal are called with.
LEMMA CallTypes ==
    ASSUME NEW y \in Rows, NEW n \in 0 .. MaxCols
    PROVE  waitFor(y, n) \in Calls /\ signal(y, n) \in Calls
BY DEF waitFor, signal, Calls, WaitSteps, SignalSteps

\* Steps inside waitFor and signal keep the types of the rowSync.
LEMMA SyncStepType ==
    ASSUME SyncTypeOK, NEW p \in Procs, SyncStep(p)
    PROVE  SyncTypeOK'
<1> USE DEF SyncTypeOK, At, Goto, Return
<1>1. /\ call[p] \in Calls
      /\ call[p].row \in Rows
      /\ call[p].n \in 0 .. MaxCols
    BY DEF Calls
<1>2. ASSUME NEW l \in WaitSteps \cup SignalSteps, Goto(p, l)
      PROVE  call' \in [Procs -> Calls]
    BY <1>1, <1>2 DEF Calls
<1>3. ASSUME Return(p)
      PROVE  call' \in [Procs -> Calls]
    BY <1>3, RowSyncAssumption DEF Calls, Out, Rows
<1>4. CASE WaitCheck(p)
    BY <1>1, <1>2, <1>3, <1>4 DEF WaitCheck, WaitSteps, SignalSteps
<1>5. CASE WaitAnnounce(p)
    BY <1>1, <1>2, <1>3, <1>5 DEF WaitAnnounce, WaitSteps, SignalSteps
<1>6. CASE WaitLock(p)
    BY <1>1, <1>2, <1>3, <1>6 DEF WaitLock, WaitSteps, SignalSteps
<1>7. CASE WaitRecheck(p)
    BY <1>1, <1>2, <1>3, <1>7 DEF WaitRecheck, WaitSteps, SignalSteps
<1>8. CASE CondEnlist(p)
    BY <1>1, <1>2, <1>3, <1>8 DEF CondEnlist, WaitSteps, SignalSteps
<1>9. CASE CondRelease(p)
    BY <1>1, <1>2, <1>3, <1>9 DEF CondRelease, WaitSteps, SignalSteps
<1>10. CASE CondWake(p)
    BY <1>1, <1>2, <1>3, <1>10 DEF CondWake, WaitSteps, SignalSteps
<1>11. CASE WaitUnlock(p)
    BY <1>1, <1>2, <1>3, <1>11 DEF WaitUnlock, WaitSteps, SignalSteps
<1>12. CASE WaitLeave(p)
    BY <1>1, <1>2, <1>3, <1>12 DEF WaitLeave, WaitSteps, SignalSteps
<1>13. CASE SignalStore(p)
    BY <1>1, <1>2, <1>3, <1>13 DEF SignalStore, WaitSteps, SignalSteps
<1>14. CASE SignalPeek(p)
    BY <1>1, <1>2, <1>3, <1>14 DEF SignalPeek, WaitSteps, SignalSteps
<1>15. CASE SignalLock(p)
    BY <1>1, <1>2, <1>3, <1>15 DEF SignalLock, WaitSteps, SignalSteps
<1>16. CASE SignalUnlock(p)
    BY <1>1, <1>2, <1>3, <1>16 DEF SignalUnlock, WaitSteps, SignalSteps
<1>17. CASE SignalBroadcast(p)
    BY <1>1, <1>2, <1>3, <1>17 DEF SignalBroadcast, WaitSteps, SignalSteps
<1>18. QED
    BY <1>4, <1>5, <1>6, <1>7, <1>8, <1>9, <1>10, <1>11, <1>12, <1>13, <1>14, <1>15, <1>16, <1>17
    DEF SyncStep, WaitStep, SignalStep

\* getParallelState hands out a rowSync and capacities of the right types.
LEMMA GetParallelStateType ==
    ASSUME SyncTypeOK, FrameTypeOK, NEW d \in Dims, getParallelState(d)
    PROVE  /\ done' \in [Rows -> 0 .. MaxCols]
           /\ waiters' \in [Rows -> Int]
           /\ mu' \in [Rows -> Procs \cup {NoProc}]
           /\ parked' \in [Rows -> SUBSET Procs]
           /\ ps' \in Capacities
           /\ pool' \in Capacities \cup {NoPool}
<1> USE DimsBounded, RowSyncAssumption
<1>1. CASE ReuseState(d)
    <2>1. ps' \in Capacities
        BY <1>1 DEF ReuseState, PoolFits, FrameTypeOK
    <2>2. done' \in [Rows -> 0 .. MaxCols]
        BY <1>1 DEF ReuseState, SyncTypeOK
    <2>3. QED
        BY <1>1, <2>1, <2>2 DEF ReuseState, SyncTypeOK, getParallelState
<1>2. CASE FreshState(d)
    <2>1. numWorkers(d) \in Nat
        BY WorkersCount
    <2>2. ps' \in Capacities
        BY <1>2, <2>1 DEF FreshState, Capacities
    <2>3. QED
        BY <1>2, <2>2 DEF FreshState, newRowSync, getParallelState
<1>3. QED
    BY <1>1, <1>2 DEF getParallelState

LEMMA NextTypeInv == TypeInv /\ [Next]_vars => TypeInv'
<1> SUFFICES ASSUME TypeInv, [Next]_vars PROVE TypeInv'
    OBVIOUS
<1> USE RowSyncAssumption, EncodeParallelAssumption
<1> USE DEF TypeInv, TypeOK
<1>0. /\ dim.w \in 1 .. MaxCols
      /\ dim.h \in 4 .. MaxRows
    BY DimsBounded DEF FrameTypeOK
<1>1. ASSUME NEW d \in Dims, StartFrame(d) PROVE TypeInv'
    <2> USE <1>1 DEF StartFrame
    <2>1. /\ d.w \in 1 .. MaxCols
          /\ d.h \in 4 .. MaxRows
        BY DimsBounded
    <2>2. SyncTypeOK'
        <3>1. call' \in [Procs -> Calls]
            BY <2>1 DEF SyncTypeOK, waitFor, Calls, Rows, WaitSteps
        <3>2. QED
            BY <3>1, GetParallelStateType DEF SyncTypeOK
    <2>3. FrameTypeOK'
        <3>1. parallelRS' \in BOOLEAN
            BY Zenon
        <3>2. frame' \in 0 .. MaxFrames
            BY DEF FrameTypeOK
        <3>3. QED
            BY <3>1, <3>2, GetParallelStateType DEF FrameTypeOK
    <2>4. SharedTypeOK'
        <3>1. tokens' \in Seq(MBInfos \cup {NotEncoded})
            OBVIOUS
        <3>2. QED
            BY <3>1 DEF SharedTypeOK, Tags
    <2>5. LocalTypeOK'
        <3>1. 0 \in 0 .. MaxRows /\ 0 \in Cols /\ 0 \in Tags /\ NoContext \in Contexts
            BY DEF Cols, Tags, Contexts, NoContext
        <3>2. pc' \in [Procs -> PCs]
            BY DEF PCs
        <3>3. QED
            BY <3>1, <3>2 DEF LocalTypeOK
    <2>6. RowsInFrame'
        BY <2>1 DEF RowsInFrame
    <2>7. QED
        BY <2>2, <2>3, <2>4, <2>5, <2>6
<1>2. ASSUME NEW p \in Procs, Sync(p) PROVE TypeInv'
    <2>1. SyncTypeOK'
        BY <1>2, SyncStepType DEF Sync
    <2>2. FrameTypeOK' /\ SharedTypeOK' /\ LocalTypeOK' /\ RowsInFrame'
        BY <1>2 DEF Sync, frameVars, localVars, FrameTypeOK, SharedTypeOK, LocalTypeOK,
                    RowsInFrame
    <2>3. QED
        BY <2>1, <2>2
<1>3. ASSUME NEW p \in Procs, NEW y \in 0 .. dim.h - 1, NEW x \in 0 .. dim.w - 1,
             BeginMB(p, y, x)
      PROVE  /\ call' \in [Procs -> Calls]
             /\ col' \in [Procs -> Cols]
             /\ pc' \in [Procs -> PCs]
    <2>1. y > 0 => waitFor(y - 1, WaitTarget(x)) \in Calls
        BY <1>0 DEF waitFor, Calls, WaitTarget, Min2, Rows, WaitSteps
    <2>2. Out \in Calls
        BY DEF Out, Calls, Rows
    <2>3. x \in Cols
        BY <1>0 DEF Cols
    <2>4. QED
        BY <1>3, <2>1, <2>2, <2>3 DEF BeginMB, SyncTypeOK, LocalTypeOK, PCs
<1>4. ASSUME NEW p \in Workers, ClaimRow(p) PROVE TypeInv'
    <2> USE <1>4 DEF ClaimRow
    <2>1. p \in Procs
        BY DEF Workers
    <2>2. nextRow \in Nat /\ nextRow' \in Nat
        BY DEF FrameTypeOK
    <2>3. CASE nextRow < dim.h
        <3>1. BeginMB(p, nextRow, 0) /\ nextRow \in 0 .. dim.h - 1 /\ 0 \in 0 .. dim.w - 1
            BY <1>0, <2>2, <2>3
        <3>2. /\ call' \in [Procs -> Calls]
              /\ col' \in [Procs -> Cols]
              /\ pc' \in [Procs -> PCs]
            BY <1>3, <2>1, <3>1
        <3>3. row' \in [Procs -> 0 .. MaxRows]
            BY <1>0, <2>1, <2>3, <2>2 DEF LocalTypeOK
        <3>4. RowsInFrame'
            BY <2>1, <2>3, <2>2, <3>1 DEF RowsInFrame, BeginMB, LocalTypeOK, frameVars
        <3>5. QED
            BY <2>2, <3>2, <3>3, <3>4
            DEF SyncTypeOK, FrameTypeOK, SharedTypeOK, LocalTypeOK, frameVars
    <2>4. CASE ~(nextRow < dim.h)
        <3>1. pc' \in [Procs -> PCs]
            BY <2>4 DEF LocalTypeOK, PCs
        <3>2. RowsInFrame'
            BY <2>1, <2>4 DEF RowsInFrame, LocalTypeOK, frameVars, AtMB
        <3>3. QED
            BY <2>2, <2>4, <3>1, <3>2
            DEF SyncTypeOK, FrameTypeOK, SharedTypeOK, LocalTypeOK, frameVars
    <2>5. QED
        BY <2>3, <2>4
<1>5. ASSUME NEW p \in Workers, FillContext(p) PROVE TypeInv'
    <2> USE <1>5 DEF FillContext
    <2>1. p \in Procs
        BY DEF Workers
    <2>2. /\ col[p] \in Cols
          /\ (IF col[p] < dim.w - 1 THEN col[p] + 1 ELSE col[p]) \in Cols
        BY <1>0, <2>1 DEF LocalTypeOK, Cols
    <2>3. /\ topCtx[col[p]] \in Tags
          /\ topCtx[IF col[p] < dim.w - 1 THEN col[p] + 1 ELSE col[p]] \in Tags
          /\ topLeft[p] \in Tags
          /\ 0 \in Tags
        BY <2>1, <2>2 DEF SharedTypeOK, LocalTypeOK, Tags
    <2>4. read' \in [Procs -> Contexts]
        BY <2>3 DEF LocalTypeOK, Contexts
    <2>5. pc' \in [Procs -> PCs]
        BY DEF LocalTypeOK, PCs
    <2>6. RowsInFrame'
        BY <2>1 DEF RowsInFrame, LocalTypeOK, frameVars, AtMB
    <2>7. QED
        BY <2>4, <2>5, <2>6
        DEF SyncTypeOK, FrameTypeOK, SharedTypeOK, LocalTypeOK, frameVars, syncVars
<1>6. ASSUME NEW p \in Workers, EncodeMB(p) PROVE TypeInv'
    <2> USE <1>6 DEF EncodeMB
    <2>1. p \in Procs
        BY DEF Workers
    <2>2. [top |-> read[p].top, right |-> read[p].right, left |-> read[p].left,
           modes |-> topCtx[col[p]], nz |-> topNz[col[p]]] \in MBInfos
        BY <2>1 DEF LocalTypeOK, SharedTypeOK, Contexts, MBInfos
    <2>3. mbInfo' \in [Rows -> [Cols -> MBInfos \cup {NotEncoded}]]
        BY <2>2 DEF SharedTypeOK
    <2>4. pc' \in [Procs -> PCs]
        BY DEF LocalTypeOK, PCs
    <2>5. RowsInFrame'
        BY <2>1 DEF RowsInFrame, LocalTypeOK, frameVars, AtMB
    <2>6. QED
        BY <2>3, <2>4, <2>5
        DEF SyncTypeOK, FrameTypeOK, SharedTypeOK, LocalTypeOK, frameVars, syncVars
<1>7. ASSUME NEW p \in Workers, ExportMB(p) PROVE TypeInv'
    <2> USE <1>7 DEF ExportMB
    <2>1. p \in Procs
        BY DEF Workers
    <2>2. row[p] + 1 \in Tags
        BY <1>0, <2>1 DEF RowsInFrame, AtMB, LocalTypeOK, Tags
    <2>3. topCtx' \in [Cols -> Tags] /\ topLeft' \in [Procs -> Tags]
        BY <2>1, <2>2 DEF SharedTypeOK, LocalTypeOK
    <2>4. pc' \in [Procs -> PCs]
        BY DEF LocalTypeOK, PCs
    <2>5. RowsInFrame'
        BY <2>1 DEF RowsInFrame, LocalTypeOK, frameVars, AtMB
    <2>6. QED
        BY <2>3, <2>4, <2>5
        DEF SyncTypeOK, FrameTypeOK, SharedTypeOK, LocalTypeOK, frameVars, syncVars
<1>8. ASSUME NEW p \in Workers, UpdateNZ(p) PROVE TypeInv'
    <2> USE <1>8 DEF UpdateNZ
    <2>1. p \in Procs
        BY DEF Workers
    <2>2. row[p] \in 0 .. dim.h - 1 /\ col[p] \in Cols
        BY <1>0, <2>1 DEF RowsInFrame, AtMB, LocalTypeOK
    <2>3. topNz' \in [Cols -> Tags]
        <3>1. row[p] + 1 \in Tags
            BY <1>0, <2>2 DEF Tags
        <3>2. QED
            BY <2>2, <3>1 DEF SharedTypeOK
    <2>4. call' \in [Procs -> Calls]
        <3>1. row[p] \in Rows /\ col[p] + 1 \in 0 .. MaxCols
            BY <1>0, <2>2 DEF Rows, Cols
        <3>2. signal(row[p], col[p] + 1) \in Calls
            BY <3>1, CallTypes
        <3>3. QED
            BY <3>2 DEF SyncTypeOK
    <2>5. pc' \in [Procs -> PCs]
        BY DEF LocalTypeOK, PCs
    <2>6. RowsInFrame'
        BY <2>1 DEF RowsInFrame, LocalTypeOK, frameVars, AtMB
    <2>7. QED
        BY <2>3, <2>4, <2>5, <2>6
        DEF SyncTypeOK, FrameTypeOK, SharedTypeOK, LocalTypeOK, frameVars
<1>9. ASSUME NEW p \in Workers, Advance(p) PROVE TypeInv'
    <2> USE <1>9 DEF Advance
    <2>1. p \in Procs
        BY DEF Workers
    <2>2. row[p] \in 0 .. dim.h - 1 /\ col[p] \in Cols
        BY <1>0, <2>1 DEF RowsInFrame, AtMB, LocalTypeOK
    <2>3. CASE col[p] + 1 < dim.w
        <3>1. BeginMB(p, row[p], col[p] + 1) /\ col[p] + 1 \in 0 .. dim.w - 1
            BY <1>0, <2>2, <2>3 DEF Cols
        <3>2. /\ call' \in [Procs -> Calls]
              /\ col' \in [Procs -> Cols]
              /\ pc' \in [Procs -> PCs]
            BY <1>3, <2>1, <2>2, <3>1
        <3>3. RowsInFrame'
            <4>1. pc' = [pc EXCEPT ![p] = "fill"] /\ row' = row /\ dim' = dim
                BY <3>1 DEF BeginMB, frameVars
            <4>2. QED
                BY <2>1, <2>2, <4>1 DEF RowsInFrame, LocalTypeOK, AtMB
        <3>4. QED
            BY <3>2, <3>3
            DEF SyncTypeOK, FrameTypeOK, SharedTypeOK, LocalTypeOK, frameVars
    <2>4. CASE ~(col[p] + 1 < dim.w)
        <3>1. pc' \in [Procs -> PCs]
            BY <2>4 DEF LocalTypeOK, PCs
        <3>2. RowsInFrame'
            BY <2>1, <2>4 DEF RowsInFrame, LocalTypeOK, frameVars, AtMB
        <3>3. QED
            BY <2>4, <3>1, <3>2
            DEF SyncTypeOK, FrameTypeOK, SharedTypeOK, LocalTypeOK, frameVars
    <2>5. QED
        BY <2>3, <2>4
<1>10. ASSUME RecordMB PROVE TypeInv'
    <2>1. /\ row[Caller] \in 0 .. dim.h - 1
          /\ row[Caller] \in Rows
          /\ col[Caller] \in Cols
        BY <1>0, <1>10 DEF RecordMB, RowsInFrame, AtMB, LocalTypeOK, Rows
    <2>1a. /\ row[Caller] + 1 \in 0 .. MaxRows /\ 0 \in Cols
           /\ col[Caller] + 1 < dim.w => col[Caller] + 1 \in Cols
           /\ row[Caller] + 1 < dim.h => row[Caller] + 1 \in Rows /\ dim.w \in 0 .. MaxCols
        BY <1>0, <2>1 DEF Cols, Rows
    <2>1b. row[Caller] + 1 < dim.h => waitFor(row[Caller] + 1, dim.w) \in Calls
        BY <2>1a, CallTypes
    <2> USE <1>10 DEF RecordMB
    <2>2. tokens' \in Seq(MBInfos \cup {NotEncoded})
        BY <2>1 DEF SharedTypeOK
    <2>3. pc' \in [Procs -> PCs]
        BY DEF LocalTypeOK, PCs
    <2>4. col' \in [Procs -> Cols] /\ row' \in [Procs -> 0 .. MaxRows]
        <3>1. CASE col[Caller] + 1 < dim.w
            <4>1. col' = [col EXCEPT ![Caller] = col[Caller] + 1] /\ row' = row
                BY <3>1
            <4> HIDE <1>10 DEF RecordMB
            <4>2. QED
                BY <2>1a, <3>1, <4>1 DEF LocalTypeOK
        <3>2. CASE ~(col[Caller] + 1 < dim.w)
            <4>1. col' = [col EXCEPT ![Caller] = 0] /\ row' = [row EXCEPT ![Caller] = row[Caller] + 1]
                BY <3>2
            <4> HIDE <1>10 DEF RecordMB
            <4>2. QED
                BY <2>1a, <4>1 DEF LocalTypeOK
        <3>3. QED
            BY <3>1, <3>2
    <2>5. call' \in [Procs -> Calls]
        <3>1. CASE col[Caller] + 1 < dim.w
            BY <3>1 DEF SyncTypeOK
        <3>2. CASE ~(col[Caller] + 1 < dim.w)
            BY <2>1b, <3>2 DEF SyncTypeOK
        <3>3. QED
            BY <3>1, <3>2
    <2>6. parallelRS' \in BOOLEAN
        BY Zenon DEF FrameTypeOK
    <2>7. RowsInFrame'
        BY <2>1 DEF RowsInFrame, LocalTypeOK, frameVars, AtMB
    <2>8. QED
        BY <2>2, <2>3, <2>4, <2>5, <2>6, <2>7
        DEF SyncTypeOK, FrameTypeOK, SharedTypeOK, LocalTypeOK, frameVars
<1>11. ASSUME EndFrame PROVE TypeInv'
    <2> USE <1>11 DEF EndFrame
    <2>1. pc' \in [Procs -> PCs]
        BY DEF LocalTypeOK, PCs
    <2>2. RowsInFrame'
        BY DEF RowsInFrame, LocalTypeOK, AtMB
    <2>3. QED
        BY <2>1, <2>2 DEF SyncTypeOK, FrameTypeOK, SharedTypeOK, LocalTypeOK, syncVars
<1>12. ASSUME UNCHANGED vars PROVE TypeInv'
    BY <1>12
    DEF vars, syncVars, frameVars, localVars, SyncTypeOK, FrameTypeOK, SharedTypeOK,
        LocalTypeOK, RowsInFrame
<1>13. QED
    BY <1>1, <1>2, <1>4, <1>5, <1>6, <1>7, <1>8, <1>9, <1>10, <1>11, <1>12
    DEF Next, WorkerStep, Finished

\* Every variable keeps its type: no row, column or progress index ever
\* leaves its array, whatever the frame sizes and the goroutines.
THEOREM TypeCorrect == Spec => []TypeOK
<1>1. TypeInv => TypeOK
    BY DEF TypeInv
<1>2. QED
    BY <1>1, InitTypeInv, NextTypeInv, PTL DEF Spec

-----------------------------------------------------------------------------
(***************************************************************************)
(* The inductive invariant of the row pipeline.  It says, for a worker that *)
(* is at a macroblock, how far its row is encoded, exported and flagged,    *)
(* and what the rowSync vouches for.                                        *)
(***************************************************************************)

\* p is in encodeRow.
InRow(p) == pc[p] \in {"fill", "pick", "export", "updateNz", "advance"}

\* How many macroblocks of its row p has encoded, exported to the top
\* context, and entered in the non-zero context.
Encoded(p)  == IF pc[p] \in {"export", "updateNz", "advance"} THEN col[p] + 1 ELSE col[p]
Exported(p) == IF pc[p] \in {"updateNz", "advance"} THEN col[p] + 1 ELSE col[p]
Flagged(p)  == IF pc[p] = "advance" THEN col[p] + 1 ELSE col[p]

\* p is in waitFor and has not seen the progress it waits for.
Waiting(p) == call[p].at \in WaitSteps \ {"unlock", "leave"}

FrameRows == 0 .. dim.h - 1
FrameCols == 0 .. dim.w - 1

\* Who runs what: between frames no worker runs.
Roles ==
    /\ pc[Caller] \in {"idle", "record", "join"}
    /\ \A p \in Workers : InRow(p) \/ pc[p] \in {"claim", "exited"}
    /\ pc[Caller] = "idle" => \A p \in Workers : pc[p] = "exited"
    /\ pc[Caller] = "record" => parallelRS

\* Which call of waitFor or signal a goroutine can be in.
CallSites ==
    /\ Returned(Caller)
       \/ /\ pc[Caller] = "record"
          /\ call[Caller].at \in WaitSteps
          /\ call[Caller].row = row[Caller]
          /\ call[Caller].n = dim.w
    /\ \A p \in Workers :
          \/ Returned(p)
          \/ /\ pc[p] = "fill"
             /\ row[p] > 0
             /\ call[p].at \in WaitSteps
             /\ call[p].row = row[p] - 1
             /\ call[p].n = WaitTarget(col[p])
          \/ /\ pc[p] = "advance"
             /\ call[p].at \in SignalSteps
             /\ call[p].row = row[p]
             /\ call[p].n = col[p] + 1

\* Workers are at different rows, all of them claimed.
Claims ==
    /\ \A p \in Workers : InRow(p) => row[p] < nextRow /\ col[p] < dim.w
    /\ \A p, q \in Workers : p # q /\ InRow(p) /\ InRow(q) => row[p] # row[q]
    /\ pc[Caller] = "record" => col[Caller] < dim.w

\* Nothing is known of a row before it is claimed.
Unclaimed ==
    /\ \A x \in FrameCols : topCtx[x] <= nextRow /\ topNz[x] <= nextRow
    /\ \A y \in FrameRows : y >= nextRow =>
          done[y] = 0 /\ \A x \in FrameCols : mbInfo[y][x] = NotEncoded

\* The workers' macroblocks: what is in their row is theirs, and what is
\* beyond it in the shared contexts is from the rows above.
Prefixes ==
    \A p \in Workers : InRow(p) =>
        /\ done[row[p]] <= Flagged(p)
        /\ \A x \in FrameCols :
              /\ mbInfo[row[p]][x] # NotEncoded <=> x < Encoded(p)
              /\ row[p] < topCtx[x] <=> x < Exported(p)
              /\ row[p] < topNz[x] <=> x < Flagged(p)

\* What rowSync publishes is complete.
Published ==
    \A y \in FrameRows, x \in FrameCols :
        x < done[y] => y < topCtx[x] /\ y < topNz[x] /\ mbInfo[y][x] # NotEncoded

\* Whoever has come out of waitFor has what it waited for.
Awaited ==
    /\ \A p \in Workers :
          InRow(p) /\ row[p] > 0 /\ ~Waiting(p) => done[row[p] - 1] >= WaitTarget(col[p])
    /\ pc[Caller] = "record" =>
          /\ ~Waiting(Caller) => done[row[Caller]] >= dim.w
          /\ \A y \in FrameRows : y < row[Caller] => done[y] >= dim.w
    /\ pc[Caller] = "join" => \A y \in FrameRows : done[y] >= dim.w

\* The context a worker carries along its row or has read is the serial one.
Carried ==
    \A p \in Workers : InRow(p) =>
        /\ col[p] > 0 \/ pc[p] \in {"updateNz", "advance"} => topLeft[p] = row[p]
        /\ pc[p] = "pick" =>
              read[p] = [top |-> row[p], right |-> row[p],
                         left |-> IF col[p] > 0 THEN row[p] ELSE 0]

\* Nothing is encoded outside the frame.
Margins ==
    \A y \in Rows, x \in Cols :
        y \notin FrameRows \/ x \notin FrameCols => mbInfo[y][x] = NotEncoded

\* The tokens are the macroblocks before the one recordAllTokens is at.
TokenCount ==
    /\ pc[Caller] = "record" => Len(tokens) = row[Caller] * dim.w + col[Caller]
    /\ pc[Caller] = "join" => Len(tokens) = dim.h * dim.w

Pipeline == Roles /\ CallSites /\ Claims /\ Unclaimed /\ Prefixes /\ Published /\ Awaited

IInv == TypeInv /\ Pipeline /\ Carried /\ Margins /\ ContextExact /\ TokenCount /\ TokensAreFinal

\* Where the indices of a frame lie.
LEMMA FrameFacts ==
    ASSUME TypeInv
    PROVE  /\ dim.w \in Nat /\ 1 <= dim.w /\ dim.w <= MaxCols
           /\ dim.h \in Nat /\ 4 <= dim.h /\ dim.h <= MaxRows
           /\ nextRow \in Nat
           /\ FrameRows \subseteq Rows /\ FrameCols \subseteq Cols
           /\ FrameRows \subseteq Nat /\ FrameCols \subseteq Nat
           /\ \A x \in FrameCols : topCtx[x] \in Nat /\ topNz[x] \in Nat
           /\ \A y \in Rows : done[y] \in Nat
           /\ \A p \in Procs :
                 /\ row[p] \in Nat /\ col[p] \in Nat
                 /\ InRow(p) \/ pc[p] = "record" => row[p] \in FrameRows
<1> USE DEF TypeInv, TypeOK
<1>1. dim \in Dims /\ nextRow \in Nat
    BY DEF FrameTypeOK
<1>2. /\ dim.w \in Nat /\ 1 <= dim.w /\ dim.w <= MaxCols
      /\ dim.h \in Nat /\ 4 <= dim.h /\ dim.h <= MaxRows
    BY <1>1, DimsBounded
<1>3. /\ FrameRows \subseteq Rows /\ FrameCols \subseteq Cols
      /\ FrameRows \subseteq Nat /\ FrameCols \subseteq Nat
    BY <1>2, RowSyncAssumption DEF FrameRows, FrameCols, Rows, Cols
<1>4. \A x \in FrameCols : topCtx[x] \in Nat /\ topNz[x] \in Nat
    BY <1>3, RowSyncAssumption DEF SharedTypeOK, Tags
<1>5. \A y \in Rows : done[y] \in Nat
    BY RowSyncAssumption DEF SyncTypeOK
<1>6. ASSUME NEW p \in Procs
      PROVE  /\ row[p] \in Nat /\ col[p] \in Nat
             /\ InRow(p) \/ pc[p] = "record" => row[p] \in FrameRows
    <2>1. row[p] \in Nat /\ col[p] \in Nat
        BY RowSyncAssumption DEF LocalTypeOK, Cols
    <2>2. InRow(p) \/ pc[p] = "record" => row[p] < dim.h
        BY DEF RowsInFrame, AtMB, InRow
    <2>3. QED
        BY <1>2, <2>1, <2>2 DEF FrameRows
<1>7. QED
    BY <1>1, <1>2, <1>3, <1>4, <1>5, <1>6

\* What a step inside waitFor or signal does to the call and to the progress:
\* waitFor comes out only once the progress is there, and signal publishes the
\* progress it was called with.
LEMMA SyncEffect ==
    ASSUME SyncTypeOK, NEW p \in Procs, SyncStep(p)
    PROVE  /\ \A q \in Procs : q # p => call'[q] = call[q]
           /\ \/ /\ call[p].at \in WaitSteps
                 /\ done' = done
                 /\ \/ Returned(p)'
                    \/ /\ call'[p].at \in WaitSteps
                       /\ call'[p].row = call[p].row /\ call'[p].n = call[p].n
                 /\ ~Waiting(p)' => ~Waiting(p) \/ done[call[p].row] >= call[p].n
              \/ /\ call[p].at \in SignalSteps
                 /\ \/ done' = done
                    \/ done' = [done EXCEPT ![call[p].row] = call[p].n]
                 /\ \/ Returned(p)'
                    \/ /\ call'[p].at \in SignalSteps
                       /\ call'[p].row = call[p].row /\ call'[p].n = call[p].n
<1> USE DEF At, Returned, Waiting
<1>1. /\ call \in [Procs -> Calls]
      /\ call[p] = [at |-> call[p].at, row |-> call[p].row, n |-> call[p].n]
      /\ done[call[p].row] \in Int /\ call[p].n \in Int
    BY DEF SyncTypeOK, Calls
<1>2. ASSUME NEW l \in WaitSteps \cup SignalSteps, Goto(p, l)
      PROVE  /\ \A q \in Procs : q # p => call'[q] = call[q]
             /\ call'[p].at = l /\ call'[p].row = call[p].row /\ call'[p].n = call[p].n
    BY <1>1, <1>2 DEF Goto, Calls
<1>3. ASSUME Return(p)
      PROVE  (\A q \in Procs : q # p => call'[q] = call[q]) /\ call'[p] = Out
    BY <1>1, <1>3 DEF Return
<1>4. CASE WaitCheck(p)
    <2>1. CASE done[call[p].row] >= call[p].n
        BY <1>3, <1>4, <2>1 DEF WaitCheck, WaitSteps
    <2>2. CASE ~(done[call[p].row] >= call[p].n)
        BY <1>2, <1>4, <2>2 DEF WaitCheck, WaitSteps
    <2>3. QED
        BY <2>1, <2>2
<1>5. CASE WaitAnnounce(p)
    BY <1>2, <1>5 DEF WaitAnnounce, WaitSteps
<1>6. CASE WaitLock(p)
    BY <1>2, <1>6 DEF WaitLock, WaitSteps
<1>7. CASE WaitRecheck(p)
    <2>1. CASE done[call[p].row] < call[p].n
        BY <1>2, <1>7, <2>1 DEF WaitRecheck, WaitSteps
    <2>2. CASE ~(done[call[p].row] < call[p].n)
        <3>1. done[call[p].row] >= call[p].n
            BY <1>1, <2>2
        <3>2. QED
            BY <1>2, <1>7, <2>2, <3>1 DEF WaitRecheck, WaitSteps
    <2>3. QED
        BY <2>1, <2>2
<1>8. CASE CondEnlist(p)
    BY <1>2, <1>8 DEF CondEnlist, WaitSteps
<1>9. CASE CondRelease(p)
    BY <1>2, <1>9 DEF CondRelease, WaitSteps
<1>10. CASE CondWake(p)
    BY <1>2, <1>10 DEF CondWake, WaitSteps
<1>11. CASE WaitUnlock(p)
    BY <1>2, <1>11 DEF WaitUnlock, WaitSteps
<1>12. CASE WaitLeave(p)
    BY <1>3, <1>12 DEF WaitLeave, WaitSteps
<1>13. CASE SignalStore(p)
    BY <1>2, <1>13 DEF SignalStore, SignalSteps
<1>14. CASE SignalPeek(p)
    <2>1. CASE waiters[call[p].row] > 0
        BY <1>2, <1>14, <2>1 DEF SignalPeek, SignalSteps
    <2>2. CASE ~(waiters[call[p].row] > 0)
        BY <1>3, <1>14, <2>2 DEF SignalPeek, SignalSteps
    <2>3. QED
        BY <2>1, <2>2
<1>15. CASE SignalLock(p)
    BY <1>2, <1>15 DEF SignalLock, SignalSteps
<1>16. CASE SignalUnlock(p)
    BY <1>2, <1>16 DEF SignalUnlock, SignalSteps
<1>17. CASE SignalBroadcast(p)
    BY <1>3, <1>17 DEF SignalBroadcast, SignalSteps
<1>18. QED
    BY <1>4, <1>5, <1>6, <1>7, <1>8, <1>9, <1>10, <1>11, <1>12, <1>13, <1>14, <1>15, <1>16, <1>17
    DEF SyncStep, WaitStep, SignalStep

\* A step inside waitFor or signal keeps the pipeline in order: only a worker
\* that has finished a macroblock publishes progress, and never less than before.
LEMMA SyncKeeps ==
    ASSUME TypeInv, Pipeline, NEW p \in Procs, Sync(p)
    PROVE  Pipeline'
<1> USE FrameFacts DEF Pipeline
<1>1. /\ UNCHANGED <<pc, row, col, dim, nextRow, topCtx, topNz, mbInfo, parallelRS>>
      /\ Caller \in Procs /\ Workers = Procs \ {Caller}
      /\ \A q \in Procs : InRow(q)' <=> InRow(q)
      /\ FrameRows' = FrameRows /\ FrameCols' = FrameCols
    BY EncodeParallelAssumption
    DEF Sync, frameVars, localVars, InRow, Workers, FrameRows, FrameCols
<1>2. /\ \A q \in Procs : q # p => call'[q] = call[q]
      /\ \/ /\ call[p].at \in WaitSteps
            /\ done' = done
            /\ \/ Returned(p)'
               \/ /\ call'[p].at \in WaitSteps
                  /\ call'[p].row = call[p].row /\ call'[p].n = call[p].n
            /\ ~Waiting(p)' => ~Waiting(p) \/ done[call[p].row] >= call[p].n
         \/ /\ call[p].at \in SignalSteps
            /\ \/ done' = done
               \/ done' = [done EXCEPT ![call[p].row] = call[p].n]
            /\ \/ Returned(p)'
               \/ /\ call'[p].at \in SignalSteps
                  /\ call'[p].row = call[p].row /\ call'[p].n = call[p].n
    BY SyncEffect DEF Sync, TypeInv, TypeOK
<1>3. Roles'
    BY <1>1 DEF Roles
<1>4. CallSites'
    <2>1. WaitTarget(col[p])' = WaitTarget(col[p])
        BY <1>1 DEF WaitTarget
    <2>2. \A q \in Procs : q # p => (Returned(q)' <=> Returned(q))
        BY <1>2 DEF Returned
    <2>3. CASE p = Caller
        BY <1>1, <1>2, <2>2, <2>3
        DEF CallSites, WaitSteps, SignalSteps, Returned, Out, WaitTarget
    <2>4. CASE p # Caller
        <3>1. \/ Returned(p)'
              \/ /\ pc[p] = "fill"
                 /\ row[p] > 0
                 /\ call'[p].at \in WaitSteps
                 /\ call'[p].row = row[p] - 1
                 /\ call'[p].n = WaitTarget(col[p])
              \/ /\ pc[p] = "advance"
                 /\ call'[p].at \in SignalSteps
                 /\ call'[p].row = row[p]
                 /\ call'[p].n = col[p] + 1
            BY <1>1, <1>2, <2>4 DEF CallSites, WaitSteps, SignalSteps, Returned, Out
        <3>2. QED
            BY <1>1, <1>2, <2>1, <2>2, <2>4, <3>1 DEF CallSites, WaitTarget
    <2>5. QED
        BY <2>3, <2>4
<1>5. Claims'
    BY <1>1 DEF Claims
<1>6. \/ done' = done
      \/ /\ p \in Workers
         /\ pc[p] = "advance"
         /\ done' = [done EXCEPT ![row[p]] = col[p] + 1]
    BY <1>1, <1>2 DEF CallSites, WaitSteps, SignalSteps, Returned, Out
<1>7. /\ done \in [Rows -> 0 .. MaxCols]
      /\ pc[p] = "advance" => InRow(p) /\ row[p] \in FrameRows
    BY DEF TypeInv, TypeOK, SyncTypeOK, InRow
<1>8. \A y \in FrameRows : done[y] \in Int /\ done'[y] \in Int /\ done'[y] >= done[y]
    <2>1. p \in Workers /\ pc[p] = "advance" => done[row[p]] <= col[p] + 1
        BY <1>7 DEF Prefixes, Flagged
    <2>2. CASE done' = done
        BY <1>7, <2>2
    <2>3. CASE p \in Workers /\ pc[p] = "advance" /\ done' = [done EXCEPT ![row[p]] = col[p] + 1]
        BY <1>7, <2>1, <2>3
    <2>4. QED
        BY <1>6, <2>2, <2>3
<1>9. Unclaimed'
    <2>1. p \in Workers /\ pc[p] = "advance" => row[p] < nextRow
        BY <1>7 DEF Claims
    <2>2. \A y \in FrameRows : y >= nextRow => done'[y] = done[y]
        BY <1>6, <1>7, <2>1
    <2>3. QED
        BY <1>1, <2>2 DEF Unclaimed
<1>10. Prefixes'
    <2>1. \A q \in Workers : InRow(q) => done'[row[q]] <= Flagged(q)
        BY <1>1, <1>6, <1>7 DEF Prefixes, Claims, Flagged
    <2>2. QED
        BY <1>1, <2>1 DEF Prefixes, Encoded, Exported, Flagged
<1>11. Published'
    <2>1. ASSUME p \in Workers, pc[p] = "advance", NEW x \in FrameCols, x < col[p] + 1
          PROVE  row[p] < topCtx[x] /\ row[p] < topNz[x] /\ mbInfo[row[p]][x] # NotEncoded
        BY <1>7, <2>1 DEF Prefixes, Encoded, Exported, Flagged
    <2>2. ASSUME NEW y \in FrameRows, NEW x \in FrameCols, x < done'[y]
          PROVE  y < topCtx[x] /\ y < topNz[x] /\ mbInfo[y][x] # NotEncoded
        <3>1. CASE x < done[y]
            BY <3>1 DEF Published
        <3>2. CASE ~(x < done[y])
            BY <1>6, <1>7, <2>1, <2>2, <3>2
        <3>3. QED
            BY <3>1, <3>2
    <2>3. QED
        BY <1>1, <2>2 DEF Published
<1>12. Awaited'
    <2>1. \A q \in Procs : q # p => (Waiting(q)' <=> Waiting(q))
        BY <1>2 DEF Waiting
    <2>2. ASSUME NEW q \in Workers, InRow(q), row[q] > 0, ~Waiting(q)'
          PROVE  done'[row[q] - 1] >= WaitTarget(col[q])
        <3>1. /\ row[q] - 1 \in FrameRows /\ q \in Procs
              /\ WaitTarget(col[q]) \in Int
              /\ done[row[q] - 1] \in Int /\ done'[row[q] - 1] \in Int
            BY <1>1, <1>8, <2>2 DEF FrameRows, WaitTarget, Min2
        <3>2. done[row[q] - 1] >= WaitTarget(col[q])
            <4>1. CASE ~Waiting(q)
                BY <2>2, <4>1 DEF Awaited
            <4>2. CASE Waiting(q)
                <5>1. q = p
                    BY <2>1, <2>2, <3>1, <4>2
                <5>2. call[p].at \in WaitSteps /\ done[call[p].row] >= call[p].n
                    BY <1>2, <2>2, <4>2, <5>1 DEF Waiting, WaitSteps, SignalSteps
                <5>3. call[p].row = row[p] - 1 /\ call[p].n = WaitTarget(col[p])
                    BY <2>2, <5>1, <5>2 DEF CallSites, WaitSteps, SignalSteps, Returned, Out
                <5>4. QED
                    BY <5>1, <5>2, <5>3
            <4>3. QED
                BY <4>1, <4>2
        <3>3. QED
            BY <1>8, <3>1, <3>2
    <2>3. ASSUME pc[Caller] = "record", ~Waiting(Caller)'
          PROVE  done'[row[Caller]] >= dim.w
        <3>1. /\ row[Caller] \in FrameRows
              /\ done[row[Caller]] \in Int /\ done'[row[Caller]] \in Int
            BY <1>1, <1>8, <2>3
        <3>2. done[row[Caller]] >= dim.w
            <4>1. CASE ~Waiting(Caller)
                BY <2>3, <4>1 DEF Awaited
            <4>2. CASE Waiting(Caller)
                <5>1. Caller = p
                    BY <1>1, <2>1, <2>3, <4>2
                <5>2. call[p].at \in WaitSteps /\ done[call[p].row] >= call[p].n
                    BY <1>2, <2>3, <4>2, <5>1 DEF Waiting, WaitSteps, SignalSteps
                <5>3. call[p].row = row[Caller] /\ call[p].n = dim.w
                    BY <5>1, <5>2 DEF CallSites, WaitSteps, Returned, Out
                <5>4. QED
                    BY <5>1, <5>2, <5>3
            <4>3. QED
                BY <4>1, <4>2
        <3>3. QED
            BY <1>8, <3>1, <3>2
    <2>4. ASSUME NEW y \in FrameRows, done[y] >= dim.w
          PROVE  done'[y] >= dim.w
        BY <1>8, <2>4
    <2>5. QED
        BY <1>1, <2>2, <2>3, <2>4 DEF Awaited, WaitTarget
<1>13. QED
    BY <1>3, <1>4, <1>5, <1>9, <1>10, <1>11, <1>12

\* A worker's macroblock lies inside the frame.
LEMMA WorkerFacts ==
    ASSUME TypeInv, Pipeline, NEW p \in Workers, InRow(p)
    PROVE  /\ p \in Procs /\ p # Caller
           /\ row[p] \in FrameRows /\ row[p] < nextRow
           /\ col[p] \in FrameCols
           /\ WaitTarget(col[p]) \in Int /\ col[p] < WaitTarget(col[p])
<1>1. p \in Procs /\ p # Caller
    BY DEF Workers
<1>2. row[p] \in FrameRows /\ row[p] < nextRow /\ col[p] \in FrameCols
    BY <1>1, FrameFacts DEF Pipeline, Claims, FrameCols
<1>3. QED
    BY <1>1, <1>2, FrameFacts DEF WaitTarget, Min2, FrameCols

\* Past the wait, the shared context that the macroblock reads was written by
\* the row above and by no later row.
LEMMA OwnContext ==
    ASSUME TypeInv, Pipeline, NEW p \in Workers, InRow(p), ~Waiting(p),
           NEW x \in FrameCols, x < WaitTarget(col[p])
    PROVE  /\ x >= Exported(p) => topCtx[x] = row[p]
           /\ x >= Flagged(p) => topNz[x] = row[p]
           /\ row[p] > 0 => mbInfo[row[p] - 1][x] # NotEncoded
<1> USE FrameFacts DEF Pipeline
<1>1. row[p] \in FrameRows /\ col[p] \in FrameCols /\ WaitTarget(col[p]) \in Int
    BY WorkerFacts
<1>2. /\ x >= Exported(p) => topCtx[x] <= row[p]
      /\ x >= Flagged(p) => topNz[x] <= row[p]
    BY <1>1 DEF Prefixes, Exported, Flagged
<1>3. ASSUME row[p] > 0
      PROVE  row[p] - 1 < topCtx[x] /\ row[p] - 1 < topNz[x] /\ mbInfo[row[p] - 1][x] # NotEncoded
    <2>1. row[p] - 1 \in FrameRows
        BY <1>1, <1>3 DEF FrameRows
    <2>2. x < done[row[p] - 1]
        BY <1>1, <1>3, <2>1 DEF Awaited
    <2>3. QED
        BY <2>1, <2>2 DEF Published
<1>4. QED
    BY <1>1, <1>2, <1>3

\* A new frame starts with nothing published and every worker at its claim.
LEMMA StartKeeps ==
    ASSUME TypeInv, Pipeline, NEW d \in Dims, StartFrame(d)
    PROVE  Pipeline'
<1>1. /\ d.w \in Nat /\ 1 <= d.w /\ d.w <= MaxCols
      /\ d.h \in Nat /\ 4 <= d.h /\ d.h <= MaxRows
      /\ Caller \in Procs /\ Workers = Procs \ {Caller}
    BY DimsBounded, EncodeParallelAssumption DEF Workers
<1>2. /\ FrameRows' = 0 .. d.h - 1 /\ FrameRows' \subseteq Rows
      /\ FrameCols' = 0 .. d.w - 1 /\ FrameCols' \subseteq Cols
    <2>1. dim' = d
        BY DEF StartFrame
    <2>2. QED
        BY <1>1, <2>1, RowSyncAssumption DEF FrameRows, FrameCols, Rows, Cols
<1> USE StartFrame(d) DEF StartFrame
<1>2a. \A y \in FrameRows' : done'[y] = 0
    <2>1. CASE ReuseState(d)
        <3>1. done' = [y \in Rows |-> IF y < d.h THEN 0 ELSE done[y]]
            BY <2>1 DEF ReuseState
        <3>2. QED
            BY <1>1, <1>2, <3>1
    <2>2. CASE FreshState(d)
        BY <1>2, <2>2 DEF FreshState, newRowSync
    <2>3. QED
        BY <2>1, <2>2 DEF getParallelState
<1>3. /\ pc'[Caller] = "record"
      /\ \A p \in Workers : pc'[p] \in {"claim", "exited"}
      /\ row'[Caller] = 0 /\ col'[Caller] = 0
      /\ \A p \in Workers : call'[p] = call[p]
      /\ call'[Caller] = waitFor(0, d.w)
      /\ dim' = d /\ parallelRS'
    BY <1>1 DEF TypeInv, TypeOK, SyncTypeOK
<1>4. \A p \in Workers : ~InRow(p)'
    BY <1>3 DEF InRow
<1>5. Roles'
    BY <1>3 DEF Roles
<1>6. CallSites'
    <2>1. \A p \in Workers : Returned(p)'
        BY <1>3 DEF CallSites, Pipeline, Roles, Returned
    <2>2. QED
        BY <1>3, <2>1 DEF CallSites, waitFor, WaitSteps
<1>7. Claims'
    BY <1>1, <1>3, <1>4 DEF Claims
<1>8. Unclaimed'
    <2>1. /\ topCtx' = [x \in Cols |-> 0] /\ topNz' = [x \in Cols |-> 0] /\ nextRow' = 0
          /\ mbInfo' = [y \in Rows |-> [x \in Cols |-> NotEncoded]]
        OBVIOUS
    <2>2. QED
        BY <1>2, <1>2a, <2>1 DEF Unclaimed
<1>9. Prefixes'
    BY <1>4 DEF Prefixes
<1>10. Published'
    BY <1>2, <1>2a DEF Published
<1>11. Awaited'
    BY <1>2, <1>3, <1>4 DEF Awaited, Waiting, waitFor, WaitSteps
<1>12. QED
    BY <1>5, <1>6, <1>7, <1>8, <1>9, <1>10, <1>11 DEF Pipeline

\* Claiming the next row keeps the pipeline in order: nobody is in that row yet.
LEMMA ClaimKeeps ==
    ASSUME TypeInv, Pipeline, NEW p \in Workers, ClaimRow(p)
    PROVE  Pipeline'
<1> USE FrameFacts, ClaimRow(p) DEF ClaimRow, Pipeline
<1>1. /\ UNCHANGED <<done, dim, topCtx, topNz, mbInfo, parallelRS>>
      /\ p \in Procs /\ Caller \in Procs /\ p # Caller
      /\ FrameRows' = FrameRows /\ FrameCols' = FrameCols
      /\ ~InRow(p) /\ Returned(p)
      /\ pc \in [Procs -> PCs] /\ call \in [Procs -> Calls]
      /\ row \in [Procs -> 0 .. MaxRows] /\ col \in [Procs -> Cols]
    BY EncodeParallelAssumption
    DEF frameVars, Workers, FrameRows, FrameCols, InRow, CallSites, TypeInv, TypeOK,
        LocalTypeOK, SyncTypeOK
<1>2. \A q \in Procs : q # p =>
          /\ pc'[q] = pc[q] /\ call'[q] = call[q] /\ row'[q] = row[q] /\ col'[q] = col[q]
          /\ InRow(q)' <=> InRow(q)
    BY <1>1 DEF BeginMB, InRow
<1>3. \/ /\ nextRow \in FrameRows
         /\ pc'[p] = "fill" /\ row'[p] = nextRow /\ col'[p] = 0
         /\ call'[p] = IF nextRow > 0 THEN waitFor(nextRow - 1, WaitTarget(0)) ELSE Out
      \/ /\ ~(nextRow < dim.h)
         /\ pc'[p] = "exited" /\ ~InRow(p)' /\ call'[p] = call[p]
    BY <1>1 DEF BeginMB, InRow, FrameRows
<1>4. Roles'
    BY <1>1, <1>2, <1>3 DEF Roles, InRow, Workers
<1>5. CallSites'
    <2>1. \/ Returned(p)'
          \/ /\ pc'[p] = "fill"
             /\ row'[p] > 0
             /\ call'[p].at \in WaitSteps
             /\ call'[p].row = row'[p] - 1
             /\ call'[p].n = WaitTarget(col'[p])
        BY <1>1, <1>3 DEF Returned, waitFor, WaitSteps
    <2>2. QED
        BY <1>1, <1>2, <2>1 DEF CallSites, WaitTarget, Workers, Returned
<1>6. Claims'
    <2>1. \A q \in Workers : InRow(q)' => row'[q] < nextRow + 1 /\ col'[q] < dim.w
        BY <1>1, <1>2, <1>3 DEF Claims, Workers
    <2>2. \A q \in Workers : q # p /\ InRow(q) => row[q] < nextRow
        BY DEF Claims
    <2>3. ASSUME NEW q \in Workers, NEW r \in Workers, q # r, InRow(q)', InRow(r)'
          PROVE  row'[q] # row'[r]
        BY <1>1, <1>2, <1>3, <2>2, <2>3 DEF Claims, Workers
    <2>4. QED
        BY <1>1, <1>2, <2>1, <2>3 DEF Claims
<1>7. Unclaimed'
    BY <1>1 DEF Unclaimed
<1>8. Prefixes'
    <2>1. ASSUME InRow(p)'
          PROVE  /\ done[row'[p]] <= 0
                 /\ \A x \in FrameCols :
                       /\ mbInfo[row'[p]][x] = NotEncoded
                       /\ ~(row'[p] < topCtx[x])
                       /\ ~(row'[p] < topNz[x])
        BY <1>3, <2>1 DEF Unclaimed
    <2>2. InRow(p)' => Encoded(p)' = 0 /\ Exported(p)' = 0 /\ Flagged(p)' = 0
        BY <1>3 DEF Encoded, Exported, Flagged
    <2>3. \A q \in Workers : q # p =>
              /\ Encoded(q)' = Encoded(q)
              /\ Exported(q)' = Exported(q)
              /\ Flagged(q)' = Flagged(q)
        BY <1>2 DEF Encoded, Exported, Flagged, Workers
    <2>4. ASSUME NEW q \in Workers, InRow(q)', q # p
          PROVE  /\ done[row'[q]] <= Flagged(q)'
                 /\ \A x \in FrameCols :
                       /\ mbInfo[row'[q]][x] # NotEncoded <=> x < Encoded(q)'
                       /\ row'[q] < topCtx[x] <=> x < Exported(q)'
                       /\ row'[q] < topNz[x] <=> x < Flagged(q)'
        BY <1>2, <2>3, <2>4 DEF Prefixes, Workers
    <2>5. ASSUME InRow(p)'
          PROVE  /\ done[row'[p]] <= Flagged(p)'
                 /\ \A x \in FrameCols :
                       /\ mbInfo[row'[p]][x] # NotEncoded <=> x < Encoded(p)'
                       /\ row'[p] < topCtx[x] <=> x < Exported(p)'
                       /\ row'[p] < topNz[x] <=> x < Flagged(p)'
        BY <2>1, <2>2, <2>5
    <2>6. QED
        BY <1>1, <2>4, <2>5 DEF Prefixes
<1>9. Published'
    BY <1>1 DEF Published
<1>10. Awaited'
    <2>1. InRow(p)' /\ row'[p] > 0 => Waiting(p)'
        BY <1>3 DEF Waiting, waitFor, WaitSteps
    <2>2. \A q \in Procs : q # p => (Waiting(q)' <=> Waiting(q))
        BY <1>2 DEF Waiting
    <2>3. \A q \in Workers : InRow(q)' /\ row'[q] > 0 /\ ~Waiting(q)' =>
              done[row'[q] - 1] >= WaitTarget(col'[q])
        BY <1>2, <2>1, <2>2 DEF Awaited, Workers
    <2>4. QED
        BY <1>1, <1>2, <2>2, <2>3 DEF Awaited, WaitTarget
<1>11. QED
    BY <1>4, <1>5, <1>6, <1>7, <1>8, <1>9, <1>10

\* Filling the prediction buffer changes nothing but the worker itself.
LEMMA FillKeeps ==
    ASSUME TypeInv, Pipeline, NEW p \in Workers, FillContext(p)
    PROVE  Pipeline'
<1> USE FrameFacts, FillContext(p) DEF FillContext, Pipeline
<1>1. /\ UNCHANGED <<done, call, dim, nextRow, topCtx, topNz, mbInfo, row, col, parallelRS>>
      /\ p \in Procs /\ Caller \in Procs /\ p # Caller
      /\ FrameRows' = FrameRows /\ FrameCols' = FrameCols
      /\ pc \in [Procs -> PCs]
    BY EncodeParallelAssumption
    DEF syncVars, frameVars, Workers, FrameRows, FrameCols, TypeInv, TypeOK, LocalTypeOK
<1>2. /\ pc[p] = "fill" /\ pc'[p] = "pick"
      /\ \A q \in Procs : q # p => pc'[q] = pc[q]
      /\ \A q \in Procs : InRow(q)' <=> InRow(q)
    BY <1>1 DEF InRow
<1>3. \A q \in Procs : /\ Encoded(q)' = Encoded(q)
                       /\ Exported(q)' = Exported(q)
                       /\ Flagged(q)' = Flagged(q)
    BY <1>1, <1>2 DEF Encoded, Exported, Flagged
<1>4. Roles'
    BY <1>1, <1>2 DEF Roles, Workers, InRow
<1>5. CallSites'
    BY <1>1, <1>2 DEF CallSites, WaitTarget, Workers, Returned
<1>6. Claims'
    BY <1>1, <1>2 DEF Claims, Workers
<1>7. Unclaimed'
    BY <1>1 DEF Unclaimed
<1>8. Prefixes'
    BY <1>1, <1>2, <1>3 DEF Prefixes, Workers
<1>9. Published'
    BY <1>1 DEF Published
<1>10. Awaited'
    BY <1>1, <1>2 DEF Awaited, WaitTarget, Waiting, Workers
<1>11. QED
    BY <1>4, <1>5, <1>6, <1>7, <1>8, <1>9, <1>10

\* Encoding a macroblock extends the worker's own row by one.
LEMMA EncodeKeeps ==
    ASSUME TypeInv, Pipeline, NEW p \in Workers, EncodeMB(p)
    PROVE  Pipeline'
<1> USE FrameFacts, EncodeMB(p) DEF EncodeMB, Pipeline
<1>1. /\ UNCHANGED <<done, call, dim, nextRow, topCtx, topNz, row, col, parallelRS>>
      /\ Caller \in Procs
      /\ FrameRows' = FrameRows /\ FrameCols' = FrameCols
      /\ pc \in [Procs -> PCs]
      /\ \A q \in Workers : q \in Procs
    BY EncodeParallelAssumption
    DEF syncVars, frameVars, Workers, FrameRows, FrameCols, TypeInv, TypeOK, LocalTypeOK
<1>2. /\ InRow(p) /\ pc[p] = "pick"
      /\ p \in Procs /\ p # Caller
      /\ row[p] \in FrameRows /\ row[p] < nextRow
      /\ col[p] \in FrameCols
    <2>1. InRow(p)
        BY DEF InRow
    <2>2. QED
        BY <2>1, WorkerFacts
<1>3. /\ pc'[p] = "export"
      /\ \A q \in Procs : q # p => pc'[q] = pc[q]
      /\ \A q \in Procs : InRow(q)' <=> InRow(q)
    BY <1>1, <1>2 DEF InRow
<1>4. /\ mbInfo'[row[p]][col[p]] # NotEncoded
      /\ \A y \in Rows, x \in Cols : y # row[p] \/ x # col[p] => mbInfo'[y][x] = mbInfo[y][x]
    <2>1. [top |-> read[p].top, right |-> read[p].right, left |-> read[p].left,
           modes |-> topCtx[col[p]], nz |-> topNz[col[p]]] \in MBInfos
        BY <1>2 DEF TypeInv, TypeOK, LocalTypeOK, SharedTypeOK, Contexts, MBInfos
    <2>2. mbInfo \in [Rows -> [Cols -> MBInfos \cup {NotEncoded}]]
        BY DEF TypeInv, TypeOK, SharedTypeOK
    <2>3. QED
        BY <1>2, <2>1, <2>2, NotEncodedAssumption
<1>5. /\ Encoded(p) = col[p] /\ Encoded(p)' = col[p] + 1
      /\ \A q \in Procs : q # p => Encoded(q)' = Encoded(q)
      /\ \A q \in Procs : Exported(q)' = Exported(q) /\ Flagged(q)' = Flagged(q)
    BY <1>1, <1>2, <1>3 DEF Encoded, Exported, Flagged
<1>6. Roles'
    BY <1>1, <1>2, <1>3 DEF Roles, InRow
<1>7. CallSites'
    BY <1>1, <1>2, <1>3 DEF CallSites, WaitTarget, Returned
<1>8. Claims'
    BY <1>1, <1>2, <1>3 DEF Claims
<1>9. Unclaimed'
    <2>1. \A y \in FrameRows, x \in FrameCols : y >= nextRow => mbInfo'[y][x] = mbInfo[y][x]
        BY <1>2, <1>4
    <2>2. QED
        BY <1>1, <2>1 DEF Unclaimed
<1>10. Prefixes'
    <2>1. ASSUME NEW q \in Workers, InRow(q), NEW x \in FrameCols
          PROVE  mbInfo'[row[q]][x] # NotEncoded <=> x < Encoded(q)'
        <3>1. CASE q = p
            <4>1. mbInfo[row[p]][x] # NotEncoded <=> x < col[p]
                BY <1>2, <1>5 DEF Prefixes
            <4>2. x # col[p] => mbInfo'[row[p]][x] = mbInfo[row[p]][x]
                BY <1>2, <1>4
            <4>3. QED
                BY <1>2, <1>4, <1>5, <3>1, <4>1, <4>2
        <3>2. CASE q # p
            <4>1. row[q] # row[p] /\ row[q] \in FrameRows
                BY <1>1, <1>2, <2>1, <3>2 DEF Claims
            <4>2. mbInfo'[row[q]][x] = mbInfo[row[q]][x]
                BY <1>4, <4>1
            <4>3. QED
                BY <1>1, <1>5, <2>1, <3>2, <4>2 DEF Prefixes
        <3>3. QED
            BY <3>1, <3>2
    <2>2. QED
        BY <1>1, <1>3, <1>5, <2>1 DEF Prefixes
<1>11. Published'
    <2>1. \A y \in FrameRows, x \in FrameCols :
              mbInfo[y][x] # NotEncoded => mbInfo'[y][x] # NotEncoded
        BY <1>4
    <2>2. QED
        BY <1>1, <2>1 DEF Published
<1>12. Awaited'
    BY <1>1, <1>2, <1>3 DEF Awaited, WaitTarget, Waiting
<1>13. QED
    BY <1>6, <1>7, <1>8, <1>9, <1>10, <1>11, <1>12

\* Exporting a macroblock replaces what the row above left in that column,
\* and nothing else.
LEMMA ExportKeeps ==
    ASSUME TypeInv, Pipeline, NEW p \in Workers, ExportMB(p)
    PROVE  Pipeline' /\ topCtx[col[p]] = row[p]
<1> USE FrameFacts, ExportMB(p) DEF ExportMB, Pipeline
<1>1. /\ UNCHANGED <<done, call, dim, nextRow, topNz, mbInfo, row, col, parallelRS>>
      /\ Caller \in Procs
      /\ FrameRows' = FrameRows /\ FrameCols' = FrameCols
      /\ pc \in [Procs -> PCs] /\ topCtx \in [Cols -> Tags]
      /\ \A q \in Workers : q \in Procs
    BY EncodeParallelAssumption
    DEF syncVars, frameVars, Workers, FrameRows, FrameCols, TypeInv, TypeOK, LocalTypeOK,
        SharedTypeOK
<1>2. /\ InRow(p) /\ pc[p] = "export" /\ Returned(p)
      /\ p \in Procs /\ p # Caller
      /\ row[p] \in FrameRows /\ row[p] < nextRow
      /\ col[p] \in FrameCols
      /\ col[p] < WaitTarget(col[p])
    <2>1. InRow(p) /\ Returned(p)
        BY DEF InRow, CallSites
    <2>2. QED
        BY <2>1, WorkerFacts
<1>3. /\ pc'[p] = "updateNz"
      /\ \A q \in Procs : q # p => pc'[q] = pc[q]
      /\ \A q \in Procs : InRow(q)' <=> InRow(q)
    BY <1>1, <1>2 DEF InRow
<1>4. topCtx[col[p]] = row[p]
    <2>1. ~Waiting(p)
        BY <1>2 DEF Waiting, Returned, Out, WaitSteps
    <2>2. col[p] >= Exported(p)
        BY <1>2 DEF Exported
    <2>3. QED
        BY <1>2, <2>1, <2>2, OwnContext
<1>5. /\ topCtx'[col[p]] = row[p] + 1
      /\ \A x \in FrameCols : x # col[p] => topCtx'[x] = topCtx[x]
    BY <1>1, <1>2
<1>6. /\ Exported(p) = col[p] /\ Exported(p)' = col[p] + 1
      /\ \A q \in Procs : q # p => Exported(q)' = Exported(q)
      /\ \A q \in Procs : Encoded(q)' = Encoded(q) /\ Flagged(q)' = Flagged(q)
    BY <1>1, <1>2, <1>3 DEF Encoded, Exported, Flagged
<1>7. Roles'
    BY <1>1, <1>2, <1>3 DEF Roles, InRow
<1>8. CallSites'
    BY <1>1, <1>2, <1>3 DEF CallSites, WaitTarget, Returned
<1>9. Claims'
    BY <1>1, <1>2, <1>3 DEF Claims
<1>10. Unclaimed'
    <2>1. \A x \in FrameCols : topCtx'[x] <= nextRow
        BY <1>2, <1>5 DEF Unclaimed
    <2>2. QED
        BY <1>1, <2>1 DEF Unclaimed
<1>11. Prefixes'
    <2>1. ASSUME NEW q \in Workers, InRow(q), NEW x \in FrameCols
          PROVE  row[q] < topCtx'[x] <=> x < Exported(q)'
        <3>1. row[q] < topCtx[x] <=> x < Exported(q)
            BY <2>1 DEF Prefixes
        <3>2. CASE q = p
            BY <1>2, <1>5, <1>6, <3>1, <3>2
        <3>3. CASE q # p
            <4>1. row[q] # row[p] /\ row[q] \in Nat
                BY <1>1, <1>2, <2>1, <3>3 DEF Claims
            <4>2. row[q] < topCtx'[x] <=> row[q] < topCtx[x]
                BY <1>2, <1>4, <1>5, <4>1
            <4>3. QED
                BY <1>1, <1>6, <3>1, <3>3, <4>2
        <3>4. QED
            BY <3>2, <3>3
    <2>2. QED
        BY <1>1, <1>3, <1>6, <2>1 DEF Prefixes
<1>12. Published'
    <2>1. \A y \in FrameRows, x \in FrameCols : y < topCtx[x] => y < topCtx'[x]
        BY <1>2, <1>4, <1>5
    <2>2. QED
        BY <1>1, <2>1 DEF Published
<1>13. Awaited'
    BY <1>1, <1>2, <1>3 DEF Awaited, WaitTarget, Waiting
<1>14. QED
    BY <1>4, <1>7, <1>8, <1>9, <1>10, <1>11, <1>12, <1>13

\* Entering a macroblock in the non-zero context replaces what the row above
\* left in that column, and nothing else.
LEMMA UpdateKeeps ==
    ASSUME TypeInv, Pipeline, NEW p \in Workers, UpdateNZ(p)
    PROVE  Pipeline'
<1> USE FrameFacts, UpdateNZ(p) DEF UpdateNZ, Pipeline
<1>1. /\ UNCHANGED <<done, dim, nextRow, topCtx, mbInfo, row, col, parallelRS>>
      /\ Caller \in Procs
      /\ FrameRows' = FrameRows /\ FrameCols' = FrameCols
      /\ pc \in [Procs -> PCs] /\ topNz \in [Cols -> Tags] /\ call \in [Procs -> Calls]
      /\ \A q \in Workers : q \in Procs
    BY EncodeParallelAssumption
    DEF frameVars, Workers, FrameRows, FrameCols, TypeInv, TypeOK, LocalTypeOK,
        SharedTypeOK, SyncTypeOK
<1>2. /\ InRow(p) /\ pc[p] = "updateNz" /\ Returned(p)
      /\ p \in Procs /\ p # Caller
      /\ row[p] \in FrameRows /\ row[p] < nextRow
      /\ col[p] \in FrameCols
      /\ col[p] < WaitTarget(col[p])
    <2>1. InRow(p) /\ Returned(p)
        BY DEF InRow, CallSites
    <2>2. QED
        BY <2>1, WorkerFacts
<1>3. /\ pc'[p] = "advance" /\ call'[p] = signal(row[p], col[p] + 1)
      /\ \A q \in Procs : q # p => pc'[q] = pc[q] /\ call'[q] = call[q]
      /\ \A q \in Procs : InRow(q)' <=> InRow(q)
    BY <1>1, <1>2 DEF InRow
<1>4. ~Waiting(p)
    BY <1>2 DEF Waiting, Returned, Out, WaitSteps
<1>5. topNz[col[p]] = row[p]
    <2>1. col[p] >= Flagged(p)
        BY <1>2 DEF Flagged
    <2>2. QED
        BY <1>2, <1>4, <2>1, OwnContext
<1>6. /\ topNz'[col[p]] = row[p] + 1
      /\ \A x \in FrameCols : x # col[p] => topNz'[x] = topNz[x]
    BY <1>1, <1>2
<1>7. /\ Flagged(p) = col[p] /\ Flagged(p)' = col[p] + 1
      /\ \A q \in Procs : q # p => Flagged(q)' = Flagged(q)
      /\ \A q \in Procs : Encoded(q)' = Encoded(q) /\ Exported(q)' = Exported(q)
    BY <1>1, <1>2, <1>3 DEF Encoded, Exported, Flagged
<1>8. Roles'
    BY <1>1, <1>2, <1>3 DEF Roles, InRow
<1>9. CallSites'
    <2>1. /\ call'[p].at \in SignalSteps
          /\ call'[p].row = row[p]
          /\ call'[p].n = col[p] + 1
        BY <1>3 DEF signal, SignalSteps
    <2>2. QED
        BY <1>1, <1>2, <1>3, <2>1 DEF CallSites, WaitTarget, Returned
<1>10. Claims'
    BY <1>1, <1>2, <1>3 DEF Claims
<1>11. Unclaimed'
    <2>1. \A x \in FrameCols : topNz'[x] <= nextRow
        BY <1>2, <1>6 DEF Unclaimed
    <2>2. QED
        BY <1>1, <2>1 DEF Unclaimed
<1>12. Prefixes'
    <2>1. ASSUME NEW q \in Workers, InRow(q), NEW x \in FrameCols
          PROVE  row[q] < topNz'[x] <=> x < Flagged(q)'
        <3>1. row[q] < topNz[x] <=> x < Flagged(q)
            BY <2>1 DEF Prefixes
        <3>2. CASE q = p
            BY <1>2, <1>6, <1>7, <3>1, <3>2
        <3>3. CASE q # p
            <4>1. row[q] # row[p] /\ row[q] \in Nat
                BY <1>1, <1>2, <2>1, <3>3 DEF Claims
            <4>2. row[q] < topNz'[x] <=> row[q] < topNz[x]
                BY <1>2, <1>5, <1>6, <4>1
            <4>3. QED
                BY <1>1, <1>7, <3>1, <3>3, <4>2
        <3>4. QED
            BY <3>2, <3>3
    <2>2. ASSUME NEW q \in Workers, InRow(q)
          PROVE  done[row[q]] <= Flagged(q)'
        <3>1. done[row[q]] <= Flagged(q) /\ done[row[q]] \in Int
            BY <1>1, <2>2 DEF Prefixes
        <3>2. QED
            BY <1>1, <1>2, <1>7, <3>1
    <2>3. QED
        BY <1>1, <1>3, <1>7, <2>1, <2>2 DEF Prefixes
<1>13. Published'
    <2>1. \A y \in FrameRows, x \in FrameCols : y < topNz[x] => y < topNz'[x]
        BY <1>2, <1>5, <1>6
    <2>2. QED
        BY <1>1, <2>1 DEF Published
<1>14. Awaited'
    <2>1. \A q \in Procs : q # p => (Waiting(q)' <=> Waiting(q))
        BY <1>3 DEF Waiting
    <2>2. QED
        BY <1>1, <1>2, <1>3, <1>4, <2>1 DEF Awaited, WaitTarget
<1>15. QED
    BY <1>8, <1>9, <1>10, <1>11, <1>12, <1>13, <1>14

\* Going on to the next macroblock waits for the row above it again; at the
\* end of the row the worker lets go of it.
LEMMA AdvanceKeeps ==
    ASSUME TypeInv, Pipeline, NEW p \in Workers, Advance(p)
    PROVE  Pipeline'
<1> USE FrameFacts, Advance(p) DEF Advance, Pipeline
<1>1. /\ UNCHANGED <<done, dim, nextRow, topCtx, topNz, mbInfo, row, parallelRS>>
      /\ Caller \in Procs
      /\ FrameRows' = FrameRows /\ FrameCols' = FrameCols
      /\ pc \in [Procs -> PCs] /\ call \in [Procs -> Calls] /\ col \in [Procs -> Cols]
      /\ \A q \in Workers : q \in Procs
    BY EncodeParallelAssumption
    DEF frameVars, Workers, FrameRows, FrameCols, TypeInv, TypeOK, LocalTypeOK,
        SyncTypeOK
<1>2. /\ InRow(p) /\ pc[p] = "advance" /\ Returned(p)
      /\ p \in Procs /\ p # Caller
      /\ row[p] \in FrameRows /\ row[p] < nextRow
      /\ col[p] \in FrameCols
    <2>1. InRow(p)
        BY DEF InRow
    <2>2. QED
        BY <2>1, WorkerFacts
<1>3. \A q \in Procs : q # p =>
          /\ pc'[q] = pc[q] /\ call'[q] = call[q] /\ col'[q] = col[q]
          /\ InRow(q)' <=> InRow(q)
    BY <1>1 DEF BeginMB, InRow
<1>4. \/ /\ col[p] + 1 < dim.w
         /\ pc'[p] = "fill" /\ col'[p] = col[p] + 1
         /\ call'[p] = IF row[p] > 0 THEN waitFor(row[p] - 1, WaitTarget(col[p] + 1)) ELSE Out
      \/ pc'[p] = "claim" /\ ~InRow(p)' /\ call'[p] = Out
    BY <1>1, <1>2 DEF BeginMB, InRow, Returned
<1>5. Roles'
    BY <1>1, <1>2, <1>3, <1>4 DEF Roles, InRow
<1>6. CallSites'
    <2>1. \/ Returned(p)'
          \/ /\ pc'[p] = "fill"
             /\ row[p] > 0
             /\ call'[p].at \in WaitSteps
             /\ call'[p].row = row[p] - 1
             /\ call'[p].n = WaitTarget(col'[p])
        BY <1>1, <1>4 DEF Returned, waitFor, WaitSteps
    <2>2. QED
        BY <1>1, <1>2, <1>3, <2>1 DEF CallSites, WaitTarget, Returned
<1>7. Claims'
    <2>1. \A q \in Workers : InRow(q)' => InRow(q) /\ col'[q] < dim.w
        BY <1>1, <1>2, <1>3, <1>4 DEF Claims
    <2>2. QED
        BY <1>1, <1>2, <1>3, <2>1 DEF Claims
<1>8. Unclaimed'
    BY <1>1 DEF Unclaimed
<1>9. Prefixes'
    <2>1. \A q \in Workers : InRow(q)' =>
              /\ InRow(q)
              /\ Encoded(q)' = Encoded(q)
              /\ Exported(q)' = Exported(q)
              /\ Flagged(q)' = Flagged(q)
        BY <1>1, <1>2, <1>3, <1>4 DEF Encoded, Exported, Flagged
    <2>2. QED
        BY <1>1, <2>1 DEF Prefixes
<1>10. Published'
    BY <1>1 DEF Published
<1>11. Awaited'
    <2>1. InRow(p)' /\ row[p] > 0 => Waiting(p)'
        BY <1>4 DEF Waiting, waitFor, WaitSteps
    <2>2. \A q \in Procs : q # p => (Waiting(q)' <=> Waiting(q))
        BY <1>3 DEF Waiting
    <2>3. \A q \in Workers : InRow(q)' /\ row[q] > 0 /\ ~Waiting(q)' =>
              done[row[q] - 1] >= WaitTarget(col'[q])
        BY <1>1, <1>3, <2>1, <2>2 DEF Awaited
    <2>4. QED
        BY <1>1, <1>2, <1>3, <2>2, <2>3 DEF Awaited, WaitTarget
<1>12. QED
    BY <1>5, <1>6, <1>7, <1>8, <1>9, <1>10, <1>11

\* recordAllTokens goes on to a row only when the one before is published.
LEMMA RecordKeeps ==
    ASSUME TypeInv, Pipeline, RecordMB
    PROVE  Pipeline'
<1> USE FrameFacts, RecordMB DEF RecordMB, Pipeline
<1>1. /\ UNCHANGED <<done, dim, nextRow, topCtx, topNz, mbInfo>>
      /\ Caller \in Procs /\ Workers = Procs \ {Caller}
      /\ FrameRows' = FrameRows /\ FrameCols' = FrameCols
      /\ pc \in [Procs -> PCs] /\ call \in [Procs -> Calls] /\ col \in [Procs -> Cols]
      /\ row \in [Procs -> 0 .. MaxRows]
    BY EncodeParallelAssumption
    DEF frameVars, Workers, FrameRows, FrameCols, TypeInv, TypeOK, LocalTypeOK,
        SyncTypeOK
<1>2. /\ pc[Caller] = "record" /\ Returned(Caller) /\ parallelRS
      /\ row[Caller] \in FrameRows /\ col[Caller] \in FrameCols
      /\ done[row[Caller]] >= dim.w
      /\ \A y \in FrameRows : y < row[Caller] => done[y] >= dim.w
    BY <1>1 DEF Roles, Claims, Awaited, Waiting, Returned, Out, WaitSteps, FrameCols
<1>3. \A q \in Workers :
          /\ pc'[q] = pc[q] /\ call'[q] = call[q] /\ col'[q] = col[q] /\ row'[q] = row[q]
          /\ InRow(q)' <=> InRow(q)
          /\ Waiting(q)' <=> Waiting(q)
          /\ Returned(q)' <=> Returned(q)
    BY <1>1 DEF InRow, Waiting, Returned
<1>4. \/ /\ pc'[Caller] = "record" /\ call'[Caller] = Out /\ parallelRS'
         /\ row'[Caller] = row[Caller] /\ col'[Caller] = col[Caller] + 1
         /\ col[Caller] + 1 < dim.w
      \/ /\ pc'[Caller] = "record" /\ parallelRS'
         /\ row[Caller] + 1 < dim.h
         /\ call'[Caller] = waitFor(row[Caller] + 1, dim.w)
         /\ row'[Caller] = row[Caller] + 1 /\ col'[Caller] = 0
      \/ /\ pc'[Caller] = "join" /\ call'[Caller] = Out
         /\ row[Caller] + 1 >= dim.h
    <2>1. CASE col[Caller] + 1 < dim.w
        BY <1>1, <1>2, <2>1 DEF Returned
    <2>2. CASE ~(col[Caller] + 1 < dim.w) /\ row[Caller] + 1 < dim.h
        BY <1>1, <1>2, <2>2 DEF Returned
    <2>3. CASE ~(col[Caller] + 1 < dim.w) /\ ~(row[Caller] + 1 < dim.h)
        BY <1>1, <1>2, <2>3 DEF Returned
    <2>4. QED
        BY <2>1, <2>2, <2>3
<1> HIDE FrameFacts DEF RecordMB
<1>5. Roles'
    BY <1>1, <1>2, <1>3, <1>4 DEF Roles
<1>6. CallSites'
    <2>1. \/ Returned(Caller)'
          \/ /\ pc'[Caller] = "record"
             /\ call'[Caller].at \in WaitSteps
             /\ call'[Caller].row = row'[Caller]
             /\ call'[Caller].n = dim.w
        BY <1>4 DEF Returned, waitFor, WaitSteps
    <2>2. ASSUME NEW q \in Workers
          PROVE  \/ Returned(q)'
                 \/ /\ pc'[q] = "fill"
                    /\ row'[q] > 0
                    /\ call'[q].at \in WaitSteps
                    /\ call'[q].row = row'[q] - 1
                    /\ call'[q].n = WaitTarget(col[q])
                 \/ /\ pc'[q] = "advance"
                    /\ call'[q].at \in SignalSteps
                    /\ call'[q].row = row'[q]
                    /\ call'[q].n = col'[q] + 1
        BY <1>3 DEF CallSites
    <2>3. \A q \in Workers : WaitTarget(col[q])' = WaitTarget(col[q])
        BY <1>1, <1>3 DEF WaitTarget
    <2>4. QED
        BY <1>1, <2>1, <2>2, <2>3 DEF CallSites
<1>7. Claims'
    <2>1. pc'[Caller] = "record" => col'[Caller] < dim.w
        BY <1>4, FrameFacts
    <2>2. QED
        BY <1>1, <1>3, <2>1 DEF Claims
<1>8. Unclaimed'
    BY <1>1 DEF Unclaimed
<1>9. Prefixes'
    <2>1. \A q \in Workers : /\ Encoded(q)' = Encoded(q)
                             /\ Exported(q)' = Exported(q)
                             /\ Flagged(q)' = Flagged(q)
        BY <1>3 DEF Encoded, Exported, Flagged
    <2>2. ASSUME NEW q \in Workers, InRow(q)'
          PROVE  /\ done[row'[q]] <= Flagged(q)'
                 /\ \A x \in FrameCols :
                       /\ mbInfo[row'[q]][x] # NotEncoded <=> x < Encoded(q)'
                       /\ row'[q] < topCtx[x] <=> x < Exported(q)'
                       /\ row'[q] < topNz[x] <=> x < Flagged(q)'
        BY <1>3, <2>1, <2>2 DEF Prefixes
    <2>3. QED
        BY <1>1, <2>2 DEF Prefixes
<1>10. Published'
    BY <1>1 DEF Published
<1>11. Awaited'
    <2>1. \A y \in FrameRows : y < row[Caller] + 1 => done[y] >= dim.w
        BY <1>2, FrameFacts
    <2>2. pc'[Caller] = "record" =>
              /\ ~Waiting(Caller)' => done[row'[Caller]] >= dim.w
              /\ \A y \in FrameRows : y < row'[Caller] => done[y] >= dim.w
        BY <1>2, <1>4, <2>1, FrameFacts DEF Waiting, waitFor, WaitSteps
    <2>3. pc'[Caller] = "join" => \A y \in FrameRows : done[y] >= dim.w
        <3>1. \A y \in FrameRows : y < dim.h
            BY FrameFacts DEF FrameRows
        <3>2. QED
            BY <1>2, <1>4, <2>1, <3>1, FrameFacts
    <2>4. QED
        BY <1>1, <1>3, <2>2, <2>3 DEF Awaited, WaitTarget
<1>12. QED
    BY <1>5, <1>6, <1>7, <1>8, <1>9, <1>10, <1>11

\* The frame ends when every worker has.
LEMMA EndKeeps ==
    ASSUME TypeInv, Pipeline, EndFrame
    PROVE  Pipeline'
<1> USE FrameFacts, EndFrame DEF EndFrame, Pipeline
<1>1. /\ UNCHANGED <<done, call, dim, nextRow, topCtx, topNz, mbInfo, row, col, parallelRS>>
      /\ Caller \in Procs /\ Workers = Procs \ {Caller}
      /\ FrameRows' = FrameRows /\ FrameCols' = FrameCols
      /\ pc \in [Procs -> PCs]
    BY EncodeParallelAssumption
    DEF syncVars, frameVars, Workers, FrameRows, FrameCols, TypeInv, TypeOK, LocalTypeOK
<1>2. /\ pc[Caller] = "join" /\ pc'[Caller] = "idle"
      /\ \A q \in Workers : pc'[q] = pc[q] /\ ~InRow(q) /\ ~InRow(q)' /\ pc[q] = "exited"
    BY <1>1 DEF InRow
<1>3. Roles' /\ CallSites'
    BY <1>1, <1>2 DEF Roles, CallSites, Returned, WaitTarget
<1>4. Claims' /\ Unclaimed' /\ Prefixes' /\ Published' /\ Awaited'
    BY <1>1, <1>2 DEF Claims, Unclaimed, Prefixes, Published, Awaited
<1>5. QED
    BY <1>3, <1>4

LEMMA InitPipeline == Init => Pipeline
<1> SUFFICES ASSUME Init PROVE Pipeline
    OBVIOUS
<1>1. TypeInv
    BY InitTypeInv
<1>2. /\ Caller \in Procs /\ Workers = Procs \ {Caller}
      /\ pc[Caller] = "idle"
      /\ \A p \in Workers : pc[p] = "exited" /\ ~InRow(p) /\ Returned(p)
      /\ Returned(Caller)
    BY EncodeParallelAssumption DEF Init, Workers, InRow, Returned
<1>3. Roles /\ CallSites /\ Claims /\ Prefixes /\ Awaited
    BY <1>2 DEF Roles, CallSites, Claims, Prefixes, Awaited
<1>4. Unclaimed /\ Published
    <2>1. /\ done = [y \in Rows |-> 0] /\ nextRow = 0
          /\ topCtx = [x \in Cols |-> 0] /\ topNz = [x \in Cols |-> 0]
          /\ mbInfo = [y \in Rows |-> [x \in Cols |-> NotEncoded]]
        BY DEF Init
    <2>2. /\ FrameRows \subseteq Rows /\ FrameCols \subseteq Cols
          /\ FrameRows \subseteq Nat /\ FrameCols \subseteq Nat
        BY <1>1, FrameFacts
    <2>3. QED
        BY <2>1, <2>2 DEF Unclaimed, Published
<1>5. QED
    BY <1>3, <1>4 DEF Pipeline

LEMMA NextPipeline == TypeInv /\ Pipeline /\ [Next]_vars => Pipeline'
<1> SUFFICES ASSUME TypeInv, Pipeline, [Next]_vars PROVE Pipeline'
    OBVIOUS
<1>1. ASSUME UNCHANGED vars PROVE Pipeline'
    BY <1>1
    DEF vars, syncVars, frameVars, localVars, Pipeline, Roles, CallSites, Claims, Unclaimed,
        Prefixes, Published, Awaited, InRow, Encoded, Exported, Flagged, Waiting,
        FrameRows, FrameCols, Returned, WaitTarget
<1>2. QED
    BY <1>1, StartKeeps, SyncKeeps, ClaimKeeps, FillKeeps, EncodeKeeps, ExportKeeps,
       UpdateKeeps, AdvanceKeeps, RecordKeeps, EndKeeps
    DEF Next, WorkerStep, Finished

-----------------------------------------------------------------------------
\* What a step does to the frame's data: a new frame clears them, a worker
\* encodes a macroblock, or recordAllTokens records one.
LEMMA DataEffect ==
    ASSUME [Next]_vars
    PROVE  \/ UNCHANGED <<dim, mbInfo, tokens>>
           \/ \E d \in Dims : StartFrame(d)
           \/ UNCHANGED <<dim, tokens>> /\ \E p \in Workers : EncodeMB(p)
           \/ UNCHANGED <<dim, mbInfo>> /\ RecordMB
<1>1. ASSUME NEW p \in Procs, Sync(p) PROVE UNCHANGED <<dim, mbInfo, tokens>>
    BY <1>1 DEF Sync, frameVars
<1>2. ASSUME NEW p \in Workers, WorkerStep(p)
      PROVE  UNCHANGED <<dim, tokens>> /\ (EncodeMB(p) \/ UNCHANGED mbInfo)
    BY <1>2 DEF WorkerStep, ClaimRow, FillContext, EncodeMB, ExportMB, UpdateNZ, Advance, frameVars
<1>3. RecordMB => UNCHANGED <<dim, mbInfo>>
    BY DEF RecordMB, frameVars
<1>4. EndFrame \/ UNCHANGED vars => UNCHANGED <<dim, mbInfo, tokens>>
    BY DEF EndFrame, vars, frameVars
<1>5. QED
    BY <1>1, <1>2, <1>3, <1>4 DEF Next, Finished

LEMMA InitCarried == Init => Carried
BY DEF Init, Carried, InRow, Workers

\* What a worker carries from one macroblock of its row to the next, and what
\* it reads above, comes from the row above.
LEMMA NextCarried == TypeInv /\ Pipeline /\ Carried /\ [Next]_vars => Carried'
<1> SUFFICES ASSUME TypeInv, Pipeline, Carried, [Next]_vars PROVE Carried'
    OBVIOUS
<1>0. /\ pc \in [Procs -> PCs] /\ row \in [Procs -> 0 .. MaxRows] /\ col \in [Procs -> Cols]
      /\ topLeft \in [Procs -> Tags] /\ read \in [Procs -> Contexts]
      /\ Caller \in Procs /\ Workers = Procs \ {Caller}
    BY EncodeParallelAssumption DEF TypeInv, TypeOK, LocalTypeOK, Workers
<1>1. ASSUME NEW d \in Dims, StartFrame(d) PROVE Carried'
    BY <1>0, <1>1 DEF StartFrame, Carried, InRow
<1>2. ASSUME NEW p \in Workers, ClaimRow(p) PROVE Carried'
    <2>1. /\ ~InRow(p)' \/ (pc'[p] = "fill" /\ col'[p] = 0)
          /\ \A q \in Workers : q # p =>
                pc'[q] = pc[q] /\ row'[q] = row[q] /\ col'[q] = col[q]
        BY <1>0, <1>2 DEF ClaimRow, BeginMB, InRow
    <2>2. UNCHANGED <<topLeft, read>>
        BY <1>2 DEF ClaimRow
    <2>3. QED
        BY <2>1, <2>2 DEF Carried, InRow
<1>3. ASSUME NEW p \in Workers, FillContext(p) PROVE Carried'
    <2> USE <1>3 DEF FillContext
    <2>1. InRow(p) /\ pc[p] = "fill" /\ ~Waiting(p)
        BY DEF InRow, Returned, Waiting, Out, WaitSteps
    <2>2. /\ row[p] \in FrameRows /\ col[p] \in FrameCols
          /\ WaitTarget(col[p]) \in Int
          /\ row[p] \in Nat /\ dim.w \in Nat
        BY <2>1, WorkerFacts, FrameFacts
    <2>3. ASSUME NEW x \in FrameCols, x >= col[p], x < WaitTarget(col[p])
          PROVE  topCtx[x] = row[p]
        <3>1. x >= Exported(p)
            BY <2>1, <2>3 DEF Exported
        <3>2. QED
            BY <2>1, <2>3, <3>1, OwnContext
    <2>4. topCtx[col[p]] = row[p]
        BY <2>1, <2>2, <2>3, WorkerFacts DEF FrameCols
    <2>5. topCtx[IF col[p] < dim.w - 1 THEN col[p] + 1 ELSE col[p]] = row[p]
        <3>1. CASE col[p] < dim.w - 1
            <4>1. col[p] + 1 \in FrameCols /\ col[p] + 1 < WaitTarget(col[p])
                BY <2>2, <3>1 DEF FrameCols, WaitTarget, Min2
            <4>2. col[p] + 1 >= col[p]
                BY <2>2 DEF FrameCols
            <4>3. QED
                BY <2>3, <3>1, <4>1, <4>2
        <3>2. QED
            BY <2>4, <3>1
    <2>6. col[p] > 0 => topLeft[p] = row[p]
        BY <2>1 DEF Carried
    <2>7. read'[p] = [top |-> row[p], right |-> row[p],
                      left |-> IF col[p] > 0 THEN row[p] ELSE 0]
        <3>1. CASE row[p] > 0
            BY <1>0, <2>4, <2>5, <2>6, <3>1
        <3>2. CASE row[p] = 0
            BY <1>0, <3>2
        <3>3. row[p] > 0 \/ row[p] = 0
            BY <2>2
        <3>4. QED
            BY <3>1, <3>2, <3>3
    <2>8. /\ pc'[p] = "pick"
          /\ \A q \in Workers : q # p => pc'[q] = pc[q] /\ read'[q] = read[q]
          /\ UNCHANGED <<row, col, topLeft>>
        BY <1>0
    <2>9. QED
        BY <2>1, <2>6, <2>7, <2>8 DEF Carried, InRow
<1>4. ASSUME NEW p \in Workers, EncodeMB(p) PROVE Carried'
    <2>1. /\ pc[p] = "pick" /\ pc'[p] = "export"
          /\ \A q \in Workers : q # p => pc'[q] = pc[q]
          /\ UNCHANGED <<row, col, topLeft, read>>
        BY <1>0, <1>4 DEF EncodeMB
    <2>2. QED
        BY <2>1 DEF Carried, InRow
<1>5. ASSUME NEW p \in Workers, ExportMB(p) PROVE Carried'
    <2>1. /\ pc'[p] = "updateNz" /\ topLeft'[p] = row[p]
          /\ \A q \in Workers : q # p => pc'[q] = pc[q] /\ topLeft'[q] = topLeft[q]
          /\ UNCHANGED <<row, col, read>>
        BY <1>0, <1>5, ExportKeeps DEF ExportMB
    <2>2. QED
        BY <2>1 DEF Carried, InRow
<1>6. ASSUME NEW p \in Workers, UpdateNZ(p) PROVE Carried'
    <2>1. /\ pc[p] = "updateNz" /\ pc'[p] = "advance"
          /\ \A q \in Workers : q # p => pc'[q] = pc[q]
          /\ UNCHANGED <<row, col, topLeft, read>>
        BY <1>0, <1>6 DEF UpdateNZ
    <2>2. QED
        BY <2>1 DEF Carried, InRow
<1>7. ASSUME NEW p \in Workers, Advance(p) PROVE Carried'
    <2>1. /\ pc[p] = "advance" /\ (pc'[p] = "fill" \/ ~InRow(p)')
          /\ \A q \in Workers : q # p => pc'[q] = pc[q] /\ col'[q] = col[q]
          /\ UNCHANGED <<row, topLeft, read>>
        BY <1>0, <1>7 DEF Advance, BeginMB, InRow
    <2>2. QED
        BY <2>1 DEF Carried, InRow
<1>8. ASSUME RecordMB \/ EndFrame PROVE Carried'
    <2>1. /\ \A q \in Workers : pc'[q] = pc[q] /\ row'[q] = row[q] /\ col'[q] = col[q]
          /\ UNCHANGED <<topLeft, read>>
        BY <1>0, <1>8 DEF RecordMB, EndFrame
    <2>2. QED
        BY <2>1 DEF Carried, InRow
<1>9. ASSUME UNCHANGED localVars PROVE Carried'
    BY <1>9 DEF localVars, Carried, InRow
<1>10. QED
    BY <1>1, <1>2, <1>3, <1>4, <1>5, <1>6, <1>7, <1>8, <1>9
    DEF Next, WorkerStep, Finished, Sync, vars

\* A macroblock is encoded once, inside the frame, from the serial context.
LEMMA EncodesSerially ==
    ASSUME TypeInv, Pipeline, Carried, NEW p \in Workers, EncodeMB(p)
    PROVE  /\ InRow(p) /\ ~Waiting(p) /\ Encoded(p) = col[p]
           /\ row[p] \in FrameRows /\ col[p] \in FrameCols
           /\ mbInfo[row[p]][col[p]] = NotEncoded
           /\ mbInfo'[row[p]][col[p]] = SerialContext(row[p], col[p])
           /\ mbInfo'[row[p]][col[p]] # NotEncoded
           /\ \A y \in Rows, x \in Cols :
                 y # row[p] \/ x # col[p] => mbInfo'[y][x] = mbInfo[y][x]
<1> USE EncodeMB(p) DEF EncodeMB
<1>1. InRow(p) /\ pc[p] = "pick" /\ ~Waiting(p)
    BY DEF InRow, Pipeline, CallSites, Returned, Waiting, Out, WaitSteps
<1>2. /\ row[p] \in FrameRows /\ col[p] \in FrameCols /\ p \in Procs
      /\ col[p] < WaitTarget(col[p])
      /\ FrameRows \subseteq Rows /\ FrameCols \subseteq Cols /\ FrameCols \subseteq Nat
    BY <1>1, WorkerFacts, FrameFacts
<1>3. Encoded(p) = col[p] /\ Exported(p) = col[p] /\ Flagged(p) = col[p]
    BY <1>1 DEF Encoded, Exported, Flagged
<1>4. mbInfo[row[p]][col[p]] = NotEncoded
    BY <1>1, <1>2, <1>3 DEF Pipeline, Prefixes
<1>5. topCtx[col[p]] = row[p] /\ topNz[col[p]] = row[p]
    BY <1>1, <1>2, <1>3, OwnContext
<1>6. /\ mbInfo \in [Rows -> [Cols -> MBInfos \cup {NotEncoded}]]
      /\ [top |-> read[p].top, right |-> read[p].right, left |-> read[p].left,
          modes |-> topCtx[col[p]], nz |-> topNz[col[p]]] \in MBInfos
    BY <1>2 DEF TypeInv, TypeOK, SharedTypeOK, LocalTypeOK, Contexts, MBInfos
<1>7. read[p] = [top |-> row[p], right |-> row[p],
                 left |-> IF col[p] > 0 THEN row[p] ELSE 0]
    BY <1>1 DEF Carried
<1>8. mbInfo'[row[p]][col[p]] = SerialContext(row[p], col[p])
    <2>1. row[p] \in Rows /\ col[p] \in Cols
        BY <1>2
    <2>2. mbInfo'[row[p]][col[p]] =
              [top |-> read[p].top, right |-> read[p].right, left |-> read[p].left,
               modes |-> topCtx[col[p]], nz |-> topNz[col[p]]]
        BY <1>6, <2>1
    <2>3. QED
        BY <1>5, <1>7, <2>2 DEF SerialContext
<1>9. mbInfo'[row[p]][col[p]] # NotEncoded
    <2>1. row[p] \in Tags /\ 0 \in Tags
        BY <1>2, RowSyncAssumption DEF TypeInv, TypeOK, LocalTypeOK, Tags
    <2>2. SerialContext(row[p], col[p]) \in MBInfos
        BY <2>1 DEF SerialContext, MBInfos
    <2>3. QED
        BY <1>8, <2>2, NotEncodedAssumption
<1>10. \A y \in Rows, x \in Cols :
           y # row[p] \/ x # col[p] => mbInfo'[y][x] = mbInfo[y][x]
    BY <1>2, <1>6
<1>11. QED
    BY <1>1, <1>2, <1>3, <1>4, <1>8, <1>9, <1>10

LEMMA InitContext == Init => Margins /\ ContextExact
BY DEF Init, Margins, ContextExact

LEMMA NextContext ==
    TypeInv /\ Pipeline /\ Carried /\ Margins /\ ContextExact /\ [Next]_vars
        => Margins' /\ ContextExact'
<1> SUFFICES ASSUME TypeInv, Pipeline, Carried, Margins, ContextExact, [Next]_vars
             PROVE  Margins' /\ ContextExact'
    OBVIOUS
<1>1. CASE UNCHANGED <<dim, mbInfo, tokens>> \/ (UNCHANGED <<dim, mbInfo>> /\ RecordMB)
    BY <1>1 DEF Margins, ContextExact, FrameRows, FrameCols
<1>2. ASSUME NEW d \in Dims, StartFrame(d) PROVE Margins' /\ ContextExact'
    BY <1>2 DEF StartFrame, Margins, ContextExact
<1>3. ASSUME UNCHANGED dim, NEW p \in Workers, EncodeMB(p) PROVE Margins' /\ ContextExact'
    <2>1. FrameRows' = FrameRows /\ FrameCols' = FrameCols
        BY <1>3 DEF FrameRows, FrameCols
    <2>2. Margins'
        BY <1>3, <2>1, EncodesSerially DEF Margins
    <2>3. ContextExact'
        BY <1>3, EncodesSerially DEF ContextExact
    <2>4. QED
        BY <2>2, <2>3
<1>4. QED
    BY <1>1, <1>2, <1>3, DataEffect

-----------------------------------------------------------------------------
\* The raster index of a row's first macroblock, and of the next row's.
LEMMA RowStart ==
    ASSUME NEW w \in Nat, NEW y \in Nat
    PROVE  y * w \in Nat /\ (y + 1) * w = y * w + w
OBVIOUS

\* A row of w macroblocks lies entirely before the rows after it.
LEMMA RowsApart ==
    ASSUME NEW w \in Nat, NEW y \in Nat, NEW r \in Nat, y < r
    PROVE  y * w + w <= r * w
<1>1. r = y + 1 + (r - y - 1) /\ r - y - 1 \in Nat
    OBVIOUS
<1> DEFINE k == r - y - 1
<1>2. r * w = y * w + w + k * w
    <2>1. (y + 1 + k) * w = y * w + w + k * w
        BY <1>1
    <2>2. QED
        BY <1>1, <2>1
<1>3. k * w \in Nat /\ y * w \in Nat
    BY <1>1
<1>4. QED
    BY <1>2, <1>3

\* Distinct macroblocks have distinct raster indices.
LEMMA RasterInjective ==
    ASSUME NEW w \in Nat, NEW y \in Nat, NEW r \in Nat,
           NEW x \in 0 .. w - 1, NEW c \in 0 .. w - 1,
           y * w + x = r * w + c
    PROVE  y = r /\ x = c
<1>1. y * w \in Nat /\ r * w \in Nat
    OBVIOUS
<1>2. ~(y < r) /\ ~(r < y)
    BY <1>1, RowsApart
<1>3. QED
    BY <1>1, <1>2

LEMMA InitTokens == Init => TokenCount /\ TokensAreFinal
<1> SUFFICES ASSUME Init PROVE TokenCount /\ TokensAreFinal
    OBVIOUS
<1>1. tokens = <<>> /\ Len(tokens) = 0 /\ pc[Caller] = "idle"
    BY EncodeParallelAssumption DEF Init
<1>2. dim.w \in Nat /\ TypeInv
    BY InitTypeInv, FrameFacts
<1>3. ASSUME NEW y \in 0 .. dim.h - 1, NEW x \in 0 .. dim.w - 1
      PROVE  ~(y * dim.w + x + 1 <= Len(tokens))
    <2>1. y * dim.w \in Nat
        BY <1>2
    <2>2. QED
        BY <1>1, <2>1
<1>4. QED
    BY <1>1, <1>3 DEF TokenCount, TokensAreFinal

\* Recording one macroblock appends the one whose raster index is the number
\* of tokens, and its row is published.
LEMMA RecordsNext ==
    ASSUME TypeInv, Pipeline, TokenCount, RecordMB
    PROVE  /\ row[Caller] \in FrameRows /\ col[Caller] \in FrameCols
           /\ Len(tokens) = row[Caller] * dim.w + col[Caller]
           /\ Len(tokens') = Len(tokens) + 1
           /\ \A i \in 1 .. Len(tokens) : tokens'[i] = tokens[i]
           /\ tokens'[Len(tokens) + 1] = mbInfo[row[Caller]][col[Caller]]
           /\ mbInfo[row[Caller]][col[Caller]] # NotEncoded
<1> USE FrameFacts, RecordMB DEF RecordMB, Pipeline
<1>1. /\ pc[Caller] = "record" /\ Returned(Caller) /\ Caller \in Procs
      /\ tokens \in Seq(MBInfos \cup {NotEncoded})
      /\ tokens' = Append(tokens, mbInfo[row[Caller]][col[Caller]])
    BY EncodeParallelAssumption DEF TypeInv, TypeOK, SharedTypeOK
<1>2. row[Caller] \in FrameRows /\ col[Caller] \in FrameCols
    BY <1>1 DEF Claims, FrameCols
<1>3. col[Caller] < done[row[Caller]]
    <2>1. ~Waiting(Caller)
        BY <1>1 DEF Waiting, Returned, Out, WaitSteps
    <2>2. done[row[Caller]] >= dim.w
        BY <1>1, <2>1 DEF Awaited
    <2>3. QED
        BY <1>2, <2>2 DEF FrameCols
<1>4. mbInfo[row[Caller]][col[Caller]] # NotEncoded
    BY <1>2, <1>3 DEF Published
<1>5. Len(tokens) = row[Caller] * dim.w + col[Caller]
    BY <1>1 DEF TokenCount
<1>6. /\ Len(tokens') = Len(tokens) + 1
      /\ \A i \in 1 .. Len(tokens) : tokens'[i] = tokens[i]
      /\ tokens'[Len(tokens) + 1] = mbInfo[row[Caller]][col[Caller]]
    BY <1>1
<1>7. QED
    BY <1>2, <1>4, <1>5, <1>6

LEMMA NextTokenCount == TypeInv /\ Pipeline /\ TokenCount /\ [Next]_vars => TokenCount'
<1> SUFFICES ASSUME TypeInv, Pipeline, TokenCount, [Next]_vars PROVE TokenCount'
    OBVIOUS
<1>0. /\ pc \in [Procs -> PCs] /\ row \in [Procs -> 0 .. MaxRows] /\ col \in [Procs -> Cols]
      /\ Caller \in Procs /\ Workers = Procs \ {Caller}
    BY EncodeParallelAssumption DEF TypeInv, TypeOK, LocalTypeOK, Workers
<1>1. ASSUME UNCHANGED <<pc, row, col, dim, tokens>> PROVE TokenCount'
    BY <1>1 DEF TokenCount
<1>2. ASSUME NEW d \in Dims, StartFrame(d) PROVE TokenCount'
    <2>1. /\ pc'[Caller] = "record" /\ row'[Caller] = 0 /\ col'[Caller] = 0 /\ Len(tokens') = 0
          /\ dim' = d
        BY <1>0, <1>2 DEF StartFrame
    <2>2. 0 = 0 * d.w + 0
        BY DimsBounded
    <2>3. QED
        BY <2>1, <2>2 DEF TokenCount
<1>3. ASSUME NEW p \in Workers, WorkerStep(p) PROVE TokenCount'
    <2>1. /\ pc'[Caller] = pc[Caller] /\ row'[Caller] = row[Caller] /\ col'[Caller] = col[Caller]
          /\ UNCHANGED <<dim, tokens>>
        BY <1>0, <1>3
        DEF WorkerStep, ClaimRow, FillContext, EncodeMB, ExportMB, UpdateNZ, Advance, BeginMB,
            frameVars
    <2>2. QED
        BY <2>1 DEF TokenCount
<1>4. ASSUME RecordMB PROVE TokenCount'
    <2> USE <1>4
    <2>0. row[Caller] \in FrameRows /\ col[Caller] \in FrameCols
        BY RecordsNext
    <2>1. /\ Len(tokens') = row[Caller] * dim.w + col[Caller] + 1
          /\ dim' = dim
        BY RecordsNext DEF RecordMB, frameVars
    <2>2. /\ dim.w \in Nat /\ dim.h \in Nat /\ row[Caller] \in Nat /\ col[Caller] \in Nat
          /\ row[Caller] < dim.h /\ col[Caller] < dim.w
        BY <2>0, FrameFacts DEF FrameRows, FrameCols
    <2>3. /\ row[Caller] * dim.w \in Nat
          /\ (row[Caller] + 1) * dim.w = row[Caller] * dim.w + dim.w
        BY <2>2, RowStart
    <2>4. CASE col[Caller] + 1 < dim.w
        <3>1. pc'[Caller] = "record" /\ row'[Caller] = row[Caller] /\ col'[Caller] = col[Caller] + 1
            BY <1>0, <2>4 DEF RecordMB
        <3>2. QED
            <4>1. Len(tokens') = row[Caller] * dim.w + (col[Caller] + 1)
                BY <2>1, <2>2, <2>3
            <4>2. QED
                BY <2>1, <3>1, <4>1 DEF TokenCount
    <2>5. CASE ~(col[Caller] + 1 < dim.w)
        <3>1. Len(tokens') = (row[Caller] + 1) * dim.w
            <4>1. col[Caller] + 1 = dim.w
                BY <2>2, <2>5
            <4> DEFINE s == row[Caller] * dim.w
            <4>2. s \in Nat /\ Len(tokens') = s + (col[Caller] + 1)
                BY <2>1, <2>2, <2>3
            <4> HIDE DEF s
            <4>3. Len(tokens') = s + dim.w
                BY <4>1, <4>2
            <4>4. QED
                BY <2>3, <4>3 DEF s
        <3>2. /\ row'[Caller] = row[Caller] + 1 /\ col'[Caller] = 0
              /\ pc'[Caller] = "record" \/ (pc'[Caller] = "join" /\ ~(row[Caller] + 1 < dim.h))
            BY <1>0, <2>5 DEF RecordMB
        <3>3. pc'[Caller] = "join" => row[Caller] + 1 = dim.h \/ pc'[Caller] = "record"
            BY <2>2, <3>2
        <3>4. row'[Caller] * dim.w + col'[Caller] = (row[Caller] + 1) * dim.w
            BY <2>2, <2>3, <3>2
        <3>5. QED
            BY <2>1, <3>1, <3>2, <3>3, <3>4 DEF TokenCount
    <2>6. QED
        BY <2>4, <2>5
<1>5. ASSUME EndFrame PROVE TokenCount'
    <2>1. pc'[Caller] = "idle"
        BY <1>0, <1>5 DEF EndFrame
    <2>2. QED
        BY <2>1 DEF TokenCount
<1>6. QED
    BY <1>1, <1>2, <1>3, <1>4, <1>5 DEF Next, Sync, Finished, vars, frameVars, localVars

\* What is recorded stays: only macroblocks that are not recorded yet change.
LEMMA NextTokensAreFinal ==
    TypeInv /\ Pipeline /\ Carried /\ TokenCount /\ TokensAreFinal /\ [Next]_vars
        => TokensAreFinal'
<1> SUFFICES ASSUME TypeInv, Pipeline, Carried, TokenCount, TokensAreFinal, [Next]_vars
             PROVE  TokensAreFinal'
    OBVIOUS
<1>0. /\ dim.w \in Nat /\ dim.h \in Nat
      /\ FrameRows \subseteq Rows /\ FrameCols \subseteq Cols
      /\ FrameRows \subseteq Nat /\ FrameCols \subseteq Nat
      /\ Len(tokens) \in Nat
    BY FrameFacts DEF TypeInv, TypeOK, SharedTypeOK
<1>1. \A y \in FrameRows, x \in FrameCols : y * dim.w \in Nat
    BY <1>0
<1>2. ASSUME UNCHANGED <<dim, mbInfo, tokens>> PROVE TokensAreFinal'
    BY <1>2 DEF TokensAreFinal
<1>3. ASSUME NEW d \in Dims, StartFrame(d) PROVE TokensAreFinal'
    <2>1. Len(tokens') = 0 /\ dim' = d /\ d.w \in Nat
        BY <1>3, DimsBounded DEF StartFrame
    <2>2. ASSUME NEW y \in 0 .. d.h - 1, NEW x \in 0 .. d.w - 1
          PROVE  ~(y * d.w + x + 1 <= Len(tokens'))
        <3>1. y * d.w \in Nat /\ x \in Nat
            BY <2>1, RowStart
        <3>2. QED
            BY <2>1, <3>1
    <2>3. QED
        BY <2>1, <2>2 DEF TokensAreFinal
<1>4. ASSUME UNCHANGED <<dim, tokens>>, NEW p \in Workers, EncodeMB(p) PROVE TokensAreFinal'
    <2>1. ASSUME NEW y \in FrameRows, NEW x \in FrameCols, y * dim.w + x + 1 <= Len(tokens)
          PROVE  /\ tokens[y * dim.w + x + 1] # NotEncoded
                 /\ tokens[y * dim.w + x + 1] = mbInfo'[y][x]
        <3>1. /\ tokens[y * dim.w + x + 1] # NotEncoded
              /\ tokens[y * dim.w + x + 1] = mbInfo[y][x]
            BY <2>1 DEF TokensAreFinal, FrameRows, FrameCols
        <3>2. y # row[p] \/ x # col[p]
            BY <1>4, <3>1, EncodesSerially
        <3>3. mbInfo'[y][x] = mbInfo[y][x]
            BY <1>0, <1>4, <3>2, EncodesSerially
        <3>4. QED
            BY <3>1, <3>3
    <2>2. QED
        BY <1>4, <2>1 DEF TokensAreFinal, FrameRows, FrameCols
<1>5. ASSUME UNCHANGED <<dim, mbInfo>>, RecordMB PROVE TokensAreFinal'
    <2> DEFINE r == row[Caller]
               c == col[Caller]
    <2>0. Len(tokens) = r * dim.w + c
        BY <1>5, RecordsNext
    <2>1. /\ r \in FrameRows /\ c \in FrameCols
          /\ Len(tokens') = Len(tokens) + 1
          /\ \A i \in 1 .. Len(tokens) : tokens'[i] = tokens[i]
          /\ tokens'[Len(tokens) + 1] = mbInfo[r][c]
          /\ mbInfo[r][c] # NotEncoded
        BY <1>5, RecordsNext
    <2>2. ASSUME NEW y \in FrameRows, NEW x \in FrameCols, y * dim.w + x + 1 <= Len(tokens')
          PROVE  /\ tokens'[y * dim.w + x + 1] # NotEncoded
                 /\ tokens'[y * dim.w + x + 1] = mbInfo[y][x]
        <3> HIDE DEF r, c
        <3>1. y * dim.w \in Nat /\ x \in Nat /\ y \in Nat /\ r \in Nat /\ c \in Nat
            BY <1>0, <1>1, <2>1
        <3>2. CASE y * dim.w + x + 1 <= Len(tokens)
            <4>1. /\ tokens[y * dim.w + x + 1] # NotEncoded
                  /\ tokens[y * dim.w + x + 1] = mbInfo[y][x]
                BY <3>2 DEF TokensAreFinal, FrameRows, FrameCols
            <4>2. y * dim.w + x + 1 \in 1 .. Len(tokens)
                <5> DEFINE k == y * dim.w
                <5>1. k \in Nat /\ k + x + 1 <= Len(tokens)
                    BY <3>1, <3>2
                <5> HIDE DEF k
                <5>2. k + x + 1 \in 1 .. Len(tokens)
                    BY <1>0, <3>1, <5>1
                <5>3. QED
                    BY <5>2 DEF k
            <4>3. QED
                BY <2>1, <4>1, <4>2
        <3>3. CASE ~(y * dim.w + x + 1 <= Len(tokens))
            <4>1. y * dim.w + x = Len(tokens)
                <5> DEFINE k == y * dim.w
                <5>1. k \in Nat /\ x \in Nat
                    BY <3>1
                <5>2. k + x + 1 <= Len(tokens') /\ ~(k + x + 1 <= Len(tokens))
                    BY <2>2, <3>3
                <5> HIDE DEF k
                <5>3. k + x = Len(tokens)
                    BY <1>0, <2>1, <5>1, <5>2
                <5>4. QED
                    BY <5>3 DEF k
            <4>2. y * dim.w + x = r * dim.w + c
                BY <2>0, <4>1
            <4>3. x \in 0 .. dim.w - 1 /\ c \in 0 .. dim.w - 1
                BY <2>1 DEF FrameCols
            <4>4. y = r /\ x = c
                BY <1>0, <3>1, <4>2, <4>3, RasterInjective
            <4>5. QED
                BY <2>1, <4>1, <4>4
        <3>4. QED
            BY <3>2, <3>3
    <2>3. QED
        BY <1>5, <2>2 DEF TokensAreFinal, FrameRows, FrameCols
<1>6. QED
    BY <1>2, <1>3, <1>4, <1>5, DataEffect

-----------------------------------------------------------------------------
LEMMA Invariance == Spec => []IInv
<1>1. Init => IInv
    BY InitTypeInv, InitPipeline, InitCarried, InitContext, InitTokens DEF IInv
<1>2. IInv /\ [Next]_vars => IInv'
    BY NextTypeInv, NextPipeline, NextCarried, NextContext, NextTokenCount, NextTokensAreFinal
    DEF IInv
<1>3. QED
    BY <1>1, <1>2, PTL DEF Spec

\* Whatever the goroutines do and whatever the frame sizes, every macroblock
\* is predicted from the context the serial encoder would have read.
THEOREM ContextIsSerial == Spec => []ContextExact
<1>1. IInv => ContextExact
    BY DEF IInv
<1>2. QED
    BY <1>1, Invariance, PTL

\* Whatever the goroutines do and whatever the frame sizes, recordAllTokens
\* records the final macroblocks, in raster order.
THEOREM RecordsFinalTokens == Spec => []TokensAreFinal
<1>1. IInv => TokensAreFinal
    BY DEF IInv
<1>2. QED
    BY <1>1, Invariance, PTL

-----------------------------------------------------------------------------
\* Two workers past their waits never have a slot of the shared contexts
\* ahead of both: its tag would name both their rows.
LEMMA SlotsApart ==
    ASSUME TypeInv, Pipeline, NEW p \in Workers, NEW q \in Workers, p # q,
           InRow(p), InRow(q), ~Waiting(p), ~Waiting(q),
           NEW x \in FrameCols, x < WaitTarget(col[p]), x < WaitTarget(col[q])
    PROVE  /\ ~(x >= Exported(p) /\ x >= Exported(q))
           /\ ~(x >= Flagged(p) /\ x >= Flagged(q))
<1>1. row[p] # row[q]
    BY DEF Pipeline, Claims
<1>2. QED
    BY <1>1, OwnContext

LEMMA WritesAt ==
    ASSUME TypeInv, Pipeline, NEW p \in Procs, NEW l \in Writes(p)
    PROVE  /\ p \in Workers
           /\ \/ pc[p] = "pick" /\ l = MB(row[p], col[p])
              \/ pc[p] = "export" /\ l \in {Pix(col[p]), Modes(col[p])}
              \/ pc[p] = "updateNz" /\ l = Nz(col[p])
<1>1. ~(pc[p] = "record" /\ ~parallelRS)
    BY DEF Pipeline, Roles, Workers, InRow
<1>2. \/ pc[p] = "pick" /\ l = MB(row[p], col[p])
      \/ pc[p] = "export" /\ l \in {Pix(col[p]), Modes(col[p])}
      \/ pc[p] = "updateNz" /\ l = Nz(col[p])
    BY <1>1 DEF Writes
<1>3. QED
    BY <1>2 DEF Pipeline, Roles, Workers

LEMMA AccessesAt ==
    ASSUME TypeInv, Pipeline, NEW q \in Procs, NEW l \in Reads(q) \cup Writes(q)
    PROVE  \/ /\ q \in Workers
              /\ \/ /\ pc[q] = "fill" /\ Returned(q)
                    /\ l \in {Pix(col[q]), Pix(Min2(col[q] + 1, dim.w - 1))}
                 \/ pc[q] = "pick" /\ l \in {Modes(col[q]), Nz(col[q]), Proba, MB(row[q], col[q])}
                 \/ pc[q] = "export" /\ l \in {Pix(col[q]), Modes(col[q]), MB(row[q], col[q])}
                 \/ pc[q] = "updateNz" /\ l \in {Nz(col[q]), MB(row[q], col[q])}
           \/ /\ q = Caller
              /\ pc[q] = "record" /\ Returned(q)
              /\ l = MB(row[q], col[q])
<1>1. CASE l \in Writes(q)
    BY <1>1, WritesAt
<1>2. CASE l \in Reads(q)
    <2>1. \/ /\ pc[q] = "fill" /\ Returned(q)
             /\ l \in {Pix(col[q]), Pix(Min2(col[q] + 1, dim.w - 1))}
          \/ pc[q] = "pick" /\ l \in {Modes(col[q]), Nz(col[q]), Proba}
          \/ pc[q] = "export" /\ l \in {Pix(col[q]), MB(row[q], col[q])}
          \/ pc[q] = "updateNz" /\ l \in {Nz(col[q]), MB(row[q], col[q])}
          \/ pc[q] = "record" /\ Returned(q) /\ l = MB(row[q], col[q])
        BY <1>2 DEF Reads
    <2>2. q = Caller => pc[q] \in {"idle", "record", "join"}
        BY DEF Pipeline, Roles
    <2>3. q # Caller => q \in Workers /\ pc[q] # "record"
        BY DEF Pipeline, Roles, Workers, InRow
    <2>4. QED
        BY <2>1, <2>2, <2>3
<1>3. QED
    BY <1>1, <1>2

\* The shared locations are distinct.
LEMMA LocationsDiffer ==
    ASSUME NEW x, NEW y, NEW u, NEW v
    PROVE  /\ Pix(x) = Pix(u) => x = u
           /\ Modes(x) = Modes(u) => x = u
           /\ Nz(x) = Nz(u) => x = u
           /\ MB(y, x) = MB(v, u) => y = v /\ x = u
           /\ Pix(x) # Modes(u) /\ Pix(x) # Nz(u) /\ Pix(x) # MB(v, u) /\ Pix(x) # Proba
           /\ Modes(x) # Nz(u) /\ Modes(x) # MB(v, u) /\ Modes(x) # Proba
           /\ Nz(x) # MB(v, u) /\ Nz(x) # Proba
           /\ MB(y, x) # Proba
<1>1. Pix(x)[1] = "topY" /\ Modes(x)[1] = "topModes" /\ Nz(x)[1] = "topNz"
    BY DEF Pix, Modes, Nz
<1>2. /\ MB(y, x)[1] = "mbInfo" /\ MB(v, u)[1] = "mbInfo" /\ Proba[1] = "proba"
      /\ Modes(u)[1] = "topModes" /\ Nz(u)[1] = "topNz"
    BY DEF MB, Proba, Modes, Nz
<1>3. /\ Pix(x) = Pix(u) => x = u
      /\ Modes(x) = Modes(u) => x = u
      /\ Nz(x) = Nz(u) => x = u
      /\ MB(y, x) = MB(v, u) => y = v /\ x = u
    BY DEF Pix, Modes, Nz, MB
<1>4. QED
    BY <1>1, <1>2, <1>3

LEMMA PipelineRaceFree == TypeInv /\ Pipeline => RaceFree
<1> SUFFICES ASSUME TypeInv, Pipeline,
                    NEW p \in Procs, NEW q \in Procs, p # q,
                    NEW l \in Writes(p), l \in Reads(q) \cup Writes(q)
             PROVE  FALSE
    BY DEF RaceFree
<1>1. /\ p \in Workers
      /\ \/ pc[p] = "pick" /\ l = MB(row[p], col[p])
         \/ pc[p] = "export" /\ l \in {Pix(col[p]), Modes(col[p])}
         \/ pc[p] = "updateNz" /\ l = Nz(col[p])
    BY WritesAt
<1>2. InRow(p) /\ ~Waiting(p)
    BY <1>1 DEF InRow, Pipeline, CallSites, Returned, Waiting, Out, WaitSteps
<1>3. /\ row[p] \in FrameRows /\ col[p] \in FrameCols /\ col[p] < WaitTarget(col[p])
      /\ FrameCols \subseteq Nat /\ dim.w \in Nat
    BY <1>1, <1>2, WorkerFacts, FrameFacts
<1>4. CASE q = Caller
    <2>1. pc[q] = "record" /\ Returned(q) /\ l = MB(row[q], col[q])
        BY <1>4, AccessesAt DEF Workers
    <2>2. pc[p] = "pick" /\ row[p] = row[q]
        BY <1>1, <2>1, LocationsDiffer
    <2>3. done[row[p]] >= dim.w
        BY <1>4, <2>1, <2>2 DEF Pipeline, Awaited, Returned, Waiting, Out, WaitSteps
    <2>4. done[row[p]] <= col[p]
        BY <1>1, <1>2, <2>2 DEF Pipeline, Prefixes, Flagged
    <2>5. done[row[p]] \in Nat /\ col[p] \in Nat /\ col[p] < dim.w
        BY <1>3, FrameFacts DEF FrameCols
    <2>6. QED
        BY <1>3, <2>3, <2>4, <2>5
<1>5. CASE q # Caller
    <2>1. /\ q \in Workers
          /\ \/ /\ pc[q] = "fill" /\ Returned(q)
                /\ l \in {Pix(col[q]), Pix(Min2(col[q] + 1, dim.w - 1))}
             \/ pc[q] = "pick" /\ l \in {Modes(col[q]), Nz(col[q]), Proba, MB(row[q], col[q])}
             \/ pc[q] = "export" /\ l \in {Pix(col[q]), Modes(col[q]), MB(row[q], col[q])}
             \/ pc[q] = "updateNz" /\ l \in {Nz(col[q]), MB(row[q], col[q])}
        BY <1>5, AccessesAt
    <2>2. InRow(q) /\ ~Waiting(q)
        BY <2>1 DEF InRow, Pipeline, CallSites, Returned, Waiting, Out, WaitSteps
    <2>3. /\ row[q] # row[p]
          /\ col[q] \in FrameCols /\ col[q] < WaitTarget(col[q])
        BY <1>1, <1>2, <2>1, <2>2, WorkerFacts DEF Pipeline, Claims
    <2>4. CASE pc[p] = "pick"
        BY <1>1, <2>1, <2>3, <2>4, LocationsDiffer
    <2>5. CASE pc[p] = "export"
        <3>1. /\ pc[q] \in {"fill", "pick", "export"}
              /\ col[p] = col[q] \/ col[p] = Min2(col[q] + 1, dim.w - 1)
            BY <1>1, <2>1, <2>5, LocationsDiffer
        <3>2. col[p] < WaitTarget(col[q]) /\ col[p] >= col[q]
            BY <1>3, <2>3, <3>1 DEF WaitTarget, Min2, FrameCols
        <3>3. Exported(p) = col[p] /\ Exported(q) = col[q]
            BY <2>5, <3>1 DEF Exported
        <3>4. QED
            BY <1>1, <1>2, <1>3, <2>1, <2>2, <3>2, <3>3, SlotsApart DEF FrameCols
    <2>6. CASE pc[p] = "updateNz"
        <3>1. pc[q] \in {"pick", "updateNz"} /\ col[p] = col[q]
            BY <1>1, <2>1, <2>6, LocationsDiffer
        <3>2. Flagged(p) = col[p] /\ Flagged(q) = col[q]
            BY <2>6, <3>1 DEF Flagged
        <3>3. QED
            BY <1>1, <1>2, <1>3, <2>1, <2>2, <2>3, <3>1, <3>2, SlotsApart DEF FrameCols
    <2>7. QED
        BY <1>1, <2>4, <2>5, <2>6
<1>6. QED
    BY <1>4, <1>5

\* Whatever the goroutines do and whatever the frame sizes, no two goroutines
\* are about to touch the same shared location, one of them writing.
THEOREM NoDataRace == Spec => []RaceFree
<1>1. IInv => RaceFree
    BY PipelineRaceFree DEF IInv
<1>2. QED
    BY <1>1, Invariance, PTL

-----------------------------------------------------------------------------
(***************************************************************************)
(* The row pipeline implements Wavefront: every step of it starts a frame,  *)
(* encodes one macroblock after its neighbours, records the next one,       *)
(* finishes the frame, or is invisible.                                     *)
(***************************************************************************)

\* The macroblocks of a frame that are encoded, as Wavefront sees them.
EncodedMBs == {m \in Rows \X Cols : mbInfo[m[1]][m[2]] # NotEncoded}

\* What \div and % give for naturals.
LEMMA Division ==
    ASSUME NEW i \in Nat, NEW w \in Nat, w >= 1
    PROVE  /\ i \div w \in Nat /\ i % w \in 0 .. w - 1
           /\ i = (i \div w) * w + (i % w)
OBVIOUS

\* The row and column of a raster index.
LEMMA RasterPosition ==
    ASSUME NEW w \in Nat, NEW y \in Nat, NEW x \in 0 .. w - 1
    PROVE  (y * w + x) \div w = y /\ (y * w + x) % w = x
<1> DEFINE i == y * w + x
           q == i \div w
           r == i % w
<1>1. i \in Nat /\ w >= 1
    BY RowStart
<1>2. q \in Nat /\ r \in 0 .. w - 1 /\ i = q * w + r
    <2> HIDE DEF i
    <2>1. QED
        BY <1>1, Division
<1>3. q = y /\ r = x
    <2>1. y * w + x = q * w + r
        BY <1>2
    <2> HIDE DEF q, r
    <2>2. QED
        BY <1>2, <2>1, RasterInjective
<1>4. QED
    BY <1>3

\* Launching a frame is Wavefront's Start.
LEMMA StartRefines ==
    ASSUME IInv, NEW d \in Dims, StartFrame(d)
    PROVE  Promise!Start(d)
<1> USE StartFrame(d) DEF StartFrame
<1>1. ~Busy /\ Busy' = TRUE
    BY EncodeParallelAssumption DEF Busy
<1>2. dim' = d /\ Len(tokens') = 0
    OBVIOUS
<1>3. EncodedMBs' = {}
    BY DEF EncodedMBs
<1>4. QED
    BY <1>1, <1>2, <1>3 DEF Promise!Start, EncodedMBs

\* Encoding a macroblock is Wavefront's Encode: everything it predicts from
\* is encoded, and it is not.
LEMMA EncodeRefines ==
    ASSUME IInv, NEW p \in Workers, EncodeMB(p)
    PROVE  /\ Promise!Encode(row[p], col[p])
           /\ <<row[p], col[p]>> \in Promise!MBs(dim)
<1> DEFINE y == row[p]
           x == col[p]
<1> USE DEF IInv
<1>1. /\ InRow(p) /\ ~Waiting(p) /\ Encoded(p) = x
      /\ y \in FrameRows /\ x \in FrameCols
      /\ mbInfo[y][x] = NotEncoded
      /\ mbInfo'[y][x] # NotEncoded
      /\ \A v \in Rows, u \in Cols : v # y \/ u # x => mbInfo'[v][u] = mbInfo[v][u]
    BY EncodesSerially
<1>2. /\ FrameRows \subseteq Rows /\ FrameCols \subseteq Cols
      /\ FrameRows \subseteq Nat /\ FrameCols \subseteq Nat
      /\ dim.w \in Nat /\ dim.h \in Nat /\ y \in Nat /\ x \in Nat
    BY <1>1, FrameFacts
<1>3. UNCHANGED <<dim, tokens>> /\ pc'[Caller] = pc[Caller]
    BY EncodeParallelAssumption DEF EncodeMB, frameVars, Workers, TypeInv, TypeOK, LocalTypeOK
<1>4. Busy /\ Busy' = Busy
    BY <1>1, <1>3 DEF Busy, Pipeline, Roles, InRow
<1>5. <<y, x>> \in Promise!MBs(dim) \ EncodedMBs
    BY <1>1 DEF Promise!MBs, EncodedMBs, FrameRows, FrameCols
<1>6. ASSUME NEW m \in Promise!Neighbours(dim, y, x) PROVE m \in EncodedMBs
    <2> DEFINE v == m[1]
               u == m[2]
    <2>1. /\ m = <<v, u>> /\ v \in FrameRows /\ u \in FrameCols
          /\ \/ v = y /\ u = x - 1
             \/ v = y - 1 /\ u \in x - 1 .. x + 1
        BY <1>6 DEF Promise!Neighbours, Promise!MBs, FrameRows, FrameCols
    <2> HIDE DEF u, v
    <2>2. mbInfo[v][u] # NotEncoded
        <3>1. CASE v = y /\ u = x - 1
            <4>1. u < Encoded(p)
                BY <1>1, <1>2, <3>1
            <4>2. QED
                BY <1>1, <2>1, <3>1, <4>1 DEF Pipeline, Prefixes
        <3>2. CASE v = y - 1 /\ u \in x - 1 .. x + 1
            <4>1. u < WaitTarget(col[p]) /\ row[p] > 0
                BY <1>1, <1>2, <2>1, <3>2 DEF WaitTarget, Min2, FrameRows, FrameCols
            <4>2. QED
                BY <1>1, <2>1, <3>2, <4>1, OwnContext
        <3>3. QED
            BY <2>1, <3>1, <3>2
    <2>3. QED
        BY <1>2, <2>1, <2>2 DEF EncodedMBs
<1>7. EncodedMBs' = EncodedMBs \cup {<<y, x>>}
    <2>1. \A v \in Rows, u \in Cols :
              mbInfo'[v][u] # NotEncoded <=> mbInfo[v][u] # NotEncoded \/ (v = y /\ u = x)
        BY <1>1
    <2>2. y \in Rows /\ x \in Cols
        BY <1>1, <1>2
    <2>3. QED
        BY <2>1, <2>2 DEF EncodedMBs
<1>8. QED
    BY <1>3, <1>4, <1>5, <1>6, <1>7 DEF Promise!Encode, EncodedMBs

\* Recording a macroblock is Wavefront's Record.
LEMMA RecordRefines ==
    ASSUME IInv, IInv', RecordMB
    PROVE  Promise!Record
<1> DEFINE y == row[Caller]
           x == col[Caller]
<1> USE DEF IInv
<1>0. Len(tokens) = y * dim.w + x
    BY RecordsNext
<1>1. /\ y \in FrameRows /\ x \in FrameCols
      /\ Len(tokens') = Len(tokens) + 1
      /\ mbInfo[y][x] # NotEncoded
    BY RecordsNext
<1>2. /\ FrameRows \subseteq Rows /\ FrameCols \subseteq Cols
      /\ dim.w \in Nat /\ dim.h \in Nat
    BY FrameFacts
<1>3. y \in Nat /\ y < dim.h /\ x \in 0 .. dim.w - 1
    BY <1>1, <1>2 DEF FrameRows, FrameCols
<1>4. Len(tokens) < dim.w * dim.h
    <2> HIDE DEF x, y
    <2> DEFINE s == y * dim.w
               t == dim.h * dim.w
    <2>1. s + dim.w <= t
        BY <1>2, <1>3, RowsApart
    <2>2. s \in Nat /\ t \in Nat
        BY <1>2, <1>3, RowStart
    <2>3. t = dim.w * dim.h
        BY <1>2
    <2>4. Len(tokens) = s + x
        BY <1>0
    <2> HIDE DEF s, t
    <2>5. Len(tokens) < t
        BY <1>2, <1>3, <2>1, <2>2, <2>4
    <2>6. QED
        BY <2>3, <2>5
<1>5. Len(tokens) \div dim.w = y /\ Len(tokens) % dim.w = x
    BY <1>0, <1>2, <1>3, RasterPosition
<1>6. <<y, x>> \in EncodedMBs
    BY <1>1, <1>2 DEF EncodedMBs
<1>7. UNCHANGED <<dim, mbInfo>> /\ Busy /\ Busy' = TRUE
    BY EncodeParallelAssumption
    DEF RecordMB, frameVars, Busy, TypeInv, TypeOK, LocalTypeOK
<1>8. QED
    BY <1>1, <1>4, <1>5, <1>6, <1>7 DEF Promise!Record, EncodedMBs

\* The end of a frame is Wavefront's Finish: when the tokens are recorded and
\* the workers are gone, every macroblock of the frame is encoded.
LEMMA EndRefines ==
    ASSUME IInv, EndFrame
    PROVE  Promise!Finish
<1> USE EndFrame DEF EndFrame, IInv
<1>1. /\ FrameRows \subseteq Rows /\ FrameCols \subseteq Cols
      /\ dim.w \in Nat /\ dim.h \in Nat /\ FrameCols = 0 .. dim.w - 1
      /\ \A y \in Rows : done[y] \in Nat
    BY FrameFacts DEF FrameCols
<1>2. \A y \in FrameRows, x \in FrameCols : mbInfo[y][x] # NotEncoded
    <2>1. \A y \in FrameRows : done[y] >= dim.w
        BY DEF Pipeline, Awaited
    <2>2. \A y \in FrameRows, x \in FrameCols : x < done[y]
        BY <1>1, <2>1
    <2>3. QED
        BY <2>2 DEF Pipeline, Published
<1>3. EncodedMBs = Promise!MBs(dim)
    <2>1. \A y \in Rows, x \in Cols :
              mbInfo[y][x] # NotEncoded <=> y \in FrameRows /\ x \in FrameCols
        BY <1>2 DEF Margins
    <2>2. QED
        BY <1>1, <2>1 DEF EncodedMBs, Promise!MBs, FrameRows, FrameCols
<1>4. Len(tokens) = dim.w * dim.h
    <2>1. Len(tokens) = dim.h * dim.w
        BY DEF TokenCount
    <2>2. QED
        BY <1>1, <2>1
<1>5. Busy /\ Busy' = FALSE
    BY EncodeParallelAssumption DEF Busy, TypeInv, TypeOK, LocalTypeOK
<1>6. UNCHANGED <<dim, mbInfo, tokens>>
    OBVIOUS
<1>7. QED
    BY <1>3, <1>4, <1>5, <1>6 DEF Promise!Finish, EncodedMBs

LEMMA InitRefines == Init => Promise!Init
<1> SUFFICES ASSUME Init PROVE Promise!Init
    OBVIOUS
<1>1. Busy = FALSE
    BY EncodeParallelAssumption DEF Init, Busy
<1>2. EncodedMBs = {}
    BY DEF Init, EncodedMBs
<1>3. dim \in Dims /\ Len(tokens) = 0
    BY DEF Init
<1>4. QED
    BY <1>1, <1>2, <1>3 DEF Promise!Init, EncodedMBs

\* Every other step is invisible to Wavefront.
LEMMA OtherStepsStutter ==
    ASSUME IInv, [Next]_vars,
           ~\E d \in Dims : StartFrame(d),
           ~\E p \in Workers : EncodeMB(p),
           ~RecordMB, ~EndFrame
    PROVE  UNCHANGED Promise!vars
<1>1. UNCHANGED <<dim, mbInfo, tokens>>
    BY DataEffect
<1>2. Busy' = Busy
    <2>1. ASSUME NEW p \in Workers, WorkerStep(p) PROVE pc'[Caller] = pc[Caller]
        BY <2>1, EncodeParallelAssumption
        DEF WorkerStep, ClaimRow, FillContext, EncodeMB, ExportMB, UpdateNZ, Advance, BeginMB,
            IInv, TypeInv, TypeOK, LocalTypeOK, Workers
    <2>2. ASSUME UNCHANGED pc PROVE pc'[Caller] = pc[Caller]
        BY <2>2
    <2>3. pc'[Caller] = pc[Caller]
        BY <2>1, <2>2 DEF Next, Sync, Finished, vars, localVars
    <2>4. QED
        BY <2>3 DEF Busy
<1>3. QED
    BY <1>1, <1>2 DEF Promise!vars

LEMMA NextRefines == IInv /\ IInv' /\ [Next]_vars => [Promise!Next]_(Promise!vars)
<1> SUFFICES ASSUME IInv, IInv', [Next]_vars, ~(UNCHANGED Promise!vars) PROVE Promise!Next
    OBVIOUS
<1>1. ASSUME NEW d \in Dims, StartFrame(d) PROVE Promise!Next
    BY <1>1, StartRefines DEF Promise!Next
<1>2. ASSUME NEW p \in Workers, EncodeMB(p) PROVE Promise!Next
    <2>1. Promise!Encode(row[p], col[p]) /\ <<row[p], col[p]>> \in Promise!MBs(dim)
        BY <1>2, EncodeRefines
    <2>2. PICK mb \in Promise!MBs(dim) : mb = <<row[p], col[p]>>
        BY <2>1
    <2>3. mb[1] = row[p] /\ mb[2] = col[p]
        BY <2>2
    <2>4. Promise!Encode(mb[1], mb[2])
        BY <2>1, <2>3 DEF Promise!Encode
    <2>5. QED
        BY <2>4 DEF Promise!Next
<1>3. RecordMB \/ EndFrame => Promise!Next
    BY RecordRefines, EndRefines DEF Promise!Next
<1>4. QED
    BY <1>1, <1>2, <1>3, OtherStepsStutter

\* Whatever the goroutines do, the pipeline encodes every macroblock once,
\* after its neighbours, and records all of them in raster order, frame after
\* frame.
THEOREM PipelineIsWavefront == Spec => ImplementsWavefront
BY InitRefines, NextRefines, Invariance, PTL DEF Spec, ImplementsWavefront, Promise!Spec
=============================================================================
