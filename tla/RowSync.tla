------------------------------- MODULE RowSync -------------------------------
(***************************************************************************)
(* rowSync (src/internal/lossy/encode_parallel.go): one progress counter    *)
(* per macroblock row, published with an atomic store and awaited either by *)
(* an atomic load (fast path) or on a sync.Cond (slow path).                *)
(*                                                                          *)
(* A goroutine that is inside waitFor or signal has a frame in call[p]: the *)
(* row, the progress it waits for or publishes, and the statement it is     *)
(* about to execute.  Every atomic operation, lock operation and            *)
(* notify-list operation is a step of its own.                              *)
(***************************************************************************)
EXTENDS Integers

CONSTANTS Procs,      \* the goroutines
          MaxRows,    \* bound on the rows a rowSync holds
          MaxCols,    \* bound on the macroblocks of a row
          NoProc      \* "nobody holds the mutex"

ASSUME RowSyncAssumption ==
    /\ MaxRows \in Nat \ {0}
    /\ MaxCols \in Nat \ {0}
    /\ NoProc \notin Procs

Rows == 0 .. MaxRows - 1
Cols == 0 .. MaxCols - 1

VARIABLES done,      \* rowState.done: macroblocks published, per row
          waiters,   \* rowState.waiters: goroutines on the slow path, per row
          mu,        \* holder of rowState.mu, per row
          parked,    \* the notify list of rowState.cond, per row
          call       \* per goroutine, its call of waitFor or signal

syncVars == <<done, waiters, mu, parked, call>>

WaitSteps   == {"check", "announce", "lock", "recheck", "enlist", "release",
                "asleep", "unlock", "leave"}
SignalSteps == {"store", "peek", "sigLock", "sigUnlock", "broadcast"}

Calls == [at : {"out"} \cup WaitSteps \cup SignalSteps,
          row : Rows, n : 0 .. MaxCols]

\* Not inside rowSync.
Out == [at |-> "out", row |-> 0, n |-> 0]

\* Calling rs.waitFor(y, needed) and rs.signal(y, n).
waitFor(y, needed) == [at |-> "check", row |-> y, n |-> needed]
signal(y, n)       == [at |-> "store", row |-> y, n |-> n]

At(p, label) == call[p].at = label
Goto(p, label) == call' = [call EXCEPT ![p].at = label]
Return(p) == call' = [call EXCEPT ![p] = Out]

(***************************************************************************)
(* newRowSync: a fresh rowSync, whose counters are zero, whose mutexes are  *)
(* free and whose notify lists are empty.                                   *)
(***************************************************************************)
newRowSync ==
    /\ done' = [y \in Rows |-> 0]
    /\ waiters' = [y \in Rows |-> 0]
    /\ mu' = [y \in Rows |-> NoProc]
    /\ parked' = [y \in Rows |-> {}]

(***************************************************************************)
(* waitFor                                                                  *)
(***************************************************************************)

WaitCheckEarly(p) ==   \* mutant: the fast path is content with one macroblock less
    /\ At(p, "check")
    /\ IF done[call[p].row] + 1 >= call[p].n THEN Return(p) ELSE Goto(p, "announce")
    /\ UNCHANGED <<done, waiters, mu, parked>>

\* Fast path: done.Load() >= needed returns at once.
WaitCheck(p) ==
    /\ At(p, "check")
    /\ IF done[call[p].row] >= call[p].n THEN Return(p) ELSE Goto(p, "announce")
    /\ UNCHANGED <<done, waiters, mu, parked>>

\* waiters.Add(1), before the mutex is taken.
WaitAnnounce(p) ==
    /\ At(p, "announce")
    /\ waiters' = [waiters EXCEPT ![call[p].row] = @ + 1]
    /\ Goto(p, "lock")
    /\ UNCHANGED <<done, mu, parked>>

\* mu.Lock(), also the re-acquisition at the end of cond.Wait.
WaitLock(p) ==
    /\ At(p, "lock")
    /\ mu[call[p].row] = NoProc
    /\ mu' = [mu EXCEPT ![call[p].row] = p]
    /\ Goto(p, "recheck")
    /\ UNCHANGED <<done, waiters, parked>>

\* The loop condition done.Load() < needed, read under the mutex.
WaitRecheck(p) ==
    /\ At(p, "recheck")
    /\ Goto(p, IF done[call[p].row] < call[p].n THEN "enlist" ELSE "unlock")
    /\ UNCHANGED <<done, waiters, mu, parked>>

\* cond.Wait: joins the notify list while the mutex is still held ...
CondEnlist(p) ==
    /\ At(p, "enlist")
    /\ parked' = [parked EXCEPT ![call[p].row] = @ \cup {p}]
    /\ Goto(p, "release")
    /\ UNCHANGED <<done, waiters, mu>>

\* ... then releases it ...
CondRelease(p) ==
    /\ At(p, "release")
    /\ mu' = [mu EXCEPT ![call[p].row] = NoProc]
    /\ Goto(p, "asleep")
    /\ UNCHANGED <<done, waiters, parked>>

\* ... and sleeps until a broadcast has taken it off the list.
CondWake(p) ==
    /\ At(p, "asleep")
    /\ p \notin parked[call[p].row]
    /\ Goto(p, "lock")
    /\ UNCHANGED <<done, waiters, mu, parked>>

WaitUnlock(p) ==
    /\ At(p, "unlock")
    /\ mu' = [mu EXCEPT ![call[p].row] = NoProc]
    /\ Goto(p, "leave")
    /\ UNCHANGED <<done, waiters, parked>>

\* waiters.Add(-1), after the mutex is released.
WaitLeave(p) ==
    /\ At(p, "leave")
    /\ waiters' = [waiters EXCEPT ![call[p].row] = @ - 1]
    /\ Return(p)
    /\ UNCHANGED <<done, mu, parked>>

(***************************************************************************)
(* signal                                                                   *)
(***************************************************************************)

\* done.Store(done): the macroblocks are published before anyone is woken.
SignalStore(p) ==
    /\ At(p, "store")
    /\ done' = [done EXCEPT ![call[p].row] = call[p].n]
    /\ Goto(p, "peek")
    /\ UNCHANGED <<waiters, mu, parked>>

\* waiters.Load() > 0 selects the slow path.
SignalPeek(p) ==
    /\ At(p, "peek")
    /\ IF waiters[call[p].row] > 0 THEN Goto(p, "sigLock") ELSE Return(p)
    /\ UNCHANGED <<done, waiters, mu, parked>>

\* mu.Lock(); mu.Unlock(): an empty critical section that waits until every
\* goroutine that saw the old count is on the notify list.
SignalLock(p) ==
    /\ At(p, "sigLock")
    /\ mu[call[p].row] = NoProc
    /\ mu' = [mu EXCEPT ![call[p].row] = p]
    /\ Goto(p, "sigUnlock")
    /\ UNCHANGED <<done, waiters, parked>>

SignalUnlock(p) ==
    /\ At(p, "sigUnlock")
    /\ mu' = [mu EXCEPT ![call[p].row] = NoProc]
    /\ Goto(p, "broadcast")
    /\ UNCHANGED <<done, waiters, parked>>

\* cond.Broadcast(): empties the notify list.
SignalBroadcast(p) ==
    /\ At(p, "broadcast")
    /\ parked' = [parked EXCEPT ![call[p].row] = {}]
    /\ Return(p)
    /\ UNCHANGED <<done, waiters, mu>>

-----------------------------------------------------------------------------
WaitStep(p) ==
    \/ WaitCheck(p)
    \/ WaitAnnounce(p)
    \/ WaitLock(p)
    \/ WaitRecheck(p)
    \/ CondEnlist(p)
    \/ CondRelease(p)
    \/ CondWake(p)
    \/ WaitUnlock(p)
    \/ WaitLeave(p)

SignalStep(p) ==
    \/ SignalStore(p)
    \/ SignalPeek(p)
    \/ SignalLock(p)
    \/ SignalUnlock(p)
    \/ SignalBroadcast(p)

\* The next step of the call p is in.
SyncStep(p) == WaitStep(p) \/ SignalStep(p)

SyncTypeOK ==
    /\ done \in [Rows -> 0 .. MaxCols]
    /\ waiters \in [Rows -> Int]
    /\ mu \in [Rows -> Procs \cup {NoProc}]
    /\ parked \in [Rows -> SUBSET Procs]
    /\ call \in [Procs -> Calls]

=============================================================================
