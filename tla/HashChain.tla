------------------------------ MODULE HashChain ------------------------------
(***************************************************************************)
(* The match finder of the lossless encoder: for every pixel of a picture  *)
(* the longest earlier run of pixels found equal to what starts there, as  *)
(* a distance and a length.  Fill first chains the pixels with the same    *)
(* hash, then searches backwards through the chains, in one goroutine or   *)
(* in several that own disjoint ranges.                                    *)
(*                                                                         *)
(* A picture is a function argb on 0..size-1.  Scaled by the constants:    *)
(* the longest match, the length that ends a search (256), the size from   *)
(* which the search is shared (50000) and the pixels a worker is worth     *)
(* (1000).  Hashes collide as PairHash says.                               *)
(***************************************************************************)
EXTENDS WorkShares, FiniteSets, TLC

CONSTANTS
  MaxLength,         \* maxLength, 4095
  LengthGoal,        \* 256: a match of this length ends the search
  WindowSize,        \* windowSize
  ItersFor(_),       \* getMaxItersForQuality
  WindowRows(_),     \* rows of the window of a quality of 75 or less
  ParallelSize,      \* 50000
  MinPerWorker,      \* 1000
  PairHash(_, _)     \* getPixPairHash64

ASSUME HashChainAssumption ==
    /\ {MaxLength, LengthGoal, MinPerWorker, WindowSize} \subseteq Nat \ {0}
    /\ ParallelSize \in Nat

Least(a, b) == IF a < b THEN a ELSE b
NoMatch == [dist |-> 0, len |-> 0]

GetWindowSize(quality, xsize) ==
    IF quality > 75 THEN WindowSize ELSE Least(xsize * WindowRows(quality), WindowSize)

\* The pixels from p on that equal the one at p.
RunFrom(argb, size, p) ==
    CHOOSE n \in 1..size - p :
        /\ \A k \in 1..n - 1 : argb[p + k] = argb[p]
        /\ p + n < size => argb[p + n] # argb[p]

\* What the hash of a position is taken of: inside a run of three or more, its
\* colour and what is left of it; elsewhere two pixels.
Key(argb, size, p) ==
    LET run == RunFrom(argb, size, p)
    IN  IF run >= 3 THEN PairHash(argb[p], run - 2) ELSE PairHash(argb[p], argb[p + 1])

\* The start of a run too long to be matched whole is left out.
Skipped(argb, size, p) == RunFrom(argb, size, p) - 2 > MaxLength

\* The chains: the closest earlier position with the same hash, or -1.  The
\* last two positions are in nobody's chain.
Chains(argb, size) ==
    LET key == [p \in 0..size - 2 |-> Key(argb, size, p)]
        listed == {p \in 0..size - 3 : ~Skipped(argb, size, p)}
        before(p) == {q \in listed : q < p /\ key[q] = key[p]}
    IN  [p \in 0..size - 2 |->
            IF (p = size - 2 \/ p \in listed) /\ before(p) # {}
            THEN CHOOSE q \in before(p) : \A r \in before(p) : r <= q
            ELSE -1]

\* Equal pixels from a and from b on, up to max: 0 at once when the pixel that
\* has to be equal for the match to be a better one is not.
FindMatchLength(argb, a, b, bestLen, max) ==
    IF bestLen < max /\ argb[a + bestLen] # argb[b + bestLen] THEN 0
    ELSE CHOOSE n \in 0..max : /\ \A k \in 0..n - 1 : argb[a + k] = argb[b + k]
                               /\ n < max => argb[a + n] # argb[b + n]

Better(found, argb, base, dist, max) ==
    LET len == FindMatchLength(argb, base - dist, base, found.len, max)
    IN  IF len > found.len THEN [dist |-> dist, len |-> len] ELSE found

\* One candidate of the chain.  pos falls below minPos when the search is over.
Visit(chain, argb, base, minPos, max, s) ==
    IF s.pos < minPos THEN s
    ELSE LET len == FindMatchLength(argb, s.pos, base, 0, max)
             better == argb[s.pos + s.len] = argb[base + s.len] /\ len > s.len
         IN  [pos |-> IF better /\ len >= Least(max, LengthGoal) THEN -1 ELSE chain[s.pos],
              dist |-> IF better THEN base - s.pos ELSE s.dist,
              len |-> IF better THEN len ELSE s.len]

\* The best match for base: the pixel above and the one to the left are tried
\* first, unless the encoder is in a hurry, and count as iterations.
Search(chain, argb, size, xsize, base, iterMax, winSize, lowEffort) ==
    LET max == Least(size - 1 - base, MaxLength)
        minPos == IF base > winSize THEN base - winSize ELSE 0
        above == IF ~lowEffort /\ base >= xsize
                 THEN Better(NoMatch, argb, base, xsize, max) ELSE NoMatch
        near == IF lowEffort THEN NoMatch ELSE Better(above, argb, base, 1, max)
        tried == IF lowEffort THEN 0 ELSE IF base >= xsize THEN 2 ELSE 1
        start == [pos |-> IF near.len = MaxLength THEN -1 ELSE chain[base],
                  dist |-> near.dist, len |-> near.len]
        after[k \in 0..iterMax] ==
            IF k = 0 THEN start ELSE Visit(chain, argb, base, minPos, max, after[k - 1])
        end == after[IF iterMax > tried THEN iterMax - tried ELSE 0]
    IN  [dist |-> end.dist, len |-> Least(end.len, MaxLength)]

\* fillSerial, from the end of the picture: a match found for a position is
\* first offered to the position on its left, where it is one longer.  The
\* chains and the matches share an array, whose first entry is cleared before.
FillSerial(argb, size, xsize, iterMax, winSize, lowEffort) ==
    LET chain == [Chains(argb, size) EXCEPT ![0] = 0]
        searched(p) == Search(chain, argb, size, xsize, p, iterMax, winSize, lowEffort)
        fromRight(right, p) ==
            /\ right.dist # 0
            /\ p >= right.dist
            /\ argb[p - right.dist] = argb[p]
            /\ ~(right.len = MaxLength /\ right.dist # 1 /\ p + MaxLength < right.fresh)
        entry(right, p) ==
            IF fromRight(right, p)
            THEN [dist |-> right.dist, len |-> Least(right.len + 1, MaxLength),
                  fresh |-> IF right.len < MaxLength THEN p ELSE right.fresh]
            ELSE searched(p) @@ [fresh |-> p]
        match[p \in 1..size - 1] ==
            IF p = size - 1 THEN NoMatch @@ [fresh |-> p] ELSE entry(match[p + 1], p)
    IN  [p \in 0..size - 1 |-> IF p = 0 THEN NoMatch
                               ELSE [dist |-> match[p].dist, len |-> match[p].len]]

\* fillParallel: the workers and the positions each owns.
NumWorkers(size, procs) ==
    LET n == Least(procs, size \div MinPerWorker) IN IF n < 1 THEN 1 ELSE n
RangeStart(size, procs, w) ==
    1 + ShareStart(RoundedUp(size - 2, NumWorkers(size, procs)), w)
RangeEnd(size, procs, w) ==
    1 + ShareEnd(size - 2, RoundedUp(size - 2, NumWorkers(size, procs)), w)
Positions(size, procs, w) == RangeStart(size, procs, w)..RangeEnd(size, procs, w) - 1

\* mutant: the pixel that a match grows by is not compared
ExtendLeftBlindly(hc, argb, size) ==
    LET match[p \in 1..size - 1] ==
            IF p < size - 2 /\ match[p + 1].dist \in 1..p /\ match[p + 1].len + 1 > hc[p].len
            THEN [match[p + 1] EXCEPT !.len = Least(@ + 1, MaxLength)] ELSE hc[p]
    IN  [p \in 0..size - 1 |-> IF p = 0 THEN hc[0] ELSE match[p]]

\* The pass over the matches of all the workers: a match of the position on
\* the right, one longer, replaces a shorter one.
ExtendLeft(hc, argb, size) ==
    LET entry(right, p) ==
            IF /\ right.dist # 0 /\ p >= right.dist
               /\ argb[p - right.dist] = argb[p]
               /\ Least(right.len + 1, MaxLength) > hc[p].len
            THEN [dist |-> right.dist, len |-> Least(right.len + 1, MaxLength)]
            ELSE hc[p]
        match[p \in 1..size - 1] ==
            IF p >= size - 2 THEN hc[p] ELSE entry(match[p + 1], p)
    IN  [p \in 0..size - 1 |-> IF p = 0 THEN hc[0] ELSE match[p]]

=============================================================================
