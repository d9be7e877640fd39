----------------------------- MODULE Histograms ------------------------------
(***************************************************************************)
(* Grouping the tiles of a picture by their histograms.  The histograms of *)
(* the groups are those of the tiles themselves, merged where they stand:  *)
(* imageHisto only points at them.  Below quality 90 a tracker remembers   *)
(* which tiles a group has taken in; above it the tiles are measured again *)
(* and each goes to the group that it makes least dearer.                  *)
(***************************************************************************)
EXTENDS Entropy, SequencesExt, WorkShares

CONSTANTS Pictures,        \* the pictures to group: tokens, size, tiles, quality
          NumPartitions,   \* numPartitions, 4: parts of the range of a cost
          MaxFailures,     \* maxCombineFailures, 32
          QueueSize,       \* histoQueueSize, 9
          RemapParallel,   \* 64: tiles from which remapping is shared
          NumWorkers       \* GOMAXPROCS

VARIABLES pic, stage, mem, built, histos, tracker, queue, bins, at, search, symbols, remap

vars == <<pic, stage, mem, built, histos, tracker, queue, bins, at, search, symbols, remap>>

SubSampleSize(size, bits) == (size + 2^bits - 1) \div 2^bits
RawSize(p) == SubSampleSize(p.xsize, p.bits) * SubSampleSize(p.ysize, p.bits)
Tiles == 1..RawSize(pic)
LowEffort == pic.quality < 25
SkipRemap == pic.quality < 90

\* The memory of a histogram: a tile, the spare one, or a group that was copied.
TileCell(t) == <<"tile", t>>
ComboCell == <<"combo", 0>>
ClusterCell(k) == <<"cluster", k>>

\* A token stands for as many equal ones that start in one tile.
Codes(v) ==
    CASE v.mode = "literal" -> [literal |-> v.g, red |-> v.r, blue |-> v.b, alpha |-> v.a]
      [] v.mode = "cache" -> [literal |-> NumLiteralCodes + NumLengthCodes + v.idx]
      [] OTHER -> [literal |-> NumLiteralCodes + PrefixEncode(v.len).code,
                   distance |-> PrefixEncode(v.dist).code]
AddSingle(h, v, cacheBits) ==
    [h EXCEPT !.pop = [c \in Channels |->
        IF c \in DOMAIN Codes(v) /\ Codes(v)[c] < NumCodes(c, cacheBits)
        THEN AddPopulations(h.pop[c], [s \in {Codes(v)[c]} |-> v.times]) ELSE h.pop[c]]]

\* histogramBuild: a token belongs to the tile that it starts in.
TileAt(p, x, y) == (y \div 2^p.bits) * SubSampleSize(p.xsize, p.bits) + (x \div 2^p.bits) + 1
PlaceToken(b, p, v) ==
    [h |-> [b.h EXCEPT ![TileAt(p, b.x, b.y)] = AddSingle(@, v, p.cacheBits)],
     x |-> (b.x + v.len * v.times) % p.xsize, y |-> b.y + (b.x + v.len * v.times) \div p.xsize]
HistogramBuild(p) ==
    LET from[k \in 0..Len(p.refs)] ==
            IF k = 0 THEN [h |-> [t \in 1..RawSize(p) |-> NewHistogram], x |-> 0, y |-> 0]
            ELSE PlaceToken(from[k - 1], p, p.refs[k])
    IN  from[Len(p.refs)].h
MeasuredTiles(p) ==
    LET tile == HistogramBuild(p)
    IN  [t \in 1..RawSize(p) |-> ComputeCost(tile[t], p.cacheBits)]

Used(h) == \E c \in Channels : h.used[c]
Histo(k) == mem[histos[k]]

\* The sequences of imageHisto and of its tracker drop an entry by moving the
\* last one to its place.
SwapRemove(s, i) == SubSeq([s EXCEPT ![i] = s[Len(s)]], 1, Len(s) - 1)
NoTracker == [head |-> <<>>, tail |-> <<>>, next |-> <<>>]
MergeTiles(t, dst, src) ==
    IF ~SkipRemap \/ t.head[src] = None THEN t
    ELSE IF t.head[dst] = None
         THEN [t EXCEPT !.head[dst] = t.head[src], !.tail[dst] = t.tail[src]]
    ELSE [t EXCEPT !.next[t.tail[dst]] = t.head[src], !.tail[dst] = t.tail[src]]
\* mutant: the lists are cut off, without the last one taking the place.
DropTilesCutOff(t, i) ==
    IF ~SkipRemap THEN t
    ELSE [t EXCEPT !.head = SubSeq(t.head, 1, Len(t.head) - 1), !.tail = SubSeq(t.tail, 1, Len(t.tail) - 1)]
DropTiles(t, i) ==
    IF ~SkipRemap THEN t
    ELSE [t EXCEPT !.head = SwapRemove(t.head, i), !.tail = SwapRemove(t.tail, i)]

NumBins == IF LowEffort THEN NumPartitions ELSE NumPartitions * NumPartitions * NumPartitions
EntropyCombine == Len(histos) > NumBins * 2 /\ pic.quality < 100
ThresholdSize == 1 + (pic.quality * pic.quality * pic.quality * 99) \div 1000000

Init ==
    /\ pic \in Pictures
    /\ stage = "build"
    /\ mem = Empty /\ built = Empty /\ histos = <<>> /\ tracker = NoTracker /\ queue = <<>> /\ bins = Empty
    /\ at = 1
    /\ search = [seed |-> 1, iter |-> 0, iters |-> 0, idle |-> 0, tries |-> 0, open |-> FALSE]
    /\ symbols = Empty /\ remap = Empty

\* The tiles are counted and measured; those without a token are left out.
Build ==
    /\ stage = "build"
    /\ LET tile == MeasuredTiles(pic)
           full == SelectSeq([t \in Tiles |-> t], LAMBDA t : Used(tile[t]))
       IN  /\ mem' = [c \in {TileCell(t) : t \in Tiles} |-> tile[c[2]]]
           /\ built' = [t \in Tiles |-> tile[t].pop]
           /\ histos' = [k \in DOMAIN full |-> TileCell(full[k])]
           /\ tracker' = IF SkipRemap THEN [head |-> full, tail |-> full, next |-> [t \in Tiles |-> None]]
                         ELSE NoTracker
    /\ stage' = "bin"
    /\ UNCHANGED <<pic, queue, bins, at, search, symbols, remap>>

-----------------------------------------------------------------------------
(* Merging within a bin of similar costs. *)

BinID(lo, hi, cost) == IF hi > lo THEN ((NumPartitions - 1) * (cost - lo)) \div (hi - lo) ELSE 0
BinIndex(h, lo, hi) ==
    LET part(c) == BinID(lo[c], hi[c], h.costs[c])
    IN  IF LowEffort THEN part("literal")
        ELSE (part("literal") * NumPartitions + part("red")) * NumPartitions + part("blue")

\* getCombineCostFactor, in percent, for the numbers of tiles of these pictures.
CombineCostFactor == IF pic.quality <= 50 THEN 8 ELSE 16

\* dominantCostRange: the least and the greatest cost of each channel.
MeasureRange ==
    /\ stage = "bin" /\ EntropyCombine
    /\ LET cost(c) == {Histo(k).costs[c] : k \in DOMAIN histos}
       IN  bins' = [lo |-> [c \in {"literal", "red", "blue"} |-> Min(cost(c))],
                    hi |-> [c \in {"literal", "red", "blue"} |-> Max(cost(c))]]
    /\ stage' = "number"
    /\ UNCHANGED <<pic, mem, built, histos, tracker, queue, at, search, symbols, remap>>
NumberBins ==
    /\ stage = "number"
    /\ mem' = [c \in DOMAIN mem \cup {ComboCell} |->
                 IF c = ComboCell THEN NewHistogram
                 ELSE IF \E k \in DOMAIN histos : histos[k] = c
                      THEN [mem[c] EXCEPT !.bin = BinIndex(mem[c], bins.lo, bins.hi)]
                 ELSE mem[c]]
    /\ stage' = "sort"
    /\ UNCHANGED <<pic, built, histos, tracker, queue, bins, at, search, symbols, remap>>

\* The sort puts the histograms of a bin next to each other, and the tiles with
\* them.  The order within a bin is the sort's own; here it is the one they had.
SortBins ==
    /\ stage = "sort"
    /\ LET sorted == SortSeq([k \in DOMAIN histos |-> k],
                             LAMBDA k, l : Histo(k).bin < Histo(l).bin \/ (Histo(k).bin = Histo(l).bin /\ k < l))
       IN  /\ histos' = [i \in DOMAIN histos |-> histos[sorted[i]]]
           /\ tracker' = IF SkipRemap
                         THEN [tracker EXCEPT !.head = [i \in DOMAIN histos |-> @[sorted[i]]],
                                              !.tail = [i \in DOMAIN histos |-> @[sorted[i]]]]
                         ELSE tracker
    /\ bins' = [combo |-> ComboCell, first |-> [b \in 0..NumBins - 1 |-> None],
                failures |-> [b \in 0..NumBins - 1 |-> 0]]
    /\ at' = 1 /\ stage' = "combine"
    /\ UNCHANGED <<pic, mem, built, queue, search, symbols, remap>>

SkipBins ==
    /\ stage = "bin" /\ ~EntropyCombine
    /\ stage' = "stochastic"
    /\ search' = [search EXCEPT !.iters = Len(histos)]
    /\ UNCHANGED <<pic, mem, built, histos, tracker, queue, bins, at, symbols, remap>>

BinOf(k) == Histo(k).bin
FirstOf(k) == bins.first[BinOf(k)]

FirstOfBin ==
    /\ stage = "combine" /\ at <= Len(histos) /\ FirstOf(at) = None
    /\ bins' = [bins EXCEPT !.first[BinOf(at)] = at]
    /\ at' = at + 1
    /\ UNCHANGED <<pic, stage, mem, built, histos, tracker, queue, search, symbols, remap>>

Absorb(first) ==
    /\ tracker' = DropTiles(MergeTiles(tracker, first, at), at)

\* With little effort every histogram joins the first of its bin.
CombineAny ==
    /\ stage = "combine" /\ at <= Len(histos) /\ LowEffort
    /\ LET first == FirstOf(at)
       IN  /\ first # None
           /\ mem' = [mem EXCEPT ![histos[first]] = HistogramAdd(Histo(at), Histo(first), Histo(first))]
           /\ Absorb(first)
           /\ histos' = SwapRemove(histos, at)
    /\ UNCHANGED <<pic, stage, built, queue, bins, at, search, symbols, remap>>

NonTrivial(h) == \E c \in {"red", "blue", "alpha"} : h.trivial[c] = None

\* Otherwise it joins when that is cheap enough, and unless it spoils a
\* channel that had one symbol.  The sum is built in the spare histogram, which
\* then takes the place of the first one, and that one becomes the spare.
Sum(first, costs) ==
    [HistogramAdd(Histo(first), Histo(at), mem[bins.combo]) EXCEPT
        !.bitCost = BitCost(costs), !.costs = costs]
TriesToCombine(first, sum) == ~NonTrivial(sum) \/ (NonTrivial(Histo(at)) /\ NonTrivial(Histo(first)))
SwapCombo(first) ==
    /\ histos' = SwapRemove([histos EXCEPT ![first] = bins.combo], at)
    /\ bins' = [bins EXCEPT !.combo = histos[first]]
CombineBin ==
    /\ stage = "combine" /\ at <= Len(histos) /\ ~LowEffort /\ FirstOf(at) # None
    /\ LET first == FirstOf(at)
           bin == BinOf(at)
           cost == Histo(at).bitCost
           costs == CombinedCosts(Histo(first), Histo(at), pic.cacheBits)
           sum == Sum(first, costs)
           hopeless == Histo(first).bitCost > 20 * (cost + 64) /\ bins.failures[bin] > MaxFailures \div 2
           cheap == ~hopeless /\ Below(costs, Histo(first).bitCost + cost - (cost * CombineCostFactor) \div 100)
       IN  /\ mem' = IF cheap THEN [mem EXCEPT ![bins.combo] = sum] ELSE mem
           /\ IF cheap /\ (TriesToCombine(first, sum) \/ bins.failures[bin] >= MaxFailures)
              THEN SwapCombo(first) /\ Absorb(first) /\ at' = at
              ELSE /\ bins' = IF cheap THEN [bins EXCEPT !.failures[bin] = @ + 1] ELSE bins
                   /\ at' = at + 1
                   /\ UNCHANGED <<histos, tracker>>
    /\ UNCHANGED <<pic, stage, built, queue, search, symbols, remap>>

EndBins ==
    /\ stage = "combine" /\ at > Len(histos)
    /\ mem' = IF ~LowEffort THEN mem
              ELSE [c \in DOMAIN mem |-> IF \E k \in DOMAIN histos : histos[k] = c
                                         THEN ComputeCost(mem[c], pic.cacheBits) ELSE mem[c]]
    /\ stage' = IF LowEffort THEN "extract" ELSE "stochastic"
    /\ search' = [search EXCEPT !.iters = Len(histos)]
    /\ UNCHANGED <<pic, built, histos, tracker, queue, bins, at, symbols, remap>>

-----------------------------------------------------------------------------
(* The queue of pairs worth merging, the best of them at its head. *)

UpdateHead(q, i) == IF q[i].diff < q[1].diff THEN [q EXCEPT ![1] = q[i], ![i] = q[1]] ELSE q

\* hs are the histograms that the two numbers stand for.
Push(q, hs, i, j, threshold, maxSize) ==
    LET a == Min({i, j})
        b == Max({i, j})
        sum == hs[a].bitCost + hs[b].bitCost
        costs == CombinedCosts(hs[a], hs[b], pic.cacheBits)
        pair == [idx1 |-> a, idx2 |-> b, diff |-> BitCost(costs) - sum, combo |-> BitCost(costs), costs |-> costs]
    IN  IF Len(q) >= maxSize \/ ~Below(costs, threshold + sum) THEN q
        ELSE UpdateHead(Append(q, pair), Len(q) + 1)

FixPair(p, bad, good) ==
    LET one == IF p.idx1 = bad THEN good ELSE p.idx1
        two == IF p.idx2 = bad THEN good ELSE p.idx2
    IN  [p EXCEPT !.idx1 = Min({one, two}), !.idx2 = Max({one, two})]

Touches(p, i) == p.idx1 = i \/ p.idx2 = i

\* The histograms as a merge of the head leaves them, the last one in the place
\* of the one that went and, until the queue is in order again, at its own.
MergedHead ==
    LET best == queue[1]
    IN  [HistogramAdd(Histo(best.idx2), Histo(best.idx1), Histo(best.idx1)) EXCEPT
            !.bitCost = best.combo, !.costs = best.costs]
Current == [k \in DOMAIN histos |-> Histo(k)]
AfterMerge ==
    [k \in DOMAIN histos |-> CASE k = queue[1].idx1 -> MergedHead
                               [] k = queue[1].idx2 -> Histo(Len(histos))
                               [] OTHER -> Histo(k)]
MergeHead ==
    LET best == queue[1]
    IN  /\ mem' = [mem EXCEPT ![histos[best.idx1]] = MergedHead]
        /\ histos' = SwapRemove(histos, best.idx2)
        /\ tracker' = DropTiles(MergeTiles(tracker, best.idx1, best.idx2), best.idx2)

-----------------------------------------------------------------------------
(* Random pairs, until there are few groups or nothing has been gained for a while. *)

\* 48271 seed modulo 2^31 - 1, in numbers that stay below 2^31.
LehmerRand(seed) ==
    LET x == 48271 * (seed % 44488) - 3399 * (seed \div 44488)
    IN  IF x > 0 THEN x ELSE x + 2147483647
NumTries == Len(histos) \div 2

\* A round begins while there are enough groups, and the search ends when too
\* many rounds have found nothing.
Goes == /\ search.iter < search.iters /\ Len(histos) >= ThresholdSize
        /\ search.idle + 1 < search.iters \div 2
BeginRound ==
    /\ stage = "stochastic" /\ ~search.open /\ Goes
    /\ search' = [search EXCEPT !.iter = @ + 1, !.idle = @ + 1, !.tries = 0, !.open = TRUE]
    /\ UNCHANGED <<pic, stage, mem, built, histos, tracker, queue, bins, at, symbols, remap>>
EndSearch ==
    /\ stage = "stochastic" /\ ~search.open /\ ~Goes
    /\ stage' = IF Len(histos) <= ThresholdSize THEN "queue" ELSE "extract"
    /\ queue' = <<>>
    /\ UNCHANGED <<pic, mem, built, histos, tracker, bins, at, search, symbols, remap>>

BestCost == IF queue = <<>> THEN 0 ELSE queue[1].diff
Trying == stage = "stochastic" /\ search.open /\ search.tries < NumTries
TryPair ==
    /\ Trying
    /\ LET n == Len(histos)
           seed == LehmerRand(search.seed)
           tmp == seed % ((n - 1) * n)
           one == tmp \div (n - 1)
           two == IF tmp % (n - 1) >= one THEN (tmp % (n - 1)) + 1 ELSE tmp % (n - 1)
           pushed == Push(queue, Current, one + 1, two + 1, BestCost, QueueSize)
           last == pushed # queue /\ Len(pushed) = QueueSize
       IN  /\ queue' = pushed
           /\ search' = [search EXCEPT !.seed = seed, !.tries = IF last THEN NumTries ELSE @ + 1]
    /\ UNCHANGED <<pic, stage, mem, built, histos, tracker, bins, at, symbols, remap>>

\* mutant: the pair keeps the cost it had before the merge.
ReevaluatedStale(p, hs) == <<p>>
\* A pair that had one of the two now has the first, at a new cost, or goes.
Reevaluated(p, hs) ==
    LET sum == hs[p.idx1].bitCost + hs[p.idx2].bitCost
        costs == CombinedCosts(hs[p.idx1], hs[p.idx2], pic.cacheBits)
    IN  IF Below(costs, sum)
        THEN <<[p EXCEPT !.combo = BitCost(costs), !.costs = costs, !.diff = BitCost(costs) - sum]>>
        ELSE <<>>

\* hs has the moved histogram at both of its places until the end.
RECURSIVE RefreshedFrom(_, _, _, _, _, _)
RefreshedFrom(q, j, best1, best2, last, hs) ==
    IF j > Len(q) THEN q
    ELSE LET p == q[j]
             one == p.idx1 \in {best1, best2}
             two == p.idx2 \in {best1, best2}
             kept == IF one \/ two THEN Reevaluated(FixPair(p, best2, best1), hs) ELSE <<p>>
         IN  IF (one /\ two) \/ kept = <<>>
             THEN RefreshedFrom(SwapRemove(q, j), j, best1, best2, last, hs)
             ELSE RefreshedFrom(UpdateHead([q EXCEPT ![j] = FixPair(kept[1], last, best2)], j),
                                j + 1, best1, best2, last, hs)

EndRound ==
    /\ stage = "stochastic" /\ search.open /\ ~Trying
    /\ IF queue = <<>>
       THEN search' = [search EXCEPT !.open = FALSE] /\ UNCHANGED <<queue, mem, histos, tracker>>
       ELSE LET best == queue[1]
            IN  /\ MergeHead
                /\ queue' = RefreshedFrom(queue, 1, best.idx1, best.idx2, Len(histos), AfterMerge)
                /\ search' = [search EXCEPT !.open = FALSE, !.idle = 0]
    /\ UNCHANGED <<pic, stage, built, bins, at, symbols, remap>>

-----------------------------------------------------------------------------
(* All pairs, the best first, until no merge saves a bit. *)

PairsOf(n) == FlattenSeq([i \in 1..n |-> [j \in 1..n - i |-> <<i, i + j>>]])
FillQueue ==
    /\ stage = "queue"
    /\ LET n == Len(histos)
       IN  queue' = FoldLeft(LAMBDA q, p : Push(q, Current, p[1], p[2], 0, n * n), <<>>, PairsOf(n))
    /\ at' = Len(histos) * Len(histos)
    /\ stage' = "greedy"
    /\ UNCHANGED <<pic, mem, built, histos, tracker, bins, search, symbols, remap>>

\* The pairs of the two are dropped, and the pairs of the last one renamed.
RECURSIVE WithoutFrom(_, _, _, _, _)
WithoutFrom(q, i, idx1, idx2, last) ==
    IF i > Len(q) THEN q
    ELSE IF Touches(q[i], idx1) \/ Touches(q[i], idx2)
         THEN WithoutFrom(SwapRemove(q, i), i, idx1, idx2, last)
    ELSE WithoutFrom(UpdateHead([q EXCEPT ![i] = FixPair(q[i], last, idx2)], i), i + 1, idx1, idx2, last)

MergeBest ==
    /\ stage = "greedy" /\ queue # <<>>
    /\ MergeHead
    /\ LET best == queue[1]
           others == SelectSeq([i \in 1..Len(histos) - 1 |-> i], LAMBDA i : i # best.idx1)
       IN  queue' = FoldLeft(LAMBDA q, i : Push(q, AfterMerge, best.idx1, i, 0, at),
                             WithoutFrom(queue, 1, best.idx1, best.idx2, Len(histos)), others)
    /\ UNCHANGED <<pic, stage, built, bins, at, search, symbols, remap>>

EndGreedy ==
    /\ stage = "greedy" /\ queue = <<>>
    /\ stage' = "extract"
    /\ UNCHANGED <<pic, mem, built, histos, tracker, queue, bins, at, search, symbols, remap>>

-----------------------------------------------------------------------------
(* The number of the group that each tile is written with. *)

\* extractClusterCenters: the groups move to memory of their own.
Extract ==
    /\ stage = "extract"
    /\ mem' = [c \in DOMAIN mem \cup {ClusterCell(k) : k \in DOMAIN histos} |->
                 IF c[1] = "cluster" THEN Histo(c[2]) ELSE mem[c]]
    /\ histos' = [k \in DOMAIN histos |-> ClusterCell(k)]
    /\ stage' = IF SkipRemap THEN "lists" ELSE "rebuild"
    /\ UNCHANGED <<pic, built, tracker, queue, bins, at, search, symbols, remap>>

\* The tiles of a list, and the number of tiles without a token: that of the
\* tile before them.
WithNext(list) == IF tracker.next[Head(list)] = None THEN list ELSE <<tracker.next[Head(list)]>> \o list
TilesFrom(t) ==
    LET list[n \in 0..RawSize(pic)] == IF n = 0 THEN <<t>> ELSE WithNext(list[n - 1])
    IN  ToSet(list[RawSize(pic)])
TilesOf(k) == IF tracker.head[k] = None THEN {} ELSE TilesFrom(tracker.head[k])
Inherit(sym) ==
    LET from[t \in 0..RawSize(pic)] ==
            IF t = 0 THEN 1 ELSE IF sym[t] # None THEN sym[t] ELSE from[t - 1]
    IN  [t \in Tiles |-> from[t]]

FollowLists ==
    /\ stage = "lists"
    /\ symbols' = Inherit([t \in Tiles |->
                     IF \E k \in DOMAIN histos : t \in TilesOf(k)
                     THEN CHOOSE k \in DOMAIN histos : t \in TilesOf(k) ELSE None])
    /\ mem' = [c \in DOMAIN mem |-> IF c[1] = "cluster" THEN ComputeCost(mem[c], pic.cacheBits) ELSE mem[c]]
    /\ tracker' = NoTracker
    /\ stage' = "done"
    /\ UNCHANGED <<pic, built, histos, queue, bins, at, search, remap>>

\* The tiles are counted again, over what is left of them.
Rebuild ==
    /\ stage = "rebuild"
    /\ LET tile == MeasuredTiles(pic)
           nil == {t \in Tiles : t > 1 /\ ~Used(tile[t])}
           shared == RawSize(pic) >= RemapParallel
           workers == IF shared THEN Min({NumWorkers, RawSize(pic)}) ELSE 1
       IN  /\ mem' = [c \in DOMAIN mem |-> IF c[1] = "tile" THEN tile[c[2]] ELSE mem[c]]
           /\ remap' = [nil |-> nil, shared |-> shared,
                        chunk |-> RoundedUp(RawSize(pic), workers),
                        done |-> [w \in 1..workers |-> 0]]
    /\ symbols' = [t \in Tiles |-> None]
    /\ stage' = "remap"
    /\ UNCHANGED <<pic, built, histos, tracker, queue, bins, at, search>>

\* The first of the groups that grow least, unless all grow by more than the
\* tile costs alone.
ClosestGroup(h) ==
    LET growth == [k \in DOMAIN histos |-> BitCost(CombinedCosts(Histo(k), h, pic.cacheBits)) - Histo(k).bitCost]
        better == {k \in DOMAIN histos : growth[k] < h.bitCost}
    IN  IF better = {} THEN 1
        ELSE Min({k \in better : \A l \in better : growth[k] <= growth[l]})

\* Each worker goes over the tiles of its range.  Alone, it can look back for
\* the tiles without a token; workers leave them to the end.
NextTile(w) == (w - 1) * remap.chunk + remap.done[w] + 1
Remaining(w) == remap.done[w] < remap.chunk /\ NextTile(w) <= RawSize(pic)
RemapTile(w) ==
    /\ stage = "remap" /\ w \in DOMAIN remap.done /\ Remaining(w)
    /\ LET t == NextTile(w)
       IN  symbols' = [symbols EXCEPT ![t] =
                CASE Len(histos) <= 1 -> 1
                  [] Len(histos) > 1 /\ t \in remap.nil -> IF remap.shared THEN None ELSE symbols[t - 1]
                  [] OTHER -> ClosestGroup(mem[TileCell(t)])]
    /\ remap' = [remap EXCEPT !.done[w] = @ + 1]
    /\ UNCHANGED <<pic, stage, mem, built, histos, tracker, queue, bins, at, search>>

\* mutant: on top of what they held.
RegroupedOnTop(sym, k) ==
    FoldLeft(LAMBDA h, t : HistogramAdd(mem[TileCell(t)], h, h), Histo(k),
             SelectSeq([t \in Tiles |-> t], LAMBDA t : t \notin remap.nil /\ sym[t] = k))
\* The groups are made again from the tiles that chose them.
Regrouped(sym, k) ==
    FoldLeft(LAMBDA h, t : HistogramAdd(mem[TileCell(t)], h, h), Clear(Histo(k)),
             SelectSeq([t \in Tiles |-> t], LAMBDA t : t \notin remap.nil /\ sym[t] = k))
Regroup ==
    /\ stage = "remap" /\ \A w \in DOMAIN remap.done : ~Remaining(w)
    /\ LET sym == Inherit(symbols)
       IN  /\ symbols' = sym
           /\ mem' = [c \in DOMAIN mem |->
                        IF c[1] = "cluster" THEN ComputeCost(Regrouped(sym, c[2]), pic.cacheBits) ELSE mem[c]]
    /\ stage' = "done"
    /\ UNCHANGED <<pic, built, histos, tracker, queue, bins, at, search, remap>>

Done == stage = "done" /\ UNCHANGED vars

Next ==
    \/ Build \/ MeasureRange \/ NumberBins \/ SortBins \/ SkipBins \/ FirstOfBin \/ CombineAny \/ CombineBin \/ EndBins
    \/ BeginRound \/ TryPair \/ EndRound \/ EndSearch
    \/ FillQueue \/ MergeBest \/ EndGreedy
    \/ Extract \/ FollowLists \/ Rebuild \/ (\E w \in 1..NumWorkers : RemapTile(w)) \/ Regroup
    \/ Done

Spec == Init /\ [][Next]_vars

-----------------------------------------------------------------------------
\* A pair in the queue says what merging its two groups as they are now would
\* save, and no pair saves more than the one at the head: merges, renamings
\* and removals in between never leave an old cost behind (histoQueue).
PairsFresh ==
    \A i \in DOMAIN queue :
        LET p == queue[i]
            costs == CombinedCosts(Histo(p.idx1), Histo(p.idx2), pic.cacheBits)
        IN  /\ p.idx1 < p.idx2 /\ p.idx2 <= Len(histos)
            /\ p.combo = BitCost(costs)
            /\ p.diff = p.combo - Histo(p.idx1).bitCost - Histo(p.idx2).bitCost
            /\ queue[1].diff <= p.diff

\* While groups merge in each other's memory, every tile is in the list of one
\* group, and a group holds what its tiles were counted to hold (tileTracker,
\* histogramCombineEntropyBin's spare histogram).
SumOfTiles(tiles) ==
    [c \in Channels |-> MapThenFoldSet(AddPopulations, Empty, LAMBDA t : built[t][c],
                                       LAMBDA S : CHOOSE t \in S : TRUE, tiles)]
TilesTracked ==
    (SkipRemap /\ stage \notin {"build", "done"}) =>
        /\ \A k, l \in DOMAIN histos : k # l => TilesOf(k) \cap TilesOf(l) = {} /\ histos[k] # histos[l]
        /\ \A k \in DOMAIN histos : Histo(k).pop = SumOfTiles(TilesOf(k))

\* In the end a group holds exactly the tiles that are written with it, so that
\* it has a code for every token of theirs, and every tile has a group.
GroupsCoverTokens ==
    stage = "done" =>
        /\ \A t \in Tiles : symbols[t] \in DOMAIN histos
        /\ \A k \in DOMAIN histos : Histo(k).pop = SumOfTiles({t \in Tiles : symbols[t] = k})

=============================================================================
