----------------------------- MODULE TraceCosts ------------------------------
(***************************************************************************)
(* TraceBackwards: the cheapest way to write a picture as single pixels    *)
(* and copies, given what each costs.  costs[i] is the least cost of the   *)
(* pixels up to i, steps[i] the pixels of the last token on that way.      *)
(*                                                                         *)
(* A match of position p, length n, offers to reach every one of its       *)
(* pixels j for base + length cost of j - p.  Instead of updating them all *)
(* the cost manager keeps a list of disjoint intervals, sorted by start,   *)
(* with the cheapest of the offers for each, and serializes them into      *)
(* costs one pixel at a time; short offers, and those that find the list   *)
(* full, are serialized at once.                                           *)
(*                                                                         *)
(* cm is a cost model: costs of literals by colour, of a cache hit, of     *)
(* lengths and of distances (the code's are estimates from a histogram of  *)
(* the first set of references).  offers is history: every offer made.     *)
(***************************************************************************)
EXTENDS HashChain, PlaneCodes, Sequences, Functions

CONSTANTS SkipDistance,        \* kSkipDistance, 10
          IntervalSizeMax,     \* costCacheIntervalSizeMax, 500
          HashBits,            \* 32 bits of hash
          ColorHash(_)         \* pix * kHashMul, of HashBits bits; 0 for 0

(***************************************************************************)
(* The colour cache: a table of recent colours, indexed by the top bits of *)
(* a hash of the colour.  Every slot starts as colour zero, so zero is     *)
(* found in a slot nothing was put in.                                     *)
(***************************************************************************)

NewColorCache(bits) == [k \in 0..2^bits - 1 |-> 0]
CacheKey(bits, c) == ColorHash(c) \div 2^(HashBits - bits)
Insert(cache, bits, c) == [cache EXCEPT ![CacheKey(bits, c)] = c]
Contains(cache, bits, c) == cache[CacheKey(bits, c)] = c

\* The cache after the pixels of the positions from..to of a picture.
InsertPixels(cache, bits, argb, from, to) ==
    LET after[i \in from - 1..to] ==
            IF i = from - 1 THEN cache ELSE Insert(after[i - 1], bits, argb[i])
    IN  IF bits = 0 THEN cache ELSE after[to]

(***************************************************************************)
(* The cost manager                                                        *)
(***************************************************************************)

Infinity == 1000000

UpdateCost(st, i, position, cost) ==
    IF st.costs[i] > cost
    THEN [st EXCEPT !.costs[i] = cost, !.steps[i] = i - position + 1] ELSE st

UpdateCostPerInterval(st, start, end, position, cost) ==
    LET after[i \in start - 1..end - 1] ==
            IF i = start - 1 THEN st ELSE UpdateCost(after[i - 1], i, position, cost)
    IN  after[end - 1]

\* The intervals over pixel i give it their cost; those that end before it are
\* dropped when clean.
UpdateCostAtIndex(st, i, clean) ==
    LET begun == {k \in DOMAIN st.list : st.list[k].start <= i}
        n == Cardinality(begun)
        after[k \in 0..n] ==
            IF k = 0 THEN st
            ELSE IF st.list[k].end <= i THEN after[k - 1]
            ELSE UpdateCost(after[k - 1], i, st.list[k].index, st.list[k].cost)
    IN  [after[n] EXCEPT !.list = SelectSeq(@, LAMBDA iv : ~clean \/ iv.end > i)]

\* mutant: an interval that finds the list full is forgotten
InsertIntervalOrDrop(st, cost, position, start, end) ==
    LET before(iv) == iv.start < start
        new == <<[cost |-> cost, start |-> start, end |-> end, index |-> position]>>
    IN  IF start >= end \/ Len(st.list) >= IntervalSizeMax THEN st
        ELSE [st EXCEPT !.list = SelectSeq(@, before) \o new
                                     \o SelectSeq(@, LAMBDA iv : ~before(iv))]

\* insertInterval and positionOrphanInterval: a place before the first interval
\* that starts later.
InsertInterval(st, cost, position, start, end) ==
    LET k == Cardinality({j \in DOMAIN st.list : st.list[j].start < start})
        new == [cost |-> cost, start |-> start, end |-> end, index |-> position]
    IN  IF start >= end THEN st
        ELSE IF Len(st.list) >= IntervalSizeMax
             THEN UpdateCostPerInterval(st, start, end, position, cost)
        ELSE [st EXCEPT !.list = SubSeq(@, 1, k) \o <<new>> \o SubSeq(@, k + 1, Len(@))]

\* A stretch start..end of an offer of one cost meets the list from its k-th
\* interval on: what is cheaper than an interval takes its place, what is not
\* is cut there.
RECURSIVE Meet(_, _, _, _, _, _)
Meet(st, k, start, end, cost, position) ==
    LET iv == st.list[k]
        done(new, next) ==
            LET placed == InsertInterval(new, cost, position, start, end)
            IN  [st |-> placed, at |-> next + Len(placed.list) - Len(new.list)]
        worse == InsertInterval(st, cost, position, start, iv.start)
        here == k + Len(worse.list) - Len(st.list)
        ended == [st EXCEPT !.list[k].end = start]
        split == InsertInterval(ended, iv.cost, iv.index, end, iv.end)
    IN  IF k > Len(st.list) \/ iv.start >= end THEN done(st, k)
        ELSE IF start >= iv.end THEN Meet(st, k + 1, start, end, cost, position)
        ELSE IF cost >= iv.cost
             THEN IF iv.end >= end THEN [st |-> worse, at |-> here]
                  ELSE Meet(worse, here + 1, iv.end, end, cost, position)
        ELSE IF start <= iv.start
             THEN IF iv.end <= end
                  THEN Meet([st EXCEPT !.list = SubSeq(@, 1, k - 1) \o SubSeq(@, k + 1, Len(@))],
                            k, start, end, cost, position)
                  ELSE done([st EXCEPT !.list[k].start = end], k)
        ELSE IF end < iv.end THEN done(split, k + 1)
        ELSE Meet(ended, k + 1, start, end, cost, position)

\* The stretches of lengths of equal cost: their first lengths less one.
Stretches(cm) == {k \in 0..MaxLength - 1 : k = 0 \/ cm.len[k] # cm.len[k - 1]}

RECURSIVE PushStretches(_, _, _, _, _, _, _)
PushStretches(st, k, first, base, position, length, cm) ==
    LET later == {s \in Stretches(cm) : s > first}
        next == IF later = {} THEN MaxLength ELSE CHOOSE s \in later : \A t \in later : s <= t
        end == position + Least(next, length)
        met == Meet(st, k, position + first, end, base + cm.len[first], position)
    IN  IF first >= length THEN st
        ELSE PushStretches(met.st, met.at, next, base, position, length, cm)

PushInterval(old, base, position, length, cm) ==
    LET st == [old EXCEPT !.offers = @ \cup {[base |-> base, position |-> position, length |-> length]}]
        after[k \in -1..length - 1] ==
            IF k = -1 THEN st
            ELSE UpdateCost(after[k - 1], position + k, position, base + cm.len[k])
    IN  IF length < SkipDistance THEN after[length - 1]
        ELSE PushStretches(st, 1, 0, base, position, length, cm)

\* addSingleLiteralWithCostModel.  A hit leaves the cache alone, which already
\* has the colour there.
AddLiteral(st, argb, i, bits, before, cm) ==
    LET hit == bits > 0 /\ Contains(st.cache, bits, argb[i])
        cost == before + (IF hit THEN cm.hit ELSE cm.lit[argb[i]])
        seen == IF bits = 0 \/ hit THEN st
                ELSE [st EXCEPT !.cache = Insert(@, bits, argb[i])]
    IN  [UpdateCost(seen, i, i, cost) EXCEPT !.singles[i] = cost]

\* The last of the pixels from i on with the offset of i, up to reach + 1.
LastWithOffset(hc, i, reach) ==
    CHOOSE j \in i..reach + 1 :
        /\ \A m \in i..j : hc[m].dist = hc[i].dist
        /\ j <= reach => hc[j + 1].dist # hc[i].dist

\* A match at the offset of the pixel before: as long as it ends where the
\* last offer ends it adds nothing; else the offer is made from the last of
\* the pixels with this offset.
Extend(st, hc, i, cm) ==
    LET reach == IF st.constant THEN i - 1 + st.lenPrev - 1 ELSE st.reach
        j == LastWithOffset(hc, i, reach)
        up == UpdateCostAtIndex(UpdateCostAtIndex(st, j - 1, FALSE), j, FALSE)
    IN  IF i + hc[i].len - 1 > reach
        THEN [PushInterval(up, up.costs[j - 1] + st.offsetCost, j, hc[j].len, cm)
                 EXCEPT !.constant = FALSE, !.reach = j + hc[j].len - 1]
        ELSE [st EXCEPT !.constant = FALSE, !.reach = reach]

Offer(st, hc, i, xsize, before, cm) ==
    LET cost == cm.dist[DistanceToPlaneCode(xsize, hc[i].dist)]
    IN  IF hc[i].len < 2 THEN st
        ELSE IF hc[i].dist # st.offsetPrev
             THEN [PushInterval(st, before + cost, i, hc[i].len, cm)
                      EXCEPT !.offsetCost = cost, !.constant = TRUE]
        ELSE Extend(st, hc, i, cm)

TracePixel(st, argb, hc, i, xsize, bits, cm) ==
    LET offered == Offer(AddLiteral(st, argb, i, bits, st.costs[i - 1], cm),
                         hc, i, xsize, st.costs[i - 1], cm)
    IN  [UpdateCostAtIndex(offered, i, TRUE)
            EXCEPT !.offsetPrev = hc[i].dist, !.lenPrev = hc[i].len]

\* backwardReferencesHashChainDistanceOnly.
DistanceOnly(argb, hc, size, xsize, bits, cm) ==
    LET blank == [p \in 0..size - 1 |-> Infinity]
        start == [costs |-> blank, steps |-> [p \in 0..size - 1 |-> 0], singles |-> blank,
                  list |-> <<>>, cache |-> NewColorCache(bits), offers |-> {},
                  offsetPrev |-> -1, lenPrev |-> -1, offsetCost |-> 0,
                  constant |-> FALSE, reach |-> 0]
        after[i \in 0..size - 1] ==
            IF i = 0 THEN AddLiteral(start, argb, 0, bits, 0, cm)
            ELSE TracePixel(after[i - 1], argb, hc, i, xsize, bits, cm)
    IN  after[size - 1]

\* traceBackwards: the steps from the last pixel to the first, in order.
ChosenPath(steps, size) ==
    LET path[c \in -1..size - 1] ==
            IF c = -1 THEN <<>> ELSE Append(path[c - steps[c]], steps[c])
    IN  path[size - 1]

\* What the costs have to be: of a pixel, the least of writing it alone and of
\* the offers that reach it.
LeastOffers(st, cm) ==
    [i \in DOMAIN st.costs |->
        LET over == {o \in st.offers : o.position <= i /\ i < o.position + o.length}
            costs == {st.singles[i]} \cup {o.base + cm.len[i - o.position] : o \in over}
        IN  CHOOSE c \in costs : \A d \in costs : c <= d]

=============================================================================
