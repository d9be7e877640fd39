----------------------------- MODULE BackwardRefs ----------------------------
(***************************************************************************)
(* The ways of writing a picture as tokens: pixels, indices of the colour  *)
(* cache and copies of earlier pixels.  len is the number of pixels of a   *)
(* token, v its colour, index or distance.                                 *)
(***************************************************************************)
EXTENDS TraceCosts

CONSTANT MinLength     \* minLength, 4

LiteralPixel(argb) == [mode |-> "literal", len |-> 1, v |-> argb]
CachePixel(idx) == [mode |-> "cache", len |-> 1, v |-> idx]
CopyPixel(length, distance) == [mode |-> "copy", len |-> length, v |-> distance]

\* BackwardReferencesLz77 takes every match of MinLength pixels.  The first
\* references are all made without a cache.
Lz77(argb, size, hc) ==
    LET from[i \in 0..size] ==
            IF i = size THEN <<>>
            ELSE IF hc[i].len >= MinLength
                 THEN <<CopyPixel(hc[i].len, hc[i].dist)>> \o from[i + hc[i].len]
            ELSE <<LiteralPixel(argb[i])>> \o from[i + 1]
    IN  from[0]

\* BackwardReferencesRle: only runs, as a pixel and a copy at distance one.
Rle(argb, size) ==
    LET run(i) == Least(RunFrom(argb, size, i), MaxLength)
        from[i \in 0..size] ==
            IF i = size THEN <<>>
            ELSE IF run(i) >= MinLength
                 THEN <<LiteralPixel(argb[i]), CopyPixel(run(i) - 1, 1)>> \o from[i + run(i)]
            ELSE <<LiteralPixel(argb[i])>> \o from[i + 1]
    IN  from[0]

WindowOffsetsMaxSize == 32

\* The offsets of the plane codes up to 32 that this width has, in their order.
WindowOffsets(xsize) ==
    LET near == {y * xsize + x : y \in 0..6, x \in -6..6} \ {0}
        offset(code) == {o \in near : o > 0 /\ DistanceToPlaneCode(xsize, o) = code}
        from[code \in 1..WindowOffsetsMaxSize + 1] ==
            IF code > WindowOffsetsMaxSize THEN <<>>
            ELSE IF offset(code) = {} THEN from[code + 1]
            ELSE <<CHOOSE o \in offset(code) : TRUE>> \o from[code + 1]
    IN  from[1]

\* Those whose pixel is not next to one that the pixel before reached.
WindowOffsetsNew(offsets) ==
    SelectSeq(offsets, LAMBDA o : \A j \in DOMAIN offsets : o # offsets[j] + 1)

\* The length of the match of i at an offset, a run of equal pixels at a time.
BoxLength(argb, size, counts, i, offset) ==
    LET from[j \in i..size - 1] ==
            LET n == counts[j] IN
            IF counts[j - offset] # n THEN Least(counts[j - offset], n)
            ELSE IF j + n >= size THEN n
            ELSE IF argb[j + n - offset] # argb[j + n] THEN n
            ELSE n + from[j + n]
    IN  from[i]

\* The longest match of i among offsets, if it beats what is known already.
BoxSearch(argb, size, counts, i, offsets, known) ==
    LET try(best, o) ==
            IF best.len >= MaxLength \/ i < o THEN best
            ELSE IF argb[i - o] # argb[i] THEN best
            ELSE LET len == BoxLength(argb, size, counts, i, o)
                 IN  IF len > best.len THEN [dist |-> o, len |-> Least(len, MaxLength)] ELSE best
        after[k \in 0..Len(offsets)] == IF k = 0 THEN known ELSE try(after[k - 1], offsets[k])
    IN  after[Len(offsets)]

\* BackwardReferencesLz77Box: only matches near the pixel.  The one of the
\* pixel before, less a pixel, is known, and only new offsets can beat it.
BoxMatches(argb, size, xsize, hc) ==
    LET counts == [i \in 0..size - 1 |-> Least(RunFrom(argb, size, i), MaxLength)]
        offsets == WindowOffsets(xsize)
        fresh == WindowOffsetsNew(offsets)
        inWindow(o) == \E k \in DOMAIN offsets : offsets[k] = o
        found(i, prev) ==
            IF hc[i].len >= MaxLength /\ inWindow(hc[i].dist) THEN hc[i]
            ELSE IF prev.len > 1 /\ prev.len < MaxLength
                 THEN BoxSearch(argb, size, counts, i, fresh, [prev EXCEPT !.len = @ - 1])
            ELSE BoxSearch(argb, size, counts, i, offsets, NoMatch)
        kept(m) == IF m.len <= MinLength THEN NoMatch ELSE m
        match[i \in 0..size - 1] == IF i = 0 THEN NoMatch ELSE kept(found(i, match[i - 1]))
    IN  match

\* BackwardRefsWithLocalCache: pixels the cache has become indices.
WithLocalCache(refs, argb, bits) ==
    LET over(s, t) ==
            IF t.mode # "literal"
            THEN [s EXCEPT !.out = Append(@, t), !.pos = @ + t.len,
                           !.cache = InsertPixels(@, bits, argb, s.pos, s.pos + t.len - 1)]
            ELSE IF Contains(s.cache, bits, t.v)
                 THEN [s EXCEPT !.out = Append(@, CachePixel(CacheKey(bits, t.v))), !.pos = @ + 1]
            ELSE [s EXCEPT !.out = Append(@, t), !.pos = @ + 1,
                           !.cache = Insert(@, bits, t.v)]
        after[k \in 0..Len(refs)] ==
            IF k = 0 THEN [out |-> <<>>, pos |-> 0, cache |-> NewColorCache(bits)]
            ELSE over(after[k - 1], refs[k])
    IN  IF bits = 0 THEN refs ELSE after[Len(refs)].out

\* backwardReferencesHashChainFollowChosenPath: a step of more than a pixel is
\* a copy at the offset the match of its first pixel has.
FollowChosenPath(argb, bits, path, hc) ==
    LET single(s) ==
            IF bits > 0 /\ Contains(s.cache, bits, argb[s.pos])
            THEN [s EXCEPT !.out = Append(@, CachePixel(CacheKey(bits, argb[s.pos]))), !.pos = @ + 1]
            ELSE [s EXCEPT !.out = Append(@, LiteralPixel(argb[s.pos])), !.pos = @ + 1,
                           !.cache = InsertPixels(@, bits, argb, s.pos, s.pos)]
        copy(s, n) ==
            [s EXCEPT !.out = Append(@, CopyPixel(n, hc[s.pos].dist)), !.pos = @ + n,
                      !.cache = InsertPixels(@, bits, argb, s.pos, s.pos + n - 1)]
        after[k \in 0..Len(path)] ==
            IF k = 0 THEN [out |-> <<>>, pos |-> 0, cache |-> NewColorCache(bits)]
            ELSE IF path[k] = 1 THEN single(after[k - 1]) ELSE copy(after[k - 1], path[k])
    IN  after[Len(path)].out

\* BackwardReferences2DLocality.
Locality(refs, xsize) ==
    [k \in DOMAIN refs |->
        IF refs[k].mode = "copy" THEN [refs[k] EXCEPT !.v = DistanceToPlaneCode(xsize, @)]
        ELSE refs[k]]

\* CalculateBestCacheSize: the size whose histograms have the least entropy is
\* any, but none is used at a low quality.
BestCacheBits(quality, max) == IF quality <= 25 THEN {0} ELSE 0..max

=============================================================================
