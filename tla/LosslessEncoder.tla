--------------------------- MODULE LosslessEncoder ---------------------------
(***************************************************************************)
(* encodeStream of the lossless encoder, from the transformed picture to   *)
(* the stream of symbols, and decodeImageData, which reads it back.        *)
(*                                                                         *)
(* The references are kept in three buffers that the phases fill and swap: *)
(* best and candidate name the slices two of the encoder's fields hold,    *)
(* trace the third.  Whether a new set of references is cheaper is left    *)
(* open, as is the size of the colour cache.  The histogram image is       *)
(* written with the same match finder and the candidate buffer while best  *)
(* waits to be written.                                                    *)
(*                                                                         *)
(* The stream is abstract: the token, with the group of codes it is        *)
(* written with.  A pixel of a group in which every code has one symbol    *)
(* takes no bits and leaves nothing in the stream.                         *)
(***************************************************************************)
EXTENDS BackwardRefs

CONSTANTS
  Pictures,       \* the inputs: argb, width, height, quality, procs, cm and
                  \* tiles, the symbols GetHistoImageSymbols gives
  CacheBitsMax,   \* enc.cacheBits
  HistoBits,      \* enc.histogramBits
  MaxHuffmanBits, \* the coarsest tiling, 9
  Stale           \* what a reused buffer still holds

VARIABLES
  pic,       \* the picture
  phase,     \* where encodeStream is
  hc,        \* hashChain.OffsetLength
  busy,      \* the workers of fillParallel that have not run yet
  bufs,      \* the three slices of tokens
  best, candidate, trace,   \* which slice each BackwardRefs has
  bestType,  \* bestLz77Type
  cacheBits,
  traced,    \* the last run of the cost manager (history)
  symbols,   \* the group of every tile
  histoBits,
  stream,    \* [sub |-> the histogram image, main |-> the picture]
  dec        \* the decoder

refsVars == <<bufs, best, candidate, trace, bestType, cacheBits, traced>>
vars == <<pic, phase, hc, busy, refsVars, symbols, histoBits, stream, dec>>

Size == pic.width * pic.height
SubSampleSize(n, bits) == (n + 2^bits - 1) \div 2^bits
LowEffort(quality) == quality < 25

-----------------------------------------------------------------------------
\* The decoder: what it reads, where it is and what it wrote.  lastCached
\* counts the pixels that went into its cache.
Idle == [state |-> "idle"]
Decoding(items, groups, trivial, xsize, n, bits, level) ==
    [state |-> level, items |-> items, groups |-> groups, trivial |-> trivial, xsize |-> xsize,
     size |-> n, bits |-> bits, data |-> [i \in 0..n - 1 |-> 0], pos |-> 0,
     group |-> 0, lastCached |-> 0, cache |-> NewColorCache(bits)]

Init ==
    /\ pic \in Pictures
    /\ phase = "fill"
    /\ hc = [p \in 0..Size - 1 |-> NoMatch]
    /\ busy = {}
    /\ bufs = [b \in 1..3 |-> Stale]
    /\ best = 1 /\ candidate = 2 /\ trace = 3
    /\ bestType = "none" /\ cacheBits = 0
    /\ traced = [offers |-> {}]
    /\ symbols = <<>> /\ histoBits = HistoBits
    /\ stream = [sub |-> <<>>, main |-> <<>>]
    /\ dec = Idle

-----------------------------------------------------------------------------
\* HashChain.Fill.
Parallel == pic.procs > 1 /\ Size > ParallelSize /\ ~LowEffort(pic.quality)
Matches(argb, size, xsize, quality) ==
    IF size <= 2 THEN [p \in 0..size - 1 |-> NoMatch]
    ELSE FillSerial(argb, size, xsize, ItersFor(quality), GetWindowSize(quality, xsize),
                    LowEffort(quality))

Fill ==
    /\ phase = "fill" /\ (Size <= 2 \/ ~Parallel)
    /\ hc' = Matches(pic.argb, Size, pic.width, pic.quality)
    /\ phase' = "standard"
    /\ UNCHANGED <<pic, busy, refsVars, symbols, histoBits, stream, dec>>

\* The chains are copied, and the workers search them.
StartWorkers ==
    /\ phase = "fill" /\ Size > 2 /\ Parallel
    /\ busy' = 0..NumWorkers(Size, pic.procs) - 1
    /\ phase' = "workers"
    /\ UNCHANGED <<pic, hc, refsVars, symbols, histoBits, stream, dec>>

FillRange(w) ==
    /\ phase = "workers" /\ w \in busy
    /\ LET chain == Chains(pic.argb, Size)
       IN  hc' = [p \in 0..Size - 1 |->
               IF p \in Positions(Size, pic.procs, w)
               THEN Search(chain, pic.argb, Size, pic.width, p, ItersFor(pic.quality),
                           GetWindowSize(pic.quality, pic.width), FALSE)
               ELSE hc[p]]
    /\ busy' = busy \ {w}
    /\ UNCHANGED <<pic, phase, refsVars, symbols, histoBits, stream, dec>>

JoinWorkers ==
    /\ phase = "workers" /\ busy = {}
    /\ hc' = ExtendLeft(hc, pic.argb, Size)
    /\ phase' = "standard"
    /\ UNCHANGED <<pic, busy, refsVars, symbols, histoBits, stream, dec>>

-----------------------------------------------------------------------------
\* GetBackwardReferences.  A phase fills the slice of candidate and, if that
\* is cheaper, swaps it with the one of best.
Try(refs, type, cheaper) ==
    /\ bufs' = [bufs EXCEPT ![candidate] = refs]
    /\ IF cheaper
       THEN best' = candidate /\ candidate' = best /\ bestType' = type
       ELSE UNCHANGED <<best, candidate, bestType>>
    /\ UNCHANGED <<pic, hc, busy, trace, cacheBits, traced, symbols, histoBits, stream, dec>>

\* The first references are cheaper than none.
Standard ==
    /\ phase = "standard"
    /\ Try(Lz77(pic.argb, Size, hc), "standard", TRUE)
    /\ phase' = "rle"

TryRle ==
    /\ phase = "rle"
    /\ \E cheaper \in BOOLEAN : Try(Rle(pic.argb, Size), "rle", cheaper)
    /\ phase' = IF pic.quality >= 90 THEN "box" ELSE "cache"

TryBox ==
    /\ phase = "box"
    /\ \E cheaper \in BOOLEAN :
        Try(Lz77(pic.argb, Size, BoxMatches(pic.argb, Size, pic.width, hc)), "box", cheaper)
    /\ phase' = "cache"

\* The size of the cache is fixed at a quality of up to 75, searched above it.
ApplyCache ==
    /\ phase = "cache"
    /\ cacheBits' \in IF pic.quality <= 75 /\ CacheBitsMax > 0 THEN {CacheBitsMax}
                      ELSE BestCacheBits(pic.quality, CacheBitsMax)
    /\ bufs' = [bufs EXCEPT ![best] = WithLocalCache(@, pic.argb, cacheBits')]
    /\ phase' = IF bestType \in {"standard", "box"} /\ pic.quality >= 90 THEN "trace" ELSE "locality"
    /\ UNCHANGED <<pic, hc, busy, best, candidate, trace, bestType, traced,
                   symbols, histoBits, stream, dec>>

TraceBackwards ==
    /\ phase = "trace"
    /\ traced' = DistanceOnly(pic.argb, hc, Size, pic.width, cacheBits, pic.cm)
    /\ bufs' = [bufs EXCEPT ![trace] =
           FollowChosenPath(pic.argb, cacheBits, ChosenPath(traced'.steps, Size), hc)]
    /\ \/ best' = trace /\ trace' = best
       \/ UNCHANGED <<best, trace>>
    /\ phase' = "locality"
    /\ UNCHANGED <<pic, hc, busy, candidate, bestType, cacheBits, symbols, histoBits, stream, dec>>

ConvertDistances ==
    /\ phase = "locality"
    /\ bufs' = [bufs EXCEPT ![best] = Locality(@, pic.width)]
    /\ traced' = [offers |-> {}]
    /\ phase' = "histograms"
    /\ UNCHANGED <<pic, hc, busy, best, candidate, trace, bestType, cacheBits,
                   symbols, histoBits, stream, dec>>

-----------------------------------------------------------------------------
\* optimizeSampling: a coarser tiling that gives every tile of the finer one
\* the same symbol.  Pairs of equal rows first, then uniform columns.
TilesX(bits) == SubSampleSize(pic.width, bits)
TilesY(bits) == SubSampleSize(pic.height, bits)

RowsPair(image, bits) ==
    LET w == TilesX(HistoBits)
        side == 2^(bits - HistoBits)
    IN  \A y \in {2 * side * k : k \in 0..TilesY(HistoBits)} :
            y + side < TilesY(HistoBits) =>
                \A x \in 0..w - 1 : image[y * w + x] = image[(y + side) * w + x]

\* mutant: only the first row of tiles is looked at
ColumnsUniformOnce(image, bits) ==
    LET side == 2^(bits - HistoBits)
    IN  \A x \in 0..TilesX(HistoBits) - 1 : image[x] = image[side * (x \div side)]

ColumnsUniform(image, bits) ==
    LET w == TilesX(HistoBits)
        side == 2^(bits - HistoBits)
    IN  \A y \in 0..TilesY(HistoBits) - 1, x \in 0..w - 1 :
            image[y * w + x] = image[y * w + side * (x \div side)]

OptimizeSampling(image) ==
    LET tallest == CHOOSE b \in HistoBits..MaxHuffmanBits :
                       /\ \A c \in HistoBits..b - 1 : RowsPair(image, c)
                       /\ b < MaxHuffmanBits => ~RowsPair(image, b)
        uniform == {b \in HistoBits..tallest : ColumnsUniform(image, b)}
    IN  CHOOSE b \in uniform : \A c \in uniform : c <= b

Subsample(image, bits) ==
    LET side == 2^(bits - HistoBits)
        w == TilesX(bits)
    IN  [i \in 0..w * TilesY(bits) - 1 |->
            image[side * ((i \div w) * TilesX(HistoBits) + (i % w))]]

Groups == {pic.tiles[t] : t \in DOMAIN pic.tiles}

\* encodeSubImage: the histogram image goes through the match finder of the
\* picture and the candidate slice.  Its own references swap with a slice of
\* their own, never with best's.
WriteHistoImage ==
    /\ phase = "histograms"
    /\ IF Cardinality(Groups) > 1
       THEN LET bits == OptimizeSampling(pic.tiles)
                image == Subsample(pic.tiles, bits)
                size == TilesX(bits) * TilesY(bits)
                quality == IF pic.quality < 2 THEN 1 ELSE pic.quality \div 2
                found == Matches(image, size, TilesX(bits), quality)
            IN  \E refs \in {Lz77(image, size, found), Rle(image, size)} :
                    /\ histoBits' = bits /\ symbols' = image
                    /\ hc' = [p \in DOMAIN hc \cup 0..size - 1 |->
                                 IF p < size THEN found[p] ELSE hc[p]]
                    /\ bufs' = [bufs EXCEPT ![candidate] = Locality(refs, TilesX(bits))]
                    /\ stream' = [stream EXCEPT !.sub = Locality(refs, TilesX(bits))]
       ELSE /\ symbols' = pic.tiles
            /\ UNCHANGED <<histoBits, hc, bufs, stream>>
    /\ phase' = "store"
    /\ UNCHANGED <<pic, busy, best, candidate, trace, bestType, cacheBits, traced, dec>>

\* The tile of a position.
GroupAt(syms, bits, pos, xsize) ==
    LET tile == ((pos \div xsize) \div 2^bits) * SubSampleSize(xsize, bits)
                    + (pos % xsize) \div 2^bits
    IN  IF tile \in DOMAIN syms THEN syms[tile] ELSE 0

\* The tokens with the position each starts at.
Placed(refs) ==
    LET pos[k \in 1..Len(refs)] == IF k = 1 THEN 0 ELSE pos[k - 1] + refs[k - 1].len
    IN  [k \in DOMAIN refs |-> [token |-> refs[k], pos |-> pos[k]]]

\* The groups with one symbol in every code, and its pixel: nothing but one
\* literal is written with them.
TrivialGroups(refs, groupOf) ==
    {<<groupOf[p.pos], p.token.v>> :
        p \in {q \in {Placed(refs)[k] : k \in DOMAIN refs} :
                  /\ q.token.mode = "literal"
                  /\ \A j \in DOMAIN refs :
                        groupOf[Placed(refs)[j].pos] = groupOf[q.pos] => refs[j] = q.token}}

Coded(refs, groupOf) ==
    LET trivial == {t[1] : t \in TrivialGroups(refs, groupOf)}
        items == [k \in DOMAIN refs |-> [token |-> refs[k], group |-> groupOf[Placed(refs)[k].pos]]]
    IN  SelectSeq(items, LAMBDA i : i.group \notin trivial)

MainGroup == [pos \in 0..Size - 1 |-> IF Cardinality(Groups) > 1 THEN GroupAt(symbols, histoBits, pos, pic.width) ELSE 0]
OneGroup == [pos \in 0..Size - 1 |-> 0]

\* storeImageData, after the codes of the groups.
StoreImageData ==
    /\ phase = "store"
    /\ stream' = [stream EXCEPT !.main = Coded(bufs[best], MainGroup)]
    /\ phase' = "written"
    /\ UNCHANGED <<pic, hc, busy, refsVars, symbols, histoBits, dec>>

-----------------------------------------------------------------------------
\* readHuffmanCodes reads the histogram image as a picture of its own, with
\* one group and no cache, before the picture.
DecodeHistoImage ==
    /\ phase = "written" /\ dec.state = "idle" /\ Cardinality(Groups) > 1
    /\ LET n == TilesX(histoBits) * TilesY(histoBits)
       IN  dec' = Decoding(Coded(stream.sub, OneGroup), [t \in 0..0 |-> 0],
                           TrivialGroups(stream.sub, OneGroup), TilesX(histoBits), n, 0, "sub")
    /\ UNCHANGED <<pic, phase, hc, busy, refsVars, symbols, histoBits, stream>>

Ended(d) == d.pos = d.size

DecodePicture ==
    /\ phase = "written"
    /\ IF Cardinality(Groups) > 1 THEN dec.state = "sub" /\ Ended(dec) ELSE dec.state = "idle"
    /\ dec' = Decoding(stream.main,
                       IF Cardinality(Groups) > 1 THEN dec.data ELSE [t \in 0..0 |-> 0],
                       TrivialGroups(bufs[best], MainGroup), pic.width, Size, cacheBits, "main")
    /\ UNCHANGED <<pic, phase, hc, busy, refsVars, symbols, histoBits, stream>>

Reading == dec.state \in {"sub", "main"} /\ ~Ended(dec)

\* getHTreeGroup; a picture with one group has a mask of all ones, and fetches
\* its group where it may.
DecoderBits == IF dec.state = "main" /\ Cardinality(Groups) > 1 THEN histoBits ELSE 20
HTreeGroup(pos) == GroupAt(dec.groups, DecoderBits, pos, dec.xsize)
Column(pos) == pos % dec.xsize

\* The group to read with: fetched anew at the left edge of a tile.
Current == IF Column(dec.pos) % 2^DecoderBits = 0 THEN HTreeGroup(dec.pos) ELSE dec.group
IsTrivial(g) == \E t \in dec.trivial : t[1] = g

\* The pixels up to pos go into the cache at the end of a row, ...
Flushed(d, pos) ==
    [d EXCEPT !.cache = InsertPixels(@, d.bits, d.data, d.lastCached, pos - 1), !.lastCached = pos]
WritePixel(d, argb) ==
    LET written == [d EXCEPT !.data[d.pos] = argb, !.pos = @ + 1]
    IN  IF Column(d.pos) = d.xsize - 1 THEN Flushed(written, d.pos + 1) ELSE written

TakesToken(mode) ==
    /\ Reading /\ ~IsTrivial(Current)
    /\ dec.items # <<>> /\ Head(dec.items).token.mode = mode

\* A symbol is read with the codes it was written with, or is another.
Next1 == [dec EXCEPT !.items = Tail(@), !.group = Current,
                     !.state = IF Head(dec.items).group = Current THEN @ ELSE "garbled"]

DecodeTrivial ==
    /\ Reading /\ IsTrivial(Current)
    /\ dec' = WritePixel([dec EXCEPT !.group = Current],
                         (CHOOSE t \in dec.trivial : t[1] = Current)[2])
    /\ UNCHANGED <<pic, phase, hc, busy, refsVars, symbols, histoBits, stream>>

DecodeLiteral ==
    /\ TakesToken("literal")
    /\ dec' = WritePixel(Next1, Head(dec.items).token.v)
    /\ UNCHANGED <<pic, phase, hc, busy, refsVars, symbols, histoBits, stream>>

\* mutant: the pixels not yet in the cache are left out
DecodeCachedUnflushed ==
    /\ TakesToken("cache")
    /\ dec' = WritePixel(Next1, dec.cache[Head(dec.items).token.v])
    /\ UNCHANGED <<pic, phase, hc, busy, refsVars, symbols, histoBits, stream>>

\* ... before a look into it ...
DecodeCached ==
    /\ TakesToken("cache")
    /\ LET d == Flushed(Next1, dec.pos)
       IN  dec' = WritePixel(d, d.cache[Head(dec.items).token.v])
    /\ UNCHANGED <<pic, phase, hc, busy, refsVars, symbols, histoBits, stream>>

\* copyBlock32: all at once, or a repeated pixel, or a block that doubles.
CopyBlock(data, pos, dist, length) ==
    LET doubled[i \in pos..pos + length - 1] ==
            IF i < pos + dist THEN data[i - dist]
            ELSE LET n == CHOOSE m \in {dist * 2^k : k \in 0..10} :
                              m <= i - pos /\ i - pos < 2 * m
                 IN  doubled[i - n]
    IN  [i \in DOMAIN data |->
            IF i \notin pos..pos + length - 1 THEN data[i]
            ELSE IF dist >= length THEN data[i - dist]
            ELSE IF dist = 1 THEN data[pos - 1] ELSE doubled[i]]

\* ... and after a copy, which may end inside a tile.
DecodeCopy ==
    /\ TakesToken("copy")
    /\ LET length == GetCopyDistance(PrefixEncode(Head(dec.items).token.len))
           code == GetCopyDistance(PrefixEncode(Head(dec.items).token.v))
           dist == PlaneCodeToDistance(dec.xsize, code)
           to == dec.pos + length
           copied == [Next1 EXCEPT !.data = CopyBlock(@, dec.pos, dist, length), !.pos = to,
                          !.group = IF Column(to) % 2^DecoderBits # 0 THEN HTreeGroup(to) ELSE @]
       IN  dec' = IF dec.pos < dist \/ dec.size - dec.pos < length
                  THEN [dec EXCEPT !.state = "garbled"] ELSE Flushed(copied, to)
    /\ UNCHANGED <<pic, phase, hc, busy, refsVars, symbols, histoBits, stream>>

Done == phase = "written" /\ dec.state = "main" /\ Ended(dec) /\ UNCHANGED vars

Next ==
    \/ Fill \/ StartWorkers \/ (\E w \in busy : FillRange(w)) \/ JoinWorkers
    \/ Standard \/ TryRle \/ TryBox \/ ApplyCache \/ TraceBackwards \/ ConvertDistances
    \/ WriteHistoImage \/ StoreImageData
    \/ DecodeHistoImage \/ DecodePicture
    \/ DecodeTrivial \/ DecodeLiteral \/ DecodeCached \/ DecodeCopy
    \/ Done

Spec == Init /\ [][Next]_vars

-----------------------------------------------------------------------------
\* Every match the chains found is one: from the first pixel of the picture
\* on, as long as it says, and no longer than a token can say.
MatchesExact ==
    phase \in {"standard", "locality"} =>
        \A p \in 0..Size - 1 :
            hc[p].len > 0 =>
                /\ hc[p].dist \in 1..p /\ hc[p].len <= MaxLength /\ p + hc[p].len <= Size
                /\ \A k \in 0..hc[p].len - 1 : pic.argb[p + k] = pic.argb[p - hc[p].dist + k]

\* The list of intervals loses no offer and makes none up: the cost of every
\* pixel is the least of those offered to it.
IntervalsExact ==
    phase = "locality" /\ traced.offers # {} => traced.costs = LeastOffers(traced, pic.cm)

\* The coarser tiling gives every pixel the group its tile had.
SamplingKeeps ==
    phase = "written" =>
        \A pos \in 0..Size - 1 :
            GroupAt(symbols, histoBits, pos, pic.width)
                = GroupAt(pic.tiles, HistoBits, pos, pic.width)

\* The decoder stays in step with the encoder, token by token and group by
\* group, and ends with the picture.
DecodedIsSource ==
    /\ dec.state # "garbled"
    /\ dec.state = "main" =>
        \A i \in 0..dec.pos - 1 : dec.data[i] = pic.argb[i]

=============================================================================
