# WebP in TLA+

This directory holds a verification development for the pure Go WebP codec in
`src/`: TLA+ modules that model its concurrent and stateful parts and the
algorithms in which a writer and a reader must agree, TLC configurations that
check them on small instances, and TLAPS proofs of what holds for every
instance. Paths below are relative to the repository; line numbers are those of
the modelled commit. `PROJECT.json` maps every definition to the lines it
stands for and lists the hazards of the code, each at its line with the
properties that cover it.

## 1. Inventory

### The parts and how they meet

```
 webp.Encode/Decode (webp.go, encode.go)          cmd/gwebp
      |            |                |
      v            v                v
 internal/lossy  internal/lossless  internal/container, mux  <---  animation
      |            |                                                  |
      +--- internal/bitio, internal/dsp, sharpyuv                     |
      +---------------- function values (SetDecodeFunc, FrameEncoderFunc)
```

Calls go downwards; `animation` reaches the codecs through function variables
that `webp.go` sets. Encoders and decoders of both codecs come from pools
(`sync.Pool`) and carry arrays from one picture to the next. Nothing is
persisted, so there is no recovery after a crash. What goroutines share is
listed per component.

| Component | State | Operations | What is hard | What makes it correct |
|---|---|---|---|---|
| Row pipeline of the lossy encoder (`internal/lossy/encode_parallel.go`) | `rowSync` (an atomic progress counter, a waiter count, a mutex and a condition variable per row), `nextRow`, top contexts, `mbInfo`, tokens, `parallelPool` | `encodeFrameParallel`, `encodeRow`, `waitFor`, `signal`, `recordAllTokens`, `getParallelState` | goroutines hand pixels, modes and non-zero flags to the row below without a lock; the sleep/wake protocol has a lock-free fast path; a pooled state carries the counters of another frame | a macroblock reads what the serial encoder would read; no race; every frame ends |
| Passes of the lossy encoder (`encode.go`, `encode_frame.go`, `encode_iterator.go`, `encode_token.go`, `encode_proba.go`, `encode_syntax.go`) | quantizers, probability tables, token buffer and marks, source planes that are overwritten with reconstruction, rate control | `EncodeFrame`, `statLoop`, `encodeFrame`, `adjustQuantForTarget`, `rerecordAllTokens`, `emitFrame` | the header is written last, from state that later steps may have changed | header and tokens belong together; each pass starts from the source; each partition holds its rows |
| Lossy encoder lifecycle (`encode.go`) | `encoderPool`, planes | `NewEncoder`, `resetForReuse`, import with parallel chroma workers, `Release` | reuse of buffers of another size | nothing of the former picture is read |
| Segment analysis (`encode_analysis.go`) | complexity per macroblock, k-means centres, segment header | `analysis`, `setSegmentParams`, `simplifySegments` | segments that become equal are merged and the map renumbered | the header describes the quantizers that are used |
| Mode decision, quantization, trellis (`encode_frame.go`, `encode_quant.go`, `encode_trellis.go`) | per macroblock decisions | `pickBestMode`, `quantizeBlock`, `TrellisQuantize` | numerical | chosen path is minimal |
| Coefficient tokens (`encode_token.go`, `encode_proba.go`, `decode_mb.go`) | token pages, statistics, non-zero contexts | `RecordCoeffs`, `collectCoeffStats`, `getCoeffsInline` | three walks over a block that must take the same branches with the same contexts | the decoder reads what was recorded, the statistics count it |
| Lossy decoder (`decode*.go`) | partitions, contexts of modes and coefficients, caches of delayed filtering | header parsing, `parseIntraModeRow`, `parseResiduals`, `reconstructRow`, `doFilter`, row output | truncated data, filter delay across rows, a pooled decoder that keeps arrays | each macroblock is rebuilt as encoded, filtered once with its strength and output once |
| Alpha plane (`alpha.go`) | filters, level map | `EncodeAlpha`, `DecodeAlpha` | choice among methods, level reduction | round trip |
| Bit I/O (`internal/bitio`) | bool coder range/value/pending bytes; 64 bit windows | `PutBit`, `Flush`, `GetBit`, `ReadBits` | carries into written bytes, refill at the end | what is read is what was written |
| Lossless encoder, references (`encode_backward.go`, `hashchain.go`, `colorcache.go`) | hash chain, three reference buffers that are swapped, interval list of the cost manager, colour cache | match search (also with several goroutines), LZ77/RLE/box references, cost-based references | workers extend matches over each other's borders; a list of intervals replaces the cost of every pixel; encoder and decoder fill a cache each | expanding the references gives the pixels |
| Lossless encoder, histograms (`encode_histogram.go`) | histograms merged in place, queue of pairs, tile tracker | entropy bins, random and greedy merging, remapping (also with several goroutines) | pairs in the queue outlive the histograms they were computed for | a group has a code for every token written with it |
| Huffman codes (`encode_huffman.go`, `huffman.go`) | code lengths, tables of two levels, packed tables | `GenerateOptimalTree`, run lengths, `BuildHuffmanTable`, `ReadSymbol` | depth limit, trimmed zeros, codes of one symbol | what is written is read, bit for bit |
| Transforms (`encode_predictor.go`, `encode_near.go`, `decode_transform.go`) | two pooled arrays per side that change roles | predictor, cross colour, subtract green, palette, near-lossless, and their inverses, with several goroutines | overwriting a row or word that is still to be read | the inverse gives the source, or within the stated distance |
| Container parser (`internal/container`) | chunk cursor, flags of the file | `NewParser`, chunk walk | truncation, padding, sizes at 32 bit limits | of a file that is whole it says what the demuxer says |
| Muxer and demuxer (`mux`) | frame list, metadata, canvas | `AddFrame`, setters, `Assemble`, `NewDemuxer` | sizes are summed before anything is written; edits of earlier frames, even offsets, still/animated layout | a written file reads back as what was set; a cut file is an error or a prefix |
| Animation encoder (`animation/animation.go`, `frame.go`) | previous canvas and rectangle, index of the previous frame in the muxer, keyframe counter | `AddFrame`, `AddRawFrame`, `Close`, metadata setters | each frame is committed at once, but the *previous* one is edited when the next one is known | the animation shows the pictures that were added |
| Animation decoder | canvas, previous disposed canvas, keyframe flags | `NextFrame`, `Reset`, `DecodeFrames` | a shortcut that starts keyframes from a blank canvas | it shows what the rendering rules say |
| Parallel frame decoding (`DecodeFramesParallel`) | two channels, a wait group | the call | workers outlive a slow caller; errors among successes | nobody blocks, everything is decoded once, the first error is returned |
| Root API, `dsp`, `sharpyuv`, `gwebp` | option structs, pools | dispatch, kernels, flags | numerical or plain I/O | outside these models, but for `writeRIFF` and the operations on lossless pixels |

## 2. Modules

| Module | Models | Composition |
|---|---|---|
| `RowSync` | `rowSync`: `waitFor` and `signal`, one action per atomic, lock or notify-list operation | |
| `EncodeParallel` | `encodeFrameParallel`, `encodeRow`, `recordAllTokens`, the pool | extends `RowSync` |
| `Wavefront` | the abstract specification: macroblocks are encoded after their neighbours, recorded in raster order | implemented by `EncodeParallel` (`Promise == INSTANCE Wavefront WITH ...`) |
| `EncodeParallelProofs` | theorems about `EncodeParallel` | extends it and `TLAPS` |
| `FrameLoop` | `EncodeFrame` with all its passes, macroblocks abstracted | |
| `FrameLoopProofs` | theorems about `FrameLoop` | extends it |
| `BoolSymbols` | a partition as the bits put into it, each with its probability; a reader | |
| `CoeffTokens`, `ModeTrees`, `FrameHeader` | what encoder and decoder write and read of a block, of the modes of a macroblock, of the header | extend `BoolSymbols` |
| `LossyWriter` | the serial encoder from decisions to the bits of a frame | extends the three |
| `LossyDecoder` | `DecodeFrame` with a decoder of the pool | extends the three |
| `LossyCodec` | one encoder and one decoder, picture after picture, frames whole or cut short | extends writer and decoder |
| `WorkShares` | the two ways loops are shared among goroutines | used by `HashChain`, `Histograms`, `Transforms` |
| `HashChain`, `PlaneCodes` | match search, distance codes and prefixes | |
| `TraceCosts` | the colour cache, the cost manager and the cheapest path | extends the two |
| `BackwardRefs` | the kinds of references, and their change to a cache | extends `TraceCosts` |
| `LosslessEncoder` | `encodeStream` with its buffers, the choice of cache, groups, and `decodeImageData` | extends `BackwardRefs` |
| `Entropy`, `Histograms` | estimated costs; grouping the tiles | `Histograms` extends `Entropy`, which extends `PlaneCodes` |
| `HuffmanCodes` | from populations to lengths, their coding, tables and packed tables | |
| `PixelOps`, `Transforms` | arithmetic on pixels; the transforms of pooled encoders and decoders | `Transforms` extends `PixelOps` |
| `LosslessProofs` | theorems about `WorkShares`, `PlaneCodes` and `Transforms` | extends `Transforms` and `PlaneCodes` |
| `Playback` | rectangles, blending, changed regions; the decoder's canvas operations, and what a list of frames shows | |
| `AnimDecoder`, `AnimEncoder` | decoder driven by a caller, with its theorem; encoder with the muxer's frame list | extend `PlaybackProofs`, `Playback` |
| `PlaybackProofs` | lemmas about playing a list of frames | extends `Playback` |
| `AnimEncoderProofs` | theorems about the encoder | extends it and `PlaybackProofs` |
| `ContainerReaders`, `Muxer` | a file as pieces with offsets and its two readers; `mux.Muxer` and `writeRIFF`, files cut off in transfer | `Muxer` extends `ContainerReaders` |
| `ContainerChunks` | the terms the proofs about files are put in; models nothing | extends `Muxer` |
| `MuxerProofs` | theorems about `Muxer` | extends `ContainerChunks` |
| `ParallelDecode`, `ParallelDecodeProofs` | `DecodeFramesParallel` and `DecodeFrames`, theorems about them | |
| `MC*` | instances for TLC | extend the module they name |

### Row pipeline

`RowSync` gives every goroutine a call frame `call[p]`: the row, the progress
and the statement of `waitFor` or `signal` it is at. `sync.Cond.Wait` is split into
enlisting on the notify list, releasing the mutex, being woken and taking the mutex again, as in
the Go runtime. `EncodeParallel` adds a program counter per goroutine with one action
per group of statements between two shared accesses. Data are abstracted to provenance: a
slot of the top context holds the number of the row that wrote it, and an
encoded macroblock holds the numbers it was predicted from. Prediction, quantization and reconstruction
are functions of that context and of read-only parameters, so a macroblock is
what the serial encoder makes of it exactly when the numbers are those the
serial encoder would read (`SerialContext`).

### Passes

`FrameLoop` abstracts a macroblock to the quality that gave its quantizers, the
pass, the kind of pixels it read and whether it was skipped; a probability table is a version
number. Where the code compares costs or sizes the model chooses
freely (`optimizeProba(k)`, `Measured`, `computeNextQ`). The token buffer holds one token per
macroblock that has coefficients, and `mbStart` the marks of `MarkMBStart`, so
that `PartTokens` can cut ranges exactly as `EmitTokensPartitioned` does.
`minRefreshCount` is a constant, 96 in the code. `LossyWriter` has one pass,
but with every macroblock's contexts, tables and bits.

### Lossy frames

An arithmetic code is abstracted to the sequence of bits put into it with the
probability of each; the reader asks with a probability of its own and is lost
when it differs. So everything that only serves to agree on a probability
(contexts, bands, tables, segments, skip flags, the mode trees) is kept, and the
arithmetic of the coder is left out. A picture brings what the searches decide:
modes and quantized levels of each macroblock, a quality for each segment.
`LossyWriter` has one action per stage of `EncodeFrame` (analysis, the end of
a statistics pass, recording after the parallel pass, statistics, new tables, emission) and one per macroblock
for the encoding walk. A sample is the macroblock and place it was reconstructed at, so
that both sides predict from the same samples exactly when the values are equal.
`LossyDecoder` has the stages of `DecodeFrame`: the header, then per row modes,
coefficients, reconstruction and the loop filter; it reads no more than what arrived.
What `acquireDecoder` and `initFrame` do not reset keeps the value of the frame before.

### Lossless pictures

`HashChain` translates `Fill`: chains by hash, runs of one colour, the
right-to-left search that carries a match to the left (`FillSerial`), and the
workers of `fillParallel`, whose searches stop at their borders, with the pass
that extends matches afterwards. `TraceCosts` keeps the cost manager's intervals in full
(splitting, orphans, the limit on their number) and remembers every offer, so that the list can be compared
with the cost of every pixel. `LosslessEncoder` has an action for each
stage of `encodeStream` and `getBackwardReferences`, with the three reference buffers and their
swaps; where estimates are compared (kind of references, size of the cache) the model
chooses freely, and a picture brings the groups of its tiles. The stream is a sequence of tokens with their group; the decoder is the
loop of `decodeImageData` with its batches, its cache that is filled late, and single-symbol groups.

`Histograms` keeps the merging where it happens: groups are the tiles' own
histograms, merged in the memory of one of them, with the queue of pairs, the tracker's lists and
the spare histogram. Costs are computed from populations as in `Entropy`, in
64ths of a bit with logarithms of fourteen binary digits instead of the code's tables. Random pairs come from the code's generator.

`HuffmanCodes` computes real codes: the tree with its limit of depth (counts
raised and tried again), canonical numbers, run lengths, the code of the lengths with trimming, the
tables of one and two levels and the packed table of a group. `Transforms` does
the real arithmetic of all 14 predictors, of the multipliers and of the
near-lossless rounding on pixels of four channels; which predictor or multiplier
is best is left open. The encoder's two arrays, and the decoder's, keep what the last picture left.

### Animation

`Playback` works on pixels with one colour channel and alpha; `alphaBlend`
keeps the code's integer arithmetic and width. `AnimEncoder` keeps the control of `addOptimizedFrame`,
`encodeSubFrame`, `encodeKeyframe` and `increasePreviousDuration`; the codec is
external, fails or not, and of two bitstreams either may be the smaller one unless
they are of the same picture. A frame in `mux` is the picture its bitstream
decodes to, with its offset, modes and duration. A lossless bitstream (`LosslessFrame`) keeps the picture but for the
colour of fully transparent pixels, which `encodeLossless` clears because `Exact` is off; a lossy one (`LossyFrames`) gives
such pixels some colour of the picture (`cleanupTransparentAreaLossyWith`) and loses the alpha, which
`encodeFrameForAnimation` drops; what else a lossy codec changes is left out. The encoder compares pictures as the caller
gave them, with the colours nobody sees, so `prevCanvas` and what a decoder shows are not the same. `Playback!Play` is the decoder
run over such a list. `Close` writes the assembled list or, for one frame, the
simple file. The parameters of an encoder (`EncodeOptions`, what the caller
adds, the muxer's limit) are a record `cfg` that every behaviour chooses once. Two history
variables serve the properties: `added`, the pictures in order as they look (`Visible`), and `given`, the caller's own frames with their places.

### Parallel frame decoding

`ParallelDecode` has an action per statement that touches a channel. `Sequential` is `DecodeFrames`, called for itself or
by `DecodeFramesParallel` for up to two frames. A bitstream decodes or does not. The history variable `collected` lists what came
out of `results`, in that order, so that `Outcome` can say which error is the first.

### Container

`ContainerReaders` lays a file out as a sequence of pieces (headers, data, padding bytes), each with
its byte offset, so that whether a reader meets a header where it expects one depends on the
sizes and paddings both sides compute. What data mean is kept as a value: image data are the
codec, the dimensions and the alpha bit their header gives, and a length.
`Demux(f, have)` and `Parse(f, have)` are the two readers over the first `have`
bytes, with the differences the code has: the parser insists on padding bytes, on `ANIM` before frames and on
announced metadata, and stops at a still image; the demuxer takes what it finds and ends
quietly at a chunk that is cut off. In `Muxer` every setter is an action, `Assemble`
computes sizes as `mux.go:342-386` does and writes as `mux.go:388-468` does, and
`EncodeStill` is the file `Encode` writes without a muxer. `given` remembers what the writer was told.

## 3. Runs

| Run | Instance | Shows |
|---|---|---|
| `EncodeParallel_all` | 2 workers and the recorder, 2 frames of 1 x 4 or 3 x 4 macroblocks (436 000 states) | `ContextExact`, `TokensAreFinal`, `RaceFree`, the refinement `ImplementsWavefront`, and with fairness `FramesEnd` |
| `FrameLoop_all` | 1 x 4 macroblocks, both methods, 1, 2 and 4 partitions, one or two statistics passes, both searches, 3 qualities (548 000 states) | `TokensComplete`, `HeaderExact` |
| `Lossy_all` | 64 sequences of one or two pictures of 2 to 4 macroblocks, whole and cut (10 600 states) | `ReadsWhatWasWritten`, `RebuildsEveryMacroblock`, `FilterExact`, `ContextsAreNeighbours`, `StatsCountTokens` |
| `Lossless_refs` | 243 pictures of 12 to 18 pixels, 1 to 3 workers, one or several groups (85 000 states) | `MatchesExact`, `IntervalsExact`, `SamplingKeeps`, `DecodedIsSource` |
| `Entropy_all` | 186 pictures of 4 to 18 tiles at qualities on each side of every threshold (3 400 states) | `PairsFresh`, `TilesTracked`, `GroupsCoverTokens` |
| `Huffman_all` | 335 groups of five populations (10 300 states) | `LengthsRoundTrip`, `CodesDecode`, `PackedAgrees`, `CodesOptimal` |
| `Transforms_all` | 660 sequences of one to three pictures through one encoder and one decoder (71 000 states) | `DecodedIsSource`, `NearIsClose`, `TilesOnce` |
| `AnimDecoder_all` | every animation of up to 3 frames on 2 x 1 pixels, full, partial and overhanging frames, both modes (949 000 states) | `RendersByTheRules` |
| `AnimEncoder_all` | 11 x 1 pixels, 4 calls, six configurations (284 000 states) | `ShowsWhatWasAdded`, `FileIsWhole`, `KeyframeEveryKmax`, `RawFramesUntouched`, `FailuresShowNothing` |
| `ParallelDecode_all` | 3 goroutines, 4 frames, every set of broken, empty and already decoded ones, one after the other or in parallel (292 000 states) | `SendNeverBlocks`, `NoSendAfterClose`, `Outcome`, `DecodedOnce`; with fairness, `Returns` |
| `Muxer_all` | up to 4 calls in any order, 3 images, at most 3 frames, every cut (636 000 states) | `ReadsBack`, `ReadersAgree`, `CutIsPrefix` |
| `Transforms_spatial` | the same pictures as `Transforms_all` | a violation of `SpatialIsSource`, see section 6 |

Every property is stated with the code it is about where it is defined, and
`PROJECT.json` names for each a plausible change of one definition (a dropped
reset, a stale cost, a swapped order) under which the run finds it violated.

### Bounds

- *Rows and columns.* The parallel path starts at four rows. One column makes every
  `WaitTarget` the last; three give a first, an inner and a last one, its three cases. With two
  workers and the recorder three rows are in progress at a time and two goroutines may wait for one row.
- *Frames.* Two suffice for reuse: a state returned by one frame is either taken
  by the next or replaced. Of the two sizes the wide one does not fit after the narrow one, the narrow one does.
- *`MinRefreshCount`* is 2 instead of 96, so that a mid-stream refresh happens inside a frame of four macroblocks.
- *Qualities in `FrameLoop`.* A search distinguishes equal, smaller and larger; three are enough to move away and return.
- *Lossy pictures.* Sixteen kinds, each alone and followed by each of three others: macroblocks of both kinds with levels in
  every token category, without luma DC, with chroma only, and empty; skipped and not; one to four
  segments, equal and different ones; both filters; coded and default tables; the serial and the parallel path
  (from three rows, four in the code), and several partitions. A frame arrives whole, without its last
  bit, for a third, or without the sizes of its partitions. `Pass` is 1: refreshes and rate control are
  `FrameLoop`'s subject.
- *Matches.* `MaxLength` 8 (4096), `MinLength` 2 (4), searches shared from `ParallelSize` 6 (50 000)
  with `MinPerWorker` 4 (1000): matches cross the borders of workers and are cut at the maximum. Hashes have two bits, so that
  chains and cache slots collide; caches have up to two bits. Tables of costs make copies dear, cheap, or free beyond some length, and
  `IntervalSizeMax` 4 (500) fills the interval list.
- *Histograms.* Two parts of a range of costs instead of four, two failures instead of 32, remapping shared from six
  tiles instead of 64, by two workers; the queue keeps its size of nine.
- *Codes.* `MaxAllowedCodeLength` 7 (15), first tables of 5 bits (8), packed tables of 5 (6): codes grow too long, and
  need a second table, with some twenty symbols.
- *Transforms.* At most 40 pixels, tiles of 4 x 4 or larger, three workers, tiles shared from 3 (16) and pixels from 20 (100 000); palettes of at
  most 6 colours packed by 2, 3 and 4 (256; 2, 4 and 16); near-lossless from 4 pixels on (64). `NearIsClose` is stated for
  pictures without a palette; the public API always sets `NearLosslessQuality` to 100.
- *Canvas.* Eleven pixels are the least for which a change of more than 90 % is not the whole canvas. Offsets 0, 1
  and 2 distinguish even from odd. Two rows would repeat what columns show: rectangles treat x and y alike.
- *Configurations of `AnimEncoder_all`.* `Failing`: sub-frames of pictures with clear pixels of two colours nobody sees, encodes that
  fail, a muxer that fills up. `Mixed`: both codecs, forced keyframes, a picture with a clear pixel that a lossy frame may fill.
  `Filled`: the same codecs and durations that need a filler, which may be lossy. `Keyframes` and `Split`: semi-transparent
  pictures and overlong durations, as keyframes and as sub-frames, where a pixel may be blended over itself and a filler may be disposed
  of. `Raw`: frames of the caller among pictures. So each premise of `Undisturbed` fails in some states of the run and
  holds in others; with any one of them removed TLC finds `ShowsWhatWasAdded` violated.
- *`maxDuration`* is 6 instead of 2^24 - 1; durations 0, 1, 5, 6 fall below, on and above the limit.
- *`MaxFrames`* of the muxer (10 000 in the code) is 3, so that it fills up.
- *Images and metadata in `Muxer`* have even and odd lengths, with and without padding; a plane of its own
  with a VP8 bitstream, and an alpha bit in a VP8L one. Metadata are absent, empty or present. Offsets are even and
  odd, durations and loop counts lie below, in and above their range, canvases are unset, half set, too small and
  large enough. A transfer stops at the start of a piece or one byte to either side; inside a piece all places are alike.
  Bitstreams are well formed and offsets are not negative.
- *`MaxCalls`*: in `Muxer_all` four calls add two frames and edit the first, or set all that a frame and its
  file can carry but one; in `AnimEncoder_all` four calls reach a keyframe, two sub-frames of which the second
  disposes of the first, and one more frame.

Deadlock is looked for everywhere but in `AnimEncoder_all`, where a panic ends
the program, and in `Lossy_all`, where encoding ends with the last picture.

### Fairness

`EncodeParallel` (`FairSpec`) and `ParallelDecode` assume weak fairness of every
goroutine: the Go scheduler runs each runnable goroutine eventually, preemptively. Mutexes are
taken a bounded number of times per frame, so weak fairness suffices for `Lock`.
`sync.Cond.Broadcast` wakes all; no spurious wakeup is assumed. Nothing forces a caller to
start another frame, and no fairness is assumed there. `FramesEnd` says that a
frame that was started ends: a lost wakeup, or a counter left by another frame, would leave a goroutine asleep.
The other modules have no liveness property: their loops run over finite data.

## 4. Proofs

TLC shows a property on the instances of section 3; the theorems here hold for
every value of the constants that meets the named assumptions. An invariant
that is not inductive as it stands gets the strengthening described below,
which TLC checked on the same instances before it was proved (all but `Kept` of
`LosslessProofs`, whose pictures TLC would have to find).

### Row pipeline (`EncodeParallelProofs`)

For any number of goroutines, any frame sizes and number of frames
(`EncodeParallelAssumption`, `RowSyncAssumption`; `NotEncodedAssumption` only says that the mark of an
empty `mbInfo` entry is none of the values of a full one).

| Theorem | States |
|---|---|
| `TypeCorrect` | `TypeOK`: nobody holds a row, column, progress target or slot outside its array |
| `ContextIsSerial` | `ContextExact`: each macroblock is predicted from the context of the serial encoder |
| `RecordsFinalTokens` | `TokensAreFinal`: recorded in raster order, each once final |
| `NoDataRace` | `RaceFree`: no two goroutines are at accesses of one slot with a write among them |
| `PipelineIsWavefront` | the refinement `ImplementsWavefront` |

`TypeOK` needs `RowsInFrame` (whoever is at a macroblock is in a row of the current frame).
The others follow from `IInv`, whose parts say, for a worker at a macroblock, what the code never states
in one place: `Roles` and `CallSites` (who runs what, and which call of `waitFor` or `signal` it can be in), `Claims`
and `Unclaimed` (workers are in different rows, and nothing is known of a row before it is claimed), `Prefixes` (how far
the worker's row is encoded, exported and entered in the non-zero context), `Published` (what `done` vouches for is
complete), `Awaited` (whoever has come out of `waitFor` still has what it waited for), `Carried` and `Margins`. The heart is the pair of
`Prefixes` and `Awaited`: row y has published at least `WaitTarget(x)` and at most what it exported, so the slots of
the top context that row y reads at x have been written by row y - 1 and by nobody since. `RaceFree` is a consequence: of
two accesses to a slot one lies before what the other row has published. The refinement needs that the recorder's
prefix is the wavefront's, for which a raster index is split into row and column (`RasterPosition`).

### Passes (`FrameLoopProofs`)

`EmitsTheLastPass` (`TokensComplete`) and `HeaderIsOfTheTokens` (`HeaderExact`), for every size of the frame, `MinRefreshCount`, set of
configurations and of qualities (`FrameLoopAssumption`). `IInv` says after each macroblock of each pass: `ThisPass` (what was
walked was encoded in this pass, from source pixels, with the current quantizers), `Planes` (only what this pass walked has been
overwritten, and what a search saved is clean, so a restart begins from the source), `Recording` (the tokens are those of the walked
macroblocks that are not skipped), `Tables`, `Marks` and `Emitted`. The lemmas `Ordered` and `Flattened` say that
`InRasterOrder` lists a set once and in order, and that the ranges a partition concatenates keep
the order and hold exactly the tokens of its rows.

### Animation (`PlaybackProofs`, `AnimDecoder`, `AnimEncoderProofs`)

For every canvas size, every set of pictures, durations and options, every limit of the muxer and every order of calls.

- `ShowsTheRules` (`RendersByTheRules`): the decoder shows the canvas of the rendering rules. `Holds(d, anim)` is the
  invariant: between two frames the decoder has the canvas of the rules, that canvas with the last frame disposed of, and of the last
  frame what `isKeyFrame` asks for, which is set only if it could have been drawn on a blank canvas
  (`AnimDecoderAssumption`: the files are lists of frames with the alpha flag of what they hold).
- `ShowsAdded`: `ShowsWhatWasAdded` in every state where `Undisturbed` holds. `Undisturbed` names, of the list committed so far, what the
  code can show exactly, in four premises: `NoRaw`; `AlphaKept` (what was added is opaque, or no lossy bitstream is
  tried); `NoneOverItself` (no frame that is blended has a semi-transparent pixel); `FillersUnseen` (no overlong duration, or one
  whose filler is lossless and refused by nobody, and no filler was told to dispose of itself). Each is needed: section 6 has the
  case for it. They are conditions on the state, not on what the caller may add: semi-transparent pictures, fillers, disposal and
  colour under clear pixels are all within the theorem as long as none of the four cases has come about. Durations asked for are at most
  `maxDuration`, which is what the muxer can store (`AnimEncoderAssumption`).
- `EntersEveryKmax` (`KeyframeEveryKmax`) without raw frames, whatever fails.
- `FailuresUnseen` (`FailuresShowNothing`): a call that fails leaves what the committed frames show. The property itself leaves out raw
  frames and durations at the maximum, where the code does change what is shown.
- `WholeFile`: `FileIsWhole` without raw frames: for an animation always, for a still image if the alpha of its picture was kept (a
  simple file has an alpha plane in either codec, a lossy frame of the muxer has none).
- `KeepsRawFrames` (`RawFramesUntouched`) without any premise.

The first five follow from one invariant: `Tracks` (the encoder knows the list it commits to; the last frame is the one it may edit, and
disposes of itself only if no further frame fits), `Follows` (the last picture added is what is seen of the one compared to), `Shows` (while `Undisturbed`, the list shows
what was added, its last canvas is what is seen of `prevCanvas`, and its last rectangle is `prevFrameRect` unless the last frame is a filler), `Keyed` (every `Kmax` frames there is an
entry, and one at most `countSinceKeyframe` back), `Opens` (the first frame covers the canvas) and `Writes`. The key of `Shows` is that the encoder compares canvases which differ from those shown in
colours under clear pixels only (`Seen`, `SeenCanvas`, `SeenDisposed`), so that a changed rectangle holds all that looks different. `KeepsRawFrames` needs `Apart`: the index of the frame
that may be edited is never that of a raw frame. `PlaybackProofs` has the facts both sides need: `RenderingRules` and `PlayedByTheRules` (what the
recursive functions `Rendered` and `Play` compute), the shortcut for keyframes, how a timeline changes when a frame is appended, lengthened
or told to dispose of itself, and that `findChangedRect` holds every changed pixel.

### Parallel frame decoding (`ParallelDecodeProofs`)

For any number of frames and any finite set of goroutines: `TypeCorrect`; `BufferSuffices` (`SendNeverBlocks`), where
`Count` says that carriers and results together never exceed the indices handed out; `ClosedWhenDone` (`NoSendAfterClose`);
`NoFrameTwice` (`DecodedOnce`), from `Injective`, `Handed` and `Undecoded`; and
`ReturnsWhatItDecoded` (`Outcome`): without an error every frame that lacked an image has it; with one, in parallel exactly those that decode
have theirs and the error is the first that came out of `results`, and one after the other exactly those before the first that fails, whose error is returned. The last adds `OInv`: `Accounted` (a frame handed out is with a worker, in results or
collected), `Exhausted` (a worker stops only when work is empty, the caller only when all have stopped and results is
drained), `Earliest` (no error is kept while none was collected, and the one kept is the first), and for the sequential path `OneByOne` (done with
the frames before `seq` and with no other).

### Lossless pictures (`LosslessProofs`)

For every list of pictures of any size, every option, every set of predictors and multipliers the searches may find, any number of goroutines and
every limit of the code (`TransformsAssumption`: pictures are arrays of pixels of four bytes, multipliers are signed bytes, a
palette has at most 256 colours and those packed by 2, 4 and 8 at most 16, 4 and 2).

- `RoundedUpSharesOnce` and `RoundedDownSharesOnce`: each index of a shared loop belongs to the
  range of exactly one worker, for any number of indices and workers.
- `TilesHandledOnce` (`TilesOnce`): when the workers of a transform are joined each tile was handled once. The invariant `Basic` says
  which transforms were applied and which are left (`Line`), and that a tile has been visited exactly if the worker it belongs
  to has gone past it (`Tiling`); a tile belongs to one worker by `RoundedUpSharesOnce`.
- `LosslessIsLossless` (`DecodedIsSource`) and `NearLosslessIsClose` (`NearIsClose`). The invariant `Kept` says that there are pictures
  p[0], p[1], ... that explain all arrays: p[0] is the source, or the source rounded once; the inverse of each transform makes p[k-1] of p[k] (`Back`);
  and it says how far each action has come. In the encoder (`Encoding`) the pixels are p[k], except in tiles already rewritten and except that a row of residuals may have taken the
  place of a row that is kept as a copy: this is why the residuals may share the array. In the decoder (`Undoing`) the first array holds the last picture,
  and once in place, `transformBuf` holds p[k-1] where `Restored` and p[k] elsewhere. For a palette expanded in place this needs one
  pixel per word (`Good`), which is exactly what section 6 reports where it fails. For the passes, `Fades` says that a pixel is as it was or was rounded
  once, to a step at least as coarse as the current one, and that the copied row is the row before it was overwritten.
  The lemmas under it are the arithmetic: `Residual`, `GreenBack`, `ColorsBack` (each pixel operation has its inverse
  modulo 256), `Unpacked` (the numbers of a word are read back from it, by `Digits`), `Sorted` and `ColorMap` (the palette is a
  list of all colours, and differences add up to it again), `RoundedByte` and `RoundedPixel` (a value off by at most half a step, which finer steps leave alone),
  and `Cell`, `InCell`, `Covering` for the places in rows, words and tiles.
- `DistanceSurvives`: `PlaneCodeToDistance(xsize, DistanceToPlaneCode(xsize, dist)) = dist` for every width of 14 bits and every
  distance, in the three cases of the encoder, from `Table` (the 120 codes name every place there is).

### Container (`ContainerChunks`, `MuxerProofs`)

`ReadsBackAlways` (`ReadsBack`), `ReadersAgreeAlways` (`ReadersAgree`) and `CutIsPrefixAlways` (`CutIsPrefix`), for every set of images, options, metadata, durations and canvas sizes, every limit on
the number of frames and any number of calls. `MuxerAssumption` says what a caller can pass: integers, except that offsets are not
negative, and image data whose header can be read. `PlacesAssumption` says what the muxer does not check and a file cannot express: an image has fewer than 2^30 pixels and ends, with its
offset, within the 24 bits a place has. `ReadersAgree` is stated for files the parser takes (`Parsable`); section 6 says which it refuses.

The invariant `Inv` says of the `Muxer` that its fields are in range (`MuxerOk`, and `IsRecord` of each frame), and of the file it wrote last, if it can carry what it
was given, that both readers read it right, whole (`ReadRight`) and after any number of bytes (`CutRight`). None of the three properties is inductive without the first part, because a file is written from fields that
were set, clamped and edited in any order before. The step that needs work is writing a file, and the proof of it goes up from bytes to frames:

- *Places.* `AtRules`, `SizeJoined` and `Run` say where each piece of a list starts and that a part of a list keeps its places relative to each other.
- *The walk.* A list of chunks whose headers lie one behind the other is a `Chain`. `WalkFinds`: the walk finds exactly the headers of the chunks that fit before its
  end; with and without the rule about padding, and at whatever end, so that it also serves files that are cut off. `Starts` and `Chunked` give
  every list of pieces a writer puts out as such chunks, joined by `ChunkedJoined` and `ChunkedFlat`; an `ANMF` chunk is one chunk outside and a list of chunks inside (`NestedChunk`, `NestedRead`).
- *Sizes.* `FramesSize`, `AssembledSize` and `EncodedExtended`: what `riffPayload` and `writeRIFF` sum up is what the pieces take. If a padding byte were
  counted differently the walk would meet the wrong end.
- *Readers.* Each reader is a run over the chunks: `DStep` for the demuxer, `PStep` for the parser, with a lemma for each kind of chunk that says what it does to
  the state (`DemuxMetadata`, `DemuxAnim`, `DemuxFrames`, `DemuxImage`; `ParseMetadata`, `ParseAnim`, `ParseFrames`, `ParseImage`). `DemuxReadsFrame` and `ParserReadsFrame` read one frame: halved offsets, sizes less one
  and clamped durations come back, and the sub-chunks are told apart.
- *Shapes.* `SimpleFile` and `ExtFile` are the two shapes of a file; what the `Muxer` assembles (`AnimatedShape`, `StillShape`, `SimpleShape`) and what the encoder writes
  (`EncodedSimple`, `EncodedExtended`) is one of them. `MuxerReads` and `EncoderReads` compare the end of the run with what was given.
- *Cuts.* `CutRead`: of a file of which so many bytes have arrived the walk finds the first chunks, each up to its last byte, and at most one place behind them that it cannot read.
  `CutExt`, `CutAnim` and `CutImage` say what the first chunks of an extended file, an animation and an image are, and that a chunk the reader cannot read changes nothing but to refuse the file
  (`SameDemux`, `SameParse`); so each reader is the run over fewer chunks. `FramesArrived` and `ImageArrived` count: a frame taken for read has a chunk of its own among those that have arrived.
  `DemuxCutAnim`, `DemuxCutStill`, `DemuxCutSimple` and their `Parse` counterparts put it together for every number of bytes, where `Muxer_all` tries
  the borders of the pieces and a byte to either side (`Cuts`). The parser needs a rule of its own for an alpha plane without its image (`PlaneRefused`).

### Induction

The library's induction theorems take an operator as a parameter and cannot be used with the provers at hand. `CountUp`, which the modules that need it prove first, follows from the
pigeonhole principle instead: a *set* of naturals that holds 0 and the successor of each of its elements holds every natural number.
With it `PlaybackProofs`, `FrameLoopProofs`, `LosslessProofs` and `MuxerProofs` establish what recursive functions over the frames of a list, the chunks of a file, the numbers of a word and the pixels of
a row compute, and what folds over a sequence do. `NatMin` and `NatMax` say that a set of naturals has a least element, and a bounded one a greatest.

### Only model-checked

- Liveness (`FramesEnd`, `Returns`) and everything about `ENABLED`.
- What RECURSIVE operators compute, and so all properties of `LossyCodec` (`ReadsWhatWasWritten`, `RebuildsEveryMacroblock`, `FilterExact`,
  `ContextsAreNeighbours`, `StatsCountTokens`), of `LosslessEncoder` (`MatchesExact`, `IntervalsExact`, `SamplingKeeps`, `DecodedIsSource`) and
  of `Histograms` (`PairsFresh`, `TilesTracked`, `GroupsCoverTokens`): the modules they live in declare such operators.
- `HuffmanCodes` (`LengthsRoundTrip`, `CodesDecode`, `PackedAgrees`, `CodesOptimal`), which are within reach and not yet proved.

## 5. Not modelled

- Numerical code without a protocol: the kernels of `dsp` and their assembly, `sharpyuv`, rate-distortion scores, quantizer and
  trellis, complexity and k-means of the analysis, the arithmetic coder and the 64 bit windows of `bitio`. The models take its
  results as inputs or free choices.
- The alpha plane (`alpha.go`): sequential filters around the lossless codec.
- The command line tool and the option checks and dispatch of the root API.
- `encoderPool` as an allocator, the import of planes and its parallel chroma workers; dithering and cropping of decoded pictures;
  the mapping of more than 1000 groups and the allocation of tables in slabs; malformed lossless streams.
- In the passes: the diffusion of quantization errors (`leftDerr`, `topDerr`).
- In the animation and container modules: wording of errors, limits on the size of metadata and of a file (4 GB),
  malformed chunk headers, unknown chunks, accessors, row strides of images
  (`copyImageRect`), more than one colour channel, and `AnimDecoder.Canvas`, which only reads.

## 6. Disagreements found

With a run:

- `Transforms_spatial`: predictors after a packed palette are undone in the array in which the palette is then
  expanded, front to back, over words still to be read; a lossless picture of few colours at method 5 or 6 and
  quality 75 or more does not come back (`decode_transform.go:142`).

Seen while modelling, and kept out of the passing runs by their configurations or by a
premise of the property. In the lossy codec:

- A size or PSNR search that runs out of passes has already replaced the quantizers, so the header does not match the
  coefficients (`encode.go:1582`; premise `Converged` of `HeaderExact`).
- With several partitions a skipped macroblock has no mark, and partitions lose or duplicate tokens
  (`encode_frame.go:78`, `encode_token.go:89`; premise of `TokensComplete`).
- Serial path: after a mid-stream refresh, tokens are recorded again only if the last `optimizeProba` changes an entry (`encode.go:1382`).
- Serial path: `leftDerr` is not reset per row nor `topDerr` per pass; in the parallel path each worker has a `topDerr` of its own (`encode_frame.go:44`, `encode_parallel.go:141`).
- No statement assigns `MBEncInfo.Disto`, so a PSNR search always measures 99 dB (`encode.go:1566`).
- `intraL` of a pooled decoder is reset after a row only: after a frame that failed inside a row of modes, the next frame starts with
  the wrong left modes (`decode.go:19-43`; premise `CleanStart`).
- `buildSegmentHeader` announces absolute values and writes differences of filter strength (`encode_analysis.go:852-868`).
- The decoder filters inner edges of a macroblock that is not skipped but has no coefficients; the encoder's own streams have none (`decode_mb.go:293`).

In the lossless codec:

- The decoder takes the number of groups from the greatest group number used; remapping may leave the last groups without a tile.
- The tracker's buffers are never kept for the next picture: the set they are saved from has lost them (`encode_histogram.go:1568`).
- `OptimizeHuffmanForRle` is not called by the encoder.

In the animation and container code:

- An unchanged semi-transparent pixel inside a changed rectangle is blended over itself and comes out more
  opaque, where a comment says that blending then "produces the same result regardless" (`animation.go:775`, `792`; premise `NoneOverItself`).
- A filler frame for an overlong duration leaves `prevFrameRect` at the rectangle of the frame before it, although
  that is said to be "always the definitive rectangle of the finalized previous frame" (`animation.go:519`). If the next
  picture is encoded against the disposed canvas the filler is told to dispose of itself, clears one pixel, and what the older frame showed stays
  (`animation.go:1010`, `937`; premise `FillersUnseen`).
- A lossy frame of an animation loses the alpha of its picture, and with it shows a colour where the picture is clear (`webp.go:245`; premise `AlphaKept`).
- Pictures that differ only in the colour of clear pixels are told apart, and make a sub-frame that changes nothing (`animation.go:698`).
- An image after a bitstream frame dereferences a nil canvas (`animation.go:714`).
- A filler frame loses its alpha in lossy mode; if it fails, the frame before it has been lengthened (both in premise `FillersUnseen`); it delays a keyframe beyond `Kmax` (`animation.go:974-1011`).
- A large change makes a keyframe however close the last one is; nothing reads `Kmin` (`animation.go:927`).
- `Close` does not count raw frames before it decides for a simple file, and the simple file has no metadata (`animation.go:1207`); a second `Close` after a failed one reports success (`animation.go:1191`).
- A sub-image has the stride of its parent; copying its pixels as a whole moves them (`animation.go:1130`).
- Frame data may begin with an `ALPH` chunk (`mux.go:23`), but for a still image the whole is
  written as one `VP8 ` chunk, which no reader decodes (`mux.go:297`, `mux.go:446`).
- A frame is compared with the canvas before its offsets are halved (`mux.go:255`).
- The parser stops at a still image: `EXIF` and `XMP`, which the writers put after it, are missing from its result though its flags announce them (`parser.go:246`).
- A still frame has the size of the canvas for the demuxer and that of the bitstream for the parser; a muxer whose canvas was set larger writes such files.
- A negative frame offset passes `validate` and is stored as a large one (24 bits).
- A canvas of 2^30 pixels or more is written (`mux.go:559`), and the demuxer reads it; the parser refuses it (`parser.go:177`). The same holds of an `ALPH` chunk before a `VP8L` one, which a caller can hand in
  as frame data (premise `Parsable` of `ReadersAgree`).
- A frame whose dimensions cannot be read is written as 1 x 1 without a check against the canvas.

## 7. Plan

Next proofs, most important first: `LengthsRoundTrip` (its code is a run over the lengths, as the readers of the container are runs over chunks), then `CodesDecode`.

Next models: the arithmetic coder with its carries under `BoolSymbols`; `encoderPool` with the import and its
chroma workers; the alpha plane on top of the lossless codec; the search passes and
refreshes of `FrameLoop` joined with `LossyWriter`.
