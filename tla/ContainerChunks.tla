---------------------------- MODULE ContainerChunks ----------------------------
(***************************************************************************)
(* The words in which MuxerProofs speaks of a file: the pieces of a file,  *)
(* the chunks they make up and the headers a walk finds; each reader as a  *)
(* run over the chunks; what a file read whole says, and what one that is  *)
(* cut off may say.  Nothing here models code: these are the terms of the  *)
(* lemmas.                                                                 *)
(***************************************************************************)
EXTENDS Muxer

(***************************************************************************)
(* Lists                                                                    *)
(***************************************************************************)

IsList(s) == \E S : s \in Seq(S)

(***************************************************************************)
(* Pieces                                                                   *)
(***************************************************************************)

\* A piece; the size a chunk header gives is a number.
IsPiece(x) ==
    /\ x = [kind |-> x.kind, at |-> x.at, n |-> x.n, v |-> x.v]
    /\ x.n \in Nat
    /\ x.kind = "header" => x.n = ChunkHeaderSize /\ x.v.size \in Nat

Pieces(p) == IsList(p) /\ \A i \in 1 .. Len(p) : IsPiece(p[i])

(***************************************************************************)
(* Where a piece lies                                                       *)
(***************************************************************************)

OffsetAt(p, at, i) == IF i = 1 THEN 0 ELSE at[i - 1] + p[i - 1].n

At(p, i) == Offsets(p)[i]
Size(p) == At(p, Len(p) + 1)

\* The pieces c lie in p behind the first s.
Within(c, p, s) ==
    /\ s \in Nat /\ s + Len(c) <= Len(p)
    /\ \A j \in 1 .. Len(c) : p[s + j] = c[j]

(***************************************************************************)
(* The walk over the chunks                                                 *)
(***************************************************************************)

\* What each chunk header says is a number, and no two lie at the same place.
Headed(f) ==
    /\ \A i \in DOMAIN f : f[i].kind = "header" => f[i].v.size \in Nat
    /\ \A i, j \in DOMAIN f :
           f[i].kind = "header" /\ f[j].kind = "header" /\ f[i].at = f[j].at => i = j

\* A chunk of this size at pos is there as far as the reader asks.
CutOff(pos, size, end, needPad) ==
    (IF needPad THEN pos + ChunkHeaderSize + size + (size % 2) ELSE pos + ChunkHeaderSize + size) > end
Fits(pos, size, end, needPad) == ~CutOff(pos, size, end, needPad)

HeadersAt(f, pos) == {i \in DOMAIN f : f[i].kind = "header" /\ f[i].at = pos}
HeaderAt(f, pos) == CHOOSE h \in HeadersAt(f, pos) : TRUE
SizeAt(f, pos) == f[HeaderAt(f, pos)].v.size

WalkStep(f, end, needPad, from, pos) ==
    IF pos + ChunkHeaderSize > end THEN <<>>
    ELSE IF HeadersAt(f, pos) = {} THEN <<0>>
    ELSE IF CutOff(pos, SizeAt(f, pos), end, needPad) THEN <<0>>
    ELSE <<HeaderAt(f, pos)>> \o from[pos + ChunkHeaderSize + SizeAt(f, pos) + (SizeAt(f, pos) % 2)]

\* Headers hs of f, each where the chunk before it ends.
Chain(f, m, hs, pos) ==
    /\ m \in Nat
    /\ \A k \in 1 .. m + 1 : pos[k] \in Nat
    /\ \A k \in 1 .. m :
           /\ hs[k] \in DOMAIN f /\ f[hs[k]].kind = "header" /\ f[hs[k]].at = pos[k]
           /\ pos[k + 1] = pos[k] + chunkTotalSize(f[hs[k]].v.size)

FitsAt(f, hs, pos, k, end, needPad) == Fits(pos[k], f[hs[k]].v.size, end, needPad)

\* Of a chain that starts before end, the walk finds the headers of the first j
\* chunks that fit; a header it can still read is that of an unreadable chunk.
Stops(f, m, hs, pos, j, end, needPad) ==
    /\ j \in 0 .. m
    /\ \A k \in 1 .. j : FitsAt(f, hs, pos, k, end, needPad)
    /\ j < m => ~FitsAt(f, hs, pos, j + 1, end, needPad)
    /\ j = m => pos[m + 1] + 8 > end

Rest(pos, j, end) == IF pos[j + 1] + 8 > end THEN 0 ELSE 1

(***************************************************************************)
(* Chunks                                                                   *)
(***************************************************************************)

\* A header, the data it announces, and the padding.
IsChunk(c) ==
    /\ Pieces(c) /\ Len(c) >= 2
    /\ c[1].kind = "header" /\ Size(c) = chunkTotalSize(c[1].v.size)

Starts(p, cs, st) ==
    /\ st[1] = 0 /\ st[Len(cs) + 1] = Len(p)
    /\ \A k \in 1 .. Len(cs) :
           /\ IsChunk(cs[k]) /\ Within(cs[k], p, st[k])
           /\ st[k + 1] = st[k] + Len(cs[k])

\* The pieces p are those of the chunks cs, one after the other.
Chunked(p, cs) == Pieces(p) /\ IsList(cs) /\ \E st : Starts(p, cs, st)

(***************************************************************************)
(* A file                                                                   *)
(***************************************************************************)

\* The pieces of a file: the RIFF header and its chunks.
FilePieces(size, body) == <<RiffHeader(size)>> \o body

\* The headers hs in p of the chunks cs, which take the bytes from lo to end, and
\* where each lies.
Laid(p, cs, hs, pos, lo, end) ==
    /\ Pieces(p) /\ IsList(cs)
    /\ Chain(Written(p), Len(cs), hs, pos)
    /\ pos[1] = lo /\ pos[Len(cs) + 1] = end
    /\ \A k \in 1 .. Len(cs) :
           /\ IsChunk(cs[k]) /\ hs[k] \in 1 .. Len(p) /\ Within(cs[k], p, hs[k] - 1)

(***************************************************************************)
(* The chunks of this format                                                *)
(***************************************************************************)

\* A chunk with the chunks qs behind n bytes of its data.
Nested(id, n, v, q) ==
    (<<ChunkHeader(id, n + Size(q)), Data(n, v)>> \o q)
        \o (IF (n + Size(q)) % 2 = 1 THEN <<Pad>> ELSE <<>>)

(***************************************************************************)
(* What the writers put out, as chunks                                      *)
(***************************************************************************)

OptionalChunks(id, n) == IF n = Nil THEN <<>> ELSE <<writeDataChunk(id, n, n)>>

\* Image data with readable dimensions, smaller than the format allows.
ImageOk(d) ==
    /\ d \in [alph : {Nil} \cup (Nat \ {0}), codec : {"VP8", "VP8L"},
              w : 1 .. MaxCanvasSize, h : 1 .. MaxCanvasSize, alpha : BOOLEAN, n : Nat]
    /\ d.w * d.h < MaxImageArea

SubPieces(d) == metadataChunk("ALPH", d.alph) \o writeDataChunk(d.codec, d.n, Raw(d))
SubList(d) == OptionalChunks("ALPH", d.alph) \o <<writeDataChunk(d.codec, d.n, Raw(d))>>
Planes(d) == IF d.alph = Nil THEN 0 ELSE 1

\* What the sixteen bytes of an ANMF chunk say.
Info(r) ==
    [x |-> LE24(r.x \div 2), y |-> LE24(r.y \div 2),
     w |-> LE24(r.data.w - 1), h |-> LE24(r.data.h - 1),
     duration |-> LE24(r.duration), dispose |-> r.dispose, blend |-> r.blend]

(***************************************************************************)
(* A frame of an animation                                                  *)
(***************************************************************************)

FrameOk(r) ==
    /\ ImageOk(r.data) /\ r.x \in Nat /\ r.y \in Nat
    /\ r.x + r.data.w <= MaxCanvasSize /\ r.y + r.data.h <= MaxCanvasSize
    /\ r.duration \in 0 .. maxDuration

\* What a reader finds inside the ANMF chunk of a frame with image d.
Found(f, w, d) ==
    /\ IsList(w) /\ Len(w) = Planes(d) + 1
    /\ w[Planes(d) + 1] # 0 /\ Id(f, w[Planes(d) + 1]) = d.codec
    /\ Payload(f, w[Planes(d) + 1]) = Raw(d)
    /\ d.alph # Nil => Id(f, w[1]) = "ALPH" /\ Payload(f, w[1]) = d.alph

\* The first chunk from j on that is not an alpha plane, where just the image follows.
FirstNot(f, ids, j, n) == Min({k \in j .. n : Id(f, ids[k]) # "ALPH"} \union {n + 1})

\* A lossless image has its alpha in the bitstream, never as a plane.
NoPlane(d) == d.codec = "VP8L" => d.alph = Nil

IsFrame(s) ==
    s = [x |-> s.x, y |-> s.y, w |-> s.w, h |-> s.h, duration |-> s.duration,
         dispose |-> s.dispose, blend |-> s.blend,
         data |-> s.data, alph |-> s.alph, hasAlpha |-> s.hasAlpha]

\* The fields of a frame, before its image is found.
EmptyFrame(r) == AnimFrame(Info(r), NoImage, Nil, FALSE)

\* What the parser makes of a frame and the image it found in it.
FrameParsed(frame, d) ==
    IF d.codec = "VP8L"
    THEN IF d.alph # Nil THEN Failed
         ELSE [ok |-> TRUE, frame |-> [frame EXCEPT !.data = Raw(d), !.hasAlpha = d.alpha]]
    ELSE [ok |-> TRUE, frame |-> [frame EXCEPT !.data = Raw(d), !.alph = d.alph, !.hasAlpha = d.alph # Nil]]

\* Five lists one after the other.
Row(v, i, m, e, x) == (((v \o i) \o m) \o e) \o x

Strung(h, v, i, m, e, x) == ((((h \o v) \o i) \o m) \o e) \o x

(***************************************************************************)
(* Reading a whole file                                                     *)
(***************************************************************************)

\* The reader has found the chunks cs of the pieces p at ids.
Reads(p, ids, cs) ==
    /\ Pieces(p) /\ IsList(ids) /\ IsList(cs) /\ Len(ids) = Len(cs)
    /\ \A k \in 1 .. Len(cs) :
           /\ ids[k] \in 1 .. Len(p) /\ ids[k] # 0 /\ Within(cs[k], p, ids[k] - 1)
           /\ Id(Written(p), ids[k]) = cs[k][1].v.id
           /\ Payload(Written(p), ids[k]) = cs[k][2].v

(***************************************************************************)
(* The demuxer, chunk by chunk                                              *)
(***************************************************************************)

DState(x, icc, exif, xmp, bg, loop, fs) ==
    [ok |-> TRUE, flags |-> x.flags, w |-> x.w + 1, h |-> x.h + 1,
     icc |-> icc, exif |-> exif, xmp |-> xmp,
     bgColor |-> bg, loopCount |-> loop, frames |-> fs]

DStart(f, ids) == DState(Payload(f, ids[1]), Nil, Nil, Nil, 0, 0, <<>>)

DStep(f, ids, after, k) ==
    IF k = 1 THEN DStart(f, ids)
    ELSE IF after[k - 1].ok THEN DemuxChunk(after[k - 1], f, ids, k) ELSE after[k - 1]

\* The state after chunk k.
DAfter(f, ids) == CHOOSE after : after = [k \in 1 .. Len(ids) |-> DStep(f, ids, after, k)]

AnimInfo(bg, loop) == [bgColor |-> bg, loopCount |-> loop]
AnimChunk(bg, loop) == <<ChunkHeader("ANIM", ANIMChunkSize), Data(ANIMChunkSize, AnimInfo(bg, loop))>>

\* The first n frames as given.
FramesGiven(fr, n) == [j \in 1 .. n |-> FrameGiven(fr[j])]

FrameChunks(fr, n) == [j \in 1 .. n |-> writeANMFChunk(fr[j])]

ImageIds(f, ids, k) == {j \in k .. Len(ids) : Id(f, ids[j]) \in {"VP8", "VP8L"}}
PlaneIds(f, ids, k, i) == {j \in k .. i : Id(f, ids[j]) = "ALPH"}

StillOf(d, w, h) == StillFrame(w, h, Raw(d), d.alph, d.alph # Nil \/ (IsVP8L(d) /\ d.alpha))

\* The chunks k to i are those of the image d.
Shown(f, ids, d, k, i) ==
    /\ Len(ids) \in Nat /\ k \in Nat /\ i \in 1 .. Len(ids) /\ k >= 1 /\ i = k + Planes(d)
    /\ Id(f, ids[i]) = d.codec /\ Payload(f, ids[i]) = Raw(d)
    /\ d.alph # Nil => Id(f, ids[k]) = "ALPH" /\ Payload(f, ids[k]) = d.alph

HeaderChunk(x) == <<ChunkHeader("VP8X", VP8XChunkSize), Data(VP8XChunkSize, x)>>

\* The pieces and the chunks of an extended file with the images m, of chunks ms.
ExtBody(x, icc, m, exif, xmp) ==
    Row(HeaderChunk(x), metadataChunk("ICCP", icc), m, metadataChunk("EXIF", exif), metadataChunk("XMP", xmp))
ExtList(x, icc, ms, exif, xmp) ==
    Row(<<HeaderChunk(x)>>, OptionalChunks("ICCP", icc), ms, OptionalChunks("EXIF", exif), OptionalChunks("XMP", xmp))

ExtSize(icc, size, exif, xmp) ==
    (ChunkHeaderSize + VP8XChunkSize) + metadataSize(icc) + size + metadataSize(exif) + metadataSize(xmp)

\* The chunks ms take the demuxer from the profile to its last frame.
Passes(f, ids, cs, x, icc, ms, bg, loop, fs) ==
    \A s \in Nat : s >= 1 /\ Within(ms, cs, s) /\ DAfter(f, ids)[s] = DState(x, icc, Nil, Nil, 0, 0, <<>>) =>
        DAfter(f, ids)[s + Len(ms)] = DState(x, icc, Nil, Nil, bg, loop, fs)

\* Where the parts of an extended file are, and the demuxer before its images.
DemuxAt(f, ids, cs, x, icc, ms, exif, xmp, i, m, e) ==
    /\ i \in Nat /\ i >= 1 /\ m = i + Len(ms) /\ m \in Nat /\ m >= i
    /\ e = m + Len(OptionalChunks("EXIF", exif)) /\ e \in Nat /\ e >= m
    /\ Len(ids) = e + Len(OptionalChunks("XMP", xmp)) /\ Len(ids) \in Nat /\ Len(ids) >= e
    /\ Within(OptionalChunks("ICCP", icc), cs, 1)
    /\ Within(ms, cs, i)
    /\ Within(OptionalChunks("EXIF", exif), cs, m)
    /\ Within(OptionalChunks("XMP", xmp), cs, e)
    /\ ids # <<>> /\ ids[1] # 0 /\ Id(f, ids[1]) = "VP8X" /\ Payload(f, ids[1]) = x
    /\ DAfter(f, ids)[i] = DState(x, icc, Nil, Nil, 0, 0, <<>>)

\* The chunks and the pieces of an animation.
AnimList(bg, loop, fr, n) == <<AnimChunk(bg, loop)>> \o FrameChunks(fr, n)
AnimPieces(bg, loop, fr, n) == AnimChunk(bg, loop) \o FlattenSeq(FrameChunks(fr, n))

\* An extended file with its size as the header states it.
ExtFile(x, icc, m, exif, xmp) ==
    FilePieces(4 + Size(ExtBody(x, icc, m, exif, xmp)), ExtBody(x, icc, m, exif, xmp))

PassesIn(x, icc, ms, exif, xmp, bg, loop, fs) ==
    \A p, ids : Reads(p, ids, ExtList(x, icc, ms, exif, xmp)) =>
        Passes(Written(p), ids, ExtList(x, icc, ms, exif, xmp), x, icc, ms, bg, loop, fs)

\* A file of one chunk, the image.
SimpleFile(d) == FilePieces(4 + chunkTotalSize(d.n), writeDataChunk(d.codec, d.n, Raw(d)))

SimpleState(d) ==
    [ok |-> TRUE, flags |-> SimpleFlags(IsVP8L(d) /\ d.alpha), w |-> d.w, h |-> d.h,
     icc |-> Nil, exif |-> Nil, xmp |-> Nil, bgColor |-> 0, loopCount |-> 0,
     frames |-> <<StillGiven(d)>>]

(***************************************************************************)
(* The sizes the writers compute                                            *)
(***************************************************************************)

SizeStep(fr, g, n) == IF n = 0 THEN 0 ELSE g[n - 1] + ANMFSize(fr[n])

(***************************************************************************)
(* What the demuxer says of each shape of file                              *)
(***************************************************************************)

\* The data of the VP8X chunk.
Extended(flags, cw, ch) == [flags |-> flags, w |-> LE24(cw - 1), h |-> LE24(ch - 1)]

Pair(s) == s = <<s[1], s[2]>>

Metadatum(n) == n \in Nat \cup {Nil}

(***************************************************************************)
(* The shapes of what the Muxer and the encoder write                       *)
(***************************************************************************)

\* What holds of a Muxer between its calls.
MuxerOk ==
    /\ IsList(frames) /\ Len(frames) <= MaxFrames
    /\ \A j \in 1 .. Len(frames) : FrameOk(frames[j])
    /\ Metadatum(iccData) /\ Metadatum(exifData) /\ Metadatum(xmpData)
    /\ loopCount \in 0 .. maxLoopCount
    /\ Pair(canvas)
    /\ \A i \in 1 .. 2 : canvas[i] \in Int /\ canvas[i] <= MaxCanvasSize

MetadataOk == Metadatum(iccData) /\ Metadatum(exifData) /\ Metadatum(xmpData)

AssembledFlags == [anim |-> isAnimated, alpha |-> hasAlpha, icc |-> iccData # Nil,
                   exif |-> exifData # Nil, xmp |-> xmpData # Nil]
AssembledX == Extended(AssembledFlags, canvasSize[1], canvasSize[2])
AssembledBody(m) == ExtBody(AssembledX, iccData, m, exifData, xmpData)

\* The pieces assembleExtended writes around its images.
Around(h, m) ==
    Strung(<<RiffHeader(h)>>, HeaderChunk(AssembledX), metadataChunk("ICCP", iccData), m,
           metadataChunk("EXIF", exifData), metadataChunk("XMP", xmpData))

Present(n) == IF n > 0 THEN n ELSE Nil

\* The flags of the header the encoder writes.
EncodedFlags(d, icc, exif, xmp) ==
    [anim |-> FALSE, icc |-> icc > 0, exif |-> exif > 0, xmp |-> xmp > 0,
     alpha |-> d.alph > 0 \/ (d.codec = "VP8L" /\ d.alpha)]
EncodedX(d, icc, exif, xmp) == Extended(EncodedFlags(d, icc, exif, xmp), d.w, d.h)

IsExtended(d, icc, exif, xmp) == \E n \in {d.alph, icc, exif, xmp} : n > 0

\* What Encode's caller gave.
EncoderGiven(d, icc, exif, xmp) ==
    [ok |-> TRUE, anim |-> FALSE, size |-> <<d.w, d.h>>,
     icc |-> Present(icc), exif |-> Present(exif), xmp |-> Present(xmp),
     bgColor |-> 0, loopCount |-> 0, frames |-> <<StillGiven(d)>>]

\* Says, of what a writer was g.
SaysOf(r, g) ==
    /\ r.ok
    /\ <<r.w, r.h>> = g.size
    /\ r.frames = g.frames
    /\ <<r.icc, r.exif, r.xmp>> = <<g.icc, g.exif, g.xmp>>
    /\ r.flags.anim = g.anim
    /\ r.flags.alpha = (\E i \in DOMAIN g.frames : g.frames[i].hasAlpha)
    /\ g.anim => <<r.bgColor, r.loopCount>> = <<g.bgColor, g.loopCount>>

(***************************************************************************)
(* The parser, chunk by chunk                                               *)
(***************************************************************************)

\* The parser after its chunks; done once it has taken a still image.
PState(x, anim, icc, exif, xmp, bg, loop, fs) ==
    [ok |-> TRUE, done |-> FALSE, anim |-> anim, flags |-> x.flags, w |-> x.w + 1, h |-> x.h + 1,
     icc |-> icc, exif |-> exif, xmp |-> xmp, bgColor |-> bg, loopCount |-> loop, frames |-> fs]

PStart(f, ids) == PState(Payload(f, ids[1]), FALSE, Nil, Nil, Nil, -1, 1, <<>>)

PStep(f, ids, after, k) ==
    IF k = 1 THEN PStart(f, ids)
    ELSE IF after[k - 1].ok /\ ~after[k - 1].done THEN ParseChunk(after[k - 1], f, ids, k) ELSE after[k - 1]

PAfter(f, ids) == CHOOSE after : after = [k \in 1 .. Len(ids) |-> PStep(f, ids, after, k)]

\* The parser among the frames of an animation.
PAnimated(x, icc, bg, loop, fs) == PState(x, TRUE, icc, Nil, Nil, bg, loop, fs)

HasAlphaOf(d) == d.alph # Nil \/ (IsVP8L(d) /\ d.alpha)

IsFlags(g) == g = [anim |-> g.anim, alpha |-> g.alpha, icc |-> g.icc, exif |-> g.exif, xmp |-> g.xmp]

\* The parser once it has taken the still image d.
PTaken(x, icc, d) ==
    [ok |-> TRUE, done |-> TRUE, anim |-> FALSE, flags |-> x.flags, w |-> d.w, h |-> d.h,
     icc |-> icc, exif |-> Nil, xmp |-> Nil, bgColor |-> -1, loopCount |-> 1,
     frames |-> <<StillOf(d, d.w, d.h)>>]

\* The parser before the images.
PBefore(x, icc) == PState(x, FALSE, icc, Nil, Nil, -1, 1, <<>>)

Taken(p, d, has, fs) ==
    [p EXCEPT !.w = d.w, !.h = d.h, !.done = TRUE, !.flags.alpha = @ \/ has, !.frames = fs]

\* Where the parts of an extended file are, and the parser before its images.
Opened(f, ids, cs, x, icc, ms, exif, xmp, i, m, e) ==
    /\ i \in Nat /\ i >= 1 /\ m = i + Len(ms) /\ m \in Nat /\ m >= i
    /\ e = m + Len(OptionalChunks("EXIF", exif)) /\ e \in Nat /\ e >= m
    /\ Len(ids) = e + Len(OptionalChunks("XMP", xmp)) /\ Len(ids) \in Nat /\ Len(ids) >= e
    /\ Within(ms, cs, i)
    /\ Within(OptionalChunks("EXIF", exif), cs, m)
    /\ Within(OptionalChunks("XMP", xmp), cs, e)
    /\ ids # <<>> /\ ids[1] # 0 /\ Id(f, ids[1]) = "VP8X" /\ Payload(f, ids[1]) = x
    /\ PAfter(f, ids)[i] = PBefore(x, icc)

Parsed(x) == ~((x.w + 1) * (x.h + 1) >= MaxImageArea)

\* The parser reads f as an extended file with the images ms.
ExtParsed(f, bytes, x, icc, ms, exif, xmp) ==
    \E p, ids, cs, i, j, e :
        /\ f = Written(p) /\ cs = ExtList(x, icc, ms, exif, xmp) /\ Reads(p, ids, cs)
        /\ Opened(f, ids, cs, x, icc, ms, exif, xmp, i, j, e)
        /\ Parse(f, bytes) = PAfter(f, ids)[Len(ids)]

\* The parser at the end of an animation.
PWhole(x, icc, exif, xmp, bg, loop, fs) == PState(x, TRUE, icc, exif, xmp, bg, loop, fs)

(***************************************************************************)
(* The two readers together                                                 *)
(***************************************************************************)

\* The part of Parsable that is about what was given to the writer.
ParsableOf(g) ==
    /\ g.size[1] * g.size[2] < MaxImageArea
    /\ \A i \in DOMAIN g.frames : g.frames[i].data.codec = "VP8L" => g.frames[i].alph = Nil

\* Read whole, the file f says what its writer was given, to the parser as well if it takes it.
ReadRight(f, bytes, g) ==
    /\ SaysOf(Demux(f, bytes), g)
    /\ ParsableOf(g) => Agree(Demux(f, bytes), Parse(f, bytes))

(***************************************************************************)
(* Reading a file that is cut off                                           *)
(***************************************************************************)

\* Of the chunks cs of the pieces p a reader that has so many bytes has found the
\* first j at ids, and each of these up to its data's last byte.  What follows in
\* ids it cannot read.
CutReads(p, ids, cs, j, bytes) ==
    /\ Pieces(p) /\ IsList(ids) /\ IsList(cs) /\ j \in 0 .. Len(cs)
    /\ Len(ids) \in Nat /\ j <= Len(ids) /\ Len(ids) <= j + 1
    /\ \A k \in 1 .. Len(ids) : k > j => ids[k] = 0
    /\ \A k \in 1 .. j :
           /\ ids[k] \in 1 .. Len(p) /\ ids[k] # 0 /\ IsChunk(cs[k]) /\ Within(cs[k], p, ids[k] - 1)
           /\ Id(Written(p), ids[k]) = cs[k][1].v.id
           /\ Payload(Written(p), ids[k]) = cs[k][2].v
           /\ At(p, ids[k]) + 8 + cs[k][1].v.size <= bytes
    /\ \A k, l \in 1 .. j : k < l => At(p, ids[k]) + 8 + cs[k][1].v.size <= At(p, ids[l])

\* The chunks of the file f with one of these names that are among the first bytes.
ArrivedIn(f, bytes, names) ==
    {i \in DOMAIN f : /\ f[i].kind = "header" /\ Id(f, i) \in names
                      /\ f[i + 1].at + f[i + 1].n <= bytes}

\* The list c is the beginning of s.
Begins(c, s) == IsList(c) /\ IsList(s) /\ Len(c) <= Len(s) /\ \A k \in 1 .. Len(c) : c[k] = s[k]

\* The beginning of five lists, of which the first has one element.
CutRow(c, v, i, m, e, x) ==
    \E a, b, s, t :
        /\ Begins(a, i) /\ Begins(b, m) /\ Begins(s, e) /\ Begins(t, x)
        /\ b = m \/ (s = <<>> /\ t = <<>>)
        /\ c = Row(v, a, b, s, t)

\* ids are the chunks is and, maybe, one that cannot be read.
AndNoMore(ids, is) ==
    /\ Len(ids) \in Nat /\ Len(is) \in Nat /\ Len(is) >= 1
    /\ Len(is) <= Len(ids) /\ Len(ids) <= Len(is) + 1
    /\ \A k \in 1 .. Len(is) : ids[k] = is[k]
    /\ \A k \in 1 .. Len(ids) : k > Len(is) => ids[k] = 0

\* What parseExtSingleImage does with the first chunk that is no alpha plane.
ImageFrom(p, f, ids, k, first) ==
    LET id == IF first > Len(ids) THEN "end" ELSE Id(f, ids[first])
        alph == IF first = k THEN Nil ELSE Payload(f, ids[first - 1])
        image == Payload(f, ids[first])
        anyAlpha == IF id = "VP8L" THEN image.alpha ELSE alph # Nil
    IN  IF ~(id \in {"VP8", "VP8L"}) THEN Failed
        ELSE IF ~HasHeader(image) \/ (id = "VP8L" /\ alph # Nil) THEN Failed
        ELSE [p EXCEPT !.w = image.w, !.h = image.h, !.done = TRUE,
                       !.flags.alpha = @ \/ anyAlpha,
                       !.frames = <<StillFrame(image.w, image.h, image, alph, anyAlpha)>>]

\* The chunks c of the pieces p have arrived among the first bytes.
Here(p, c, bytes) ==
    \E ids, cs, j : CutReads(p, ids, cs, j, bytes) /\ Begins(c, cs) /\ Len(c) = j

\* What was read of one kind of metadata is what was given, if its chunk is there.
Kept(f, bytes, n, was, id) == n = Nil \/ (n = was /\ ArrivedIn(f, bytes, {id}) # {})

\* Of an extended file that is cut off a reader has found the beginning.
CutFile(f, bytes, x, icc, ms, exif, xmp, p, is, i, m, e, y) ==
    /\ i \in {Nil, icc} /\ e \in {Nil, exif} /\ y \in {Nil, xmp}
    /\ Begins(m, ms) /\ (m = ms \/ (e = Nil /\ y = Nil))
    /\ f = Written(p) /\ Reads(p, is, ExtList(x, i, m, e, y)) /\ Here(p, ExtList(x, i, m, e, y), bytes)

\* What is read r is no more than what has arrived of what was given, g.
HonestOf(f, bytes, g, r, least) ==
    r.ok => /\ IsPrefix(r.frames, g.frames)
            /\ least <= Len(r.frames)
            /\ Len(r.frames) <= Cardinality(ArrivedIn(f, bytes, {"VP8", "VP8L"}))
            /\ Kept(f, bytes, r.icc, g.icc, "ICCP")
            /\ Kept(f, bytes, r.exif, g.exif, "EXIF")
            /\ Kept(f, bytes, r.xmp, g.xmp, "XMP")

\* The reader took r of the metadata in the file f, which was given g, no more than are
\* there, and the chunks m are there.
MetadataTaken(f, bytes, m, g, r) ==
    /\ Kept(f, bytes, r.icc, g.icc, "ICCP") /\ Kept(f, bytes, r.exif, g.exif, "EXIF") /\ Kept(f, bytes, r.xmp, g.xmp, "XMP")
    /\ \E p, c, s : f = Written(p) /\ Here(p, c, bytes) /\ IsList(c) /\ Pieces(p) /\ Within(m, c, s)

\* So many frames are there, or none.
FramesIn(m, bg, loop, fr, t) == t = 0 \/ m = AnimList(bg, loop, fr, t)

\* The frames a reader that needs so many took for a still image of which the chunks m were there.
ImageIn(m, d, frs, all, least) == (m = SubList(d) /\ frs = all) \/ (least = 0 /\ frs = <<>>)

\* The header announces the metadata after the frames.
Announced(x, exif, xmp) ==
    /\ exif \in Nat \cup {Nil} /\ xmp \in Nat \cup {Nil}
    /\ (exif # Nil => x.flags.exif) /\ (xmp # Nil => x.flags.xmp)

\* Cut off anywhere, the file f says to both readers no more than its writer was given.
CutRight(f, g) ==
    /\ Cuts(f) \subseteq Nat
    /\ \A bytes \in Nat : HonestOf(f, bytes, g, Demux(f, bytes), 1) /\ HonestOf(f, bytes, g, Parse(f, bytes), 0)
================================================================================
