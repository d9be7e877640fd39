------------------------ MODULE ContainerReaders ------------------------
(***************************************************************************)
(* The two readers of a WebP file.  container.NewParser serves Decode,     *)
(* DecodeConfig and GetFeatures; mux.NewDemuxer serves the animation       *)
(* decoder and callers of package mux.  They were written apart and differ *)
(* in what they accept; of a file that is whole they must say the same.    *)
(* Both see the first have bytes of the file f.                            *)
(*                                                                         *)
(* A file is a sequence of pieces, each with the number of bytes it takes: *)
(* the twelve bytes of the RIFF header, the eight bytes of a chunk header, *)
(* the data of a chunk, and the byte that pads data of odd length.  What   *)
(* the data mean is kept as a value; where a piece lies follows from the   *)
(* lengths alone, so a writer that forgets a padding byte or a reader that *)
(* skips one too many reads no header where it expects one.                *)
(***************************************************************************)
EXTENDS Integers, Sequences, SequencesExt, FiniteSetsExt

CONSTANT MaxFrames              \* 10 000 in the code

ASSUME MaxFramesAssumption == MaxFrames \in Nat \ {0}

ChunkHeaderSize == 8
RIFFHeaderSize == 12
VP8XChunkSize == 10
ANIMChunkSize == 6
ANMFChunkSize == 16

MaxImageArea == 1073741824      \* 2^30, exclusive
MaxCanvasSize == 16777216       \* 2^24
maxDuration == 16777215         \* 2^24 - 1
maxLoopCount == 65535           \* 2^16 - 1

\* Absent data: an ALPH chunk or a metadata slice that is nil.  Present ones
\* stand for their length, which also tells them apart.
Nil == -1

(***************************************************************************)
(* Pieces.                                                                 *)
(***************************************************************************)
Piece(kind, n, v) == [kind |-> kind, at |-> 0, n |-> n, v |-> v]

RiffHeader(size) == Piece("riff", RIFFHeaderSize, size)
ChunkHeader(id, size) == Piece("header", ChunkHeaderSize, [id |-> id, size |-> size])
Data(n, v) == Piece("data", n, v)
Pad == Piece("pad", 1, 0)

\* A chunk: its header, its data, and a padding byte after an odd number.
writeDataChunk(id, n, v) ==
    <<ChunkHeader(id, n), Data(n, v)>> \o (IF n % 2 = 1 THEN <<Pad>> ELSE <<>>)

\* What a chunk with a payload of n bytes takes, as the size fields count it.
chunkTotalSize(n) == ChunkHeaderSize + n + (n % 2)

\* The number of bytes before each piece, and before the one that would follow.
Offsets(pieces) ==
    LET at[i \in 1..(Len(pieces) + 1)] == IF i = 1 THEN 0 ELSE at[i - 1] + pieces[i - 1].n
    IN  at

\* Written one after the other.
Written(pieces) ==
    LET at == Offsets(pieces)
    IN  [i \in 1..Len(pieces) |-> [pieces[i] EXCEPT !.at = at[i]]]

Bytes(f) == IF f = <<>> THEN 0 ELSE Last(f).at + Last(f).n

\* Three bytes, little endian, hold a number below 2^24; two bytes one below 2^16.
LE24(v) == v % MaxCanvasSize
LE16(v) == v % (maxLoopCount + 1)

WalkUnchecked(f, lo, end, needPad) ==   \* mutant: the payload may be cut off
    LET HeadersAt(pos) == {i \in DOMAIN f : f[i].kind = "header" /\ f[i].at = pos}
        from[pos \in Nat] ==
            IF pos + ChunkHeaderSize > end THEN <<>>
            ELSE IF HeadersAt(pos) = {} THEN <<0>>
            ELSE LET i == CHOOSE h \in HeadersAt(pos) : TRUE
                 IN  <<i>> \o from[pos + chunkTotalSize(f[i].v.size)]
    IN  from[lo]

(***************************************************************************)
(* The chunks a reader finds from byte lo up to byte end (exclusive), as   *)
(* indices of their headers in f.  It stops when fewer than eight bytes    *)
(* are left.  The index 0 stands for a chunk it cannot read, because no    *)
(* header is there or because less than the payload is: the last of the    *)
(* sequence.  With needPad the padding byte must be there as well.         *)
(***************************************************************************)
Walk(f, lo, end, needPad) ==
    LET HeadersAt(pos) == {i \in DOMAIN f : f[i].kind = "header" /\ f[i].at = pos}
        from[pos \in 0..(end + 1)] ==
            IF pos + ChunkHeaderSize > end THEN <<>>
            ELSE IF HeadersAt(pos) = {} THEN <<0>>
            ELSE LET i == CHOOSE h \in HeadersAt(pos) : TRUE
                     size == f[i].v.size
                     payloadEnd == pos + ChunkHeaderSize + size
                 IN  IF (IF needPad THEN payloadEnd + (size % 2) ELSE payloadEnd) > end
                     THEN <<0>>
                     ELSE <<i>> \o from[payloadEnd + (size % 2)]
    IN  from[lo]

(***************************************************************************)
(* Image data: a VP8 or VP8L bitstream of n bytes whose header gives the   *)
(* width, the height and (VP8L) the alpha bit.  The data a caller hands    *)
(* to the muxer may begin with an ALPH chunk of alph bytes, Nil if not.    *)
(***************************************************************************)
Raw(d) == [d EXCEPT !.alph = Nil]

Length(d) == d.n + (IF d.alph = Nil THEN 0 ELSE chunkTotalSize(d.alph))

\* The magic byte 0x2f comes first, which ALPH-prefixed data do not begin with.
IsVP8L(d) == d.alph = Nil /\ d.codec = "VP8L"

\* Data that begin with ALPH have no VP8 signature at bytes 3 to 5.
HasHeader(d) == d.alph = Nil

\* The data of the chunk whose header is piece i.
Payload(f, i) == f[i + 1].v

\* The chunks inside the ANMF chunk whose header is piece i.
SubChunks(f, i, needPad) ==
    LET start == f[i].at + ChunkHeaderSize
    IN  Walk(f, start + ANMFChunkSize, start + f[i].v.size, needPad)

Id(f, i) == IF i = 0 THEN "unreadable" ELSE f[i].v.id

(***************************************************************************)
(* The readers.                                                            *)
(***************************************************************************)

Failed == [ok |-> FALSE, done |-> TRUE]

\* The RIFF payload both readers look at ends where the header says or where
\* the data end.
PayloadEnd(f, have) ==
    LET declared == f[1].v + ChunkHeaderSize
    IN  IF declared > have THEN have ELSE declared

AddTo(d, frame) == [d EXCEPT !.frames = Append(@, frame)]

\* A still image is a frame at the origin without a duration.
StillFrame(width, height, image, alph, hasAlpha) ==
    [x |-> 0, y |-> 0, w |-> width, h |-> height, duration |-> 0,
     dispose |-> FALSE, blend |-> TRUE,
     data |-> image, alph |-> alph, hasAlpha |-> hasAlpha]

\* The sixteen bytes of an ANMF chunk, with the image data found inside it.
\* Offsets are stored halved, sizes less one.
AnimFrame(a, image, alph, hasAlpha) ==
    [x |-> 2 * a.x, y |-> 2 * a.y, w |-> a.w + 1, h |-> a.h + 1,
     duration |-> a.duration, dispose |-> a.dispose, blend |-> a.blend,
     data |-> image, alph |-> alph, hasAlpha |-> hasAlpha]

NoImage == [alph |-> Nil, codec |-> "none", w |-> 0, h |-> 0, alpha |-> FALSE, n |-> 0]

(***************************************************************************)
(* mux.Demuxer                                                             *)
(***************************************************************************)
frameDataOpaque(d) == FALSE   \* mutant

frameDataHasAlpha(d) == IsVP8L(d) /\ d.alpha

\* The data of the last of the chunks ids with one of these names.
LastOf(f, ids, names, default) ==
    LET found == {k \in DOMAIN ids : Id(f, ids[k]) \in names}
    IN  IF found = {} THEN default ELSE Payload(f, ids[Max(found)])

\* The last image and the last ALPH chunk inside an ANMF chunk count.
DemuxFrame(a, image, alph) ==
    AnimFrame(a, image, alph, alph > 0 \/ frameDataHasAlpha(image))

AddChecked(d, frame) ==
    IF frame.w * frame.h >= MaxImageArea \/ Len(d.frames) >= MaxFrames THEN Failed ELSE AddTo(d, frame)

parseANMF(d, f, i) ==
    LET ids == SubChunks(f, i, FALSE)
    IN  AddChecked(d, DemuxFrame(Payload(f, i), LastOf(f, ids, {"VP8", "VP8L"}, NoImage),
                                 LastOf(f, ids, {"ALPH"}, Nil)))

\* The first image from chunk k on, and the last ALPH chunk before it.
parseSingleExtendedFrame(d, f, ids, k) ==
    LET images == {j \in k..Len(ids) : Id(f, ids[j]) \in {"VP8", "VP8L"}}
        alphas == {j \in k..Min(images) : Id(f, ids[j]) = "ALPH"}
        alph == IF alphas = {} THEN Nil ELSE Payload(f, ids[Max(alphas)])
        image == Payload(f, ids[Min(images)])
    IN  IF images = {} THEN Failed
        ELSE [d EXCEPT !.frames = <<StillFrame(d.w, d.h, image, alph,
                                       alph > 0 \/ frameDataHasAlpha(image))>>]

\* One chunk after VP8X.  Images count only in a file that is not animated,
\* and there the first.
DemuxChunk(d, f, ids, k) ==
    LET id == Id(f, ids[k])
        v == Payload(f, ids[k])
    IN  CASE id = "ICCP" -> [d EXCEPT !.icc = v]
          [] id = "EXIF" -> [d EXCEPT !.exif = v]
          [] id = "XMP" -> [d EXCEPT !.xmp = v]
          [] id = "ANIM" -> [d EXCEPT !.bgColor = v.bgColor, !.loopCount = v.loopCount]
          [] id = "ANMF" -> parseANMF(d, f, ids[k])
          [] id \in {"VP8", "VP8L", "ALPH"} /\ ~d.flags.anim /\ d.frames = <<>> ->
                 parseSingleExtendedFrame(d, f, ids, k)
          [] OTHER -> d

\* The walk ends without an error at a chunk that cannot be read; the first
\* error of a chunk ends it with one.
DemuxExtended(f, ids) ==
    LET x == Payload(f, ids[1])
        start == [ok |-> TRUE, flags |-> x.flags, w |-> x.w + 1, h |-> x.h + 1,
                  icc |-> Nil, exif |-> Nil, xmp |-> Nil,
                  bgColor |-> 0, loopCount |-> 0, frames |-> <<>>]
        after[k \in 1..Len(ids)] ==
            IF k = 1 THEN start
            ELSE IF after[k - 1].ok THEN DemuxChunk(after[k - 1], f, ids, k) ELSE after[k - 1]
        all == after[Len(ids)]
    IN  IF all.ok /\ all.frames # <<>> THEN all ELSE Failed

SimpleFlags(alpha) == [anim |-> FALSE, alpha |-> alpha, icc |-> FALSE, exif |-> FALSE, xmp |-> FALSE]

\* parseSimpleVP8 and parseSimpleVP8L: only the first chunk counts.
DemuxSimple(f, i) ==
    LET image == Payload(f, i)
    IN  IF ~HasHeader(image) THEN Failed
        ELSE [ok |-> TRUE, flags |-> SimpleFlags(frameDataHasAlpha(image)),
              w |-> image.w, h |-> image.h,
              icc |-> Nil, exif |-> Nil, xmp |-> Nil,
              bgColor |-> 0, loopCount |-> 0,
              frames |-> <<StillFrame(image.w, image.h, image, Nil,
                                      frameDataHasAlpha(image))>>]

Demux(f, have) ==
    LET ids == Walk(f, RIFFHeaderSize, PayloadEnd(f, have), FALSE)
    IN  CASE have < RIFFHeaderSize \/ ids = <<>> \/ ids[1] = 0 -> Failed
          [] OTHER -> IF Id(f, ids[1]) = "VP8X" THEN DemuxExtended(f, ids)
                      ELSE DemuxSimple(f, ids[1])

(***************************************************************************)
(* container.Parser                                                        *)
(***************************************************************************)
\* Inside an ANMF chunk: any ALPH chunks, then an image, which ends the search.
\* An ALPH chunk without a VP8 image is an error; nothing at all is not.
ParseFrame(f, i) ==
    LET ids == SubChunks(f, i, TRUE)
        first == Min({k \in DOMAIN ids : Id(f, ids[k]) # "ALPH"} \union {Len(ids) + 1})
        id == IF first > Len(ids) THEN "end" ELSE Id(f, ids[first])
        alph == IF first = 1 THEN Nil ELSE Payload(f, ids[first - 1])
        image == Payload(f, ids[first])
        frame == AnimFrame(Payload(f, i), NoImage, Nil, FALSE)
        found(r) == [ok |-> TRUE, frame |-> r]
    IN  CASE frame.w * frame.h >= MaxImageArea \/ id = "unreadable" -> Failed
          [] frame.w * frame.h < MaxImageArea /\ id = "VP8L" ->
                 IF alph # Nil \/ ~HasHeader(image) THEN Failed
                 ELSE found([frame EXCEPT !.data = image, !.hasAlpha = image.alpha])
          [] frame.w * frame.h < MaxImageArea /\ id = "VP8" ->
                 found([frame EXCEPT !.data = image, !.alph = alph, !.hasAlpha = alph # Nil])
          [] OTHER -> IF alph # Nil THEN Failed ELSE found(frame)

\* From chunk k on: any ALPH chunks, then the image.
parseExtSingleImage(p, f, ids, k) ==
    LET first == Min({j \in k..Len(ids) : Id(f, ids[j]) # "ALPH"} \union {Len(ids) + 1})
        id == IF first > Len(ids) THEN "end" ELSE Id(f, ids[first])
        alph == IF first = k THEN Nil ELSE Payload(f, ids[first - 1])
        image == Payload(f, ids[first])
        anyAlpha == IF id = "VP8L" THEN image.alpha ELSE alph # Nil
    IN  IF ~(id \in {"VP8", "VP8L"}) THEN Failed
        ELSE IF ~HasHeader(image) \/ (id = "VP8L" /\ alph # Nil) THEN Failed
        ELSE [p EXCEPT !.w = image.w, !.h = image.h, !.done = TRUE,
                       !.flags.alpha = @ \/ anyAlpha,
                       !.frames = <<StillFrame(image.w, image.h, image, alph, anyAlpha)>>]

\* One chunk after VP8X.  Metadata count when VP8X announces them, frames after
\* an ANIM chunk.  An image outside a frame ends the parse: done.
ParseChunk(p, f, ids, k) ==
    LET id == Id(f, ids[k])
        v == Payload(f, ids[k])
    IN  CASE id \in {"unreadable", "VP8X"} -> Failed
          [] id = "ICCP" /\ p.flags.icc -> [p EXCEPT !.icc = v]
          [] id = "EXIF" /\ p.flags.exif -> [p EXCEPT !.exif = v]
          [] id = "XMP" /\ p.flags.xmp -> [p EXCEPT !.xmp = v]
          [] id = "ANIM" ->
                 [p EXCEPT !.anim = TRUE, !.bgColor = v.bgColor, !.loopCount = v.loopCount]
          [] id = "ANMF" ->
                 LET r == ParseFrame(f, ids[k])
                 IN  IF p.anim /\ Len(p.frames) < MaxFrames /\ r.ok
                     THEN AddTo(p, r.frame) ELSE Failed
          [] id \in {"VP8", "VP8L", "ALPH"} ->
                 IF p.anim \/ p.flags.anim THEN Failed ELSE parseExtSingleImage(p, f, ids, k)
          [] OTHER -> p

ParseVP8X(f, ids) ==
    LET x == Payload(f, ids[1])
        start == [ok |-> TRUE, done |-> FALSE, anim |-> FALSE, flags |-> x.flags,
                  w |-> x.w + 1, h |-> x.h + 1, icc |-> Nil, exif |-> Nil, xmp |-> Nil,
                  bgColor |-> -1, loopCount |-> 1, frames |-> <<>>]
        after[k \in 1..Len(ids)] ==
            IF k = 1 THEN start
            ELSE IF after[k - 1].ok /\ ~after[k - 1].done
                 THEN ParseChunk(after[k - 1], f, ids, k) ELSE after[k - 1]
    IN  IF start.w * start.h >= MaxImageArea THEN Failed ELSE after[Len(ids)]

ParseSingleImage(f, i) ==
    LET image == Payload(f, i)
        alpha == IsVP8L(image) /\ image.alpha
    IN  IF ~HasHeader(image) THEN Failed
        ELSE [ok |-> TRUE, flags |-> SimpleFlags(alpha), w |-> image.w, h |-> image.h,
              icc |-> Nil, exif |-> Nil, xmp |-> Nil, bgColor |-> 0, loopCount |-> 0,
              frames |-> <<StillFrame(image.w, image.h, image, Nil, alpha)>>]

Parse(f, have) ==
    LET ids == Walk(f, RIFFHeaderSize, PayloadEnd(f, have), TRUE)
    IN  CASE have < RIFFHeaderSize \/ ids = <<>> \/ ids[1] = 0 -> Failed
          [] OTHER -> IF Id(f, ids[1]) = "VP8X" THEN ParseVP8X(f, ids)
                      ELSE ParseSingleImage(f, ids[1])

=============================================================================
