------------------------------ MODULE Muxer ------------------------------
(***************************************************************************)
(* The writers of a WebP file and what a reader makes of it: mux.Muxer     *)
(* with the calls of its user, and writeRIFF, which Encode uses for a      *)
(* still image.  Sizes are computed in one pass and pieces written in      *)
(* another, so the two must agree byte for byte.  A write may fail and a   *)
(* transfer stop anywhere: the reader sees the first have bytes.           *)
(***************************************************************************)
EXTENDS ContainerReaders, FiniteSets

CONSTANTS Images,       \* image data for AddFrame and Encode
          Options,      \* FrameOptions of AddFrame, nil among them as zeroes
          Durations, LoopCounts, Colors, CanvasSizes,
          Metadata,     \* lengths of metadata slices, Nil among them
          MaxCalls      \* bound on the calls before a file is written

\* Image data have an ALPH chunk with data or none, and readable dimensions.
ASSUME MuxerAssumption ==
    /\ Images \subseteq [alph : {Nil} \union (Nat \ {0}), codec : {"VP8", "VP8L"},
                         w : 1..MaxCanvasSize, h : 1..MaxCanvasSize, alpha : BOOLEAN, n : Nat]
    /\ Options \subseteq [duration : Int, x : Nat, y : Nat, dispose : BOOLEAN, blend : BOOLEAN]
    /\ Durations \subseteq Int /\ LoopCounts \subseteq Int /\ CanvasSizes \subseteq Int \X Int
    /\ Metadata \subseteq Nat \union {Nil}

\* An image is smaller than the format allows, and lies where three bytes reach:
\* the muxer checks neither.
ASSUME PlacesAssumption ==
    \A d \in Images :
        /\ d.w * d.h < MaxImageArea
        /\ \A o \in Options : o.x + d.w <= MaxCanvasSize /\ o.y + d.h <= MaxCanvasSize

VARIABLES frames,       \* Muxer.frames
          iccData, exifData, xmpData,
          bgColor, loopCount,
          canvas,       \* <<canvasWidth, canvasHeight>>
          calls,        \* the number of calls so far, up to MaxCalls
          file,         \* the pieces a writer put out, <<>> if none
          have,         \* how many bytes of them the reader has
          given         \* history: what the writer of file was given

muxer == <<frames, iccData, exifData, xmpData, bgColor, loopCount, canvas>>
vars == <<frames, iccData, exifData, xmpData, bgColor, loopCount, canvas,
          calls, file, have, given>>

Nothing == [ok |-> FALSE]

(***************************************************************************)
(* What the writers compute from the muxer's state.                        *)
(***************************************************************************)
Clamp(v, max) == IF v < 0 THEN 0 ELSE IF v > max THEN max ELSE v

clampDuration(d) == Clamp(d, maxDuration)

isAnimated == Len(frames) > 1 \/ \E i \in DOMAIN frames : frames[i].duration > 0

needsVP8X == isAnimated \/ iccData # Nil \/ exifData # Nil \/ xmpData # Nil

hasAlphaPlane ==   \* mutant: the alpha bit of VP8L is forgotten
    \E i \in DOMAIN frames : frames[i].data.alph # Nil

hasAlpha == \E i \in DOMAIN frames :
                LET d == frames[i].data
                IN  d.alph # Nil \/ (IsVP8L(d) /\ d.alpha)

\* The explicit size if both parts were set, else the extent of the frames.
canvasSize ==
    LET extent(At(_)) == Max({1} \union {At(frames[i]) : i \in DOMAIN frames})
    IN  IF canvas[1] > 0 /\ canvas[2] > 0 THEN canvas
        ELSE <<extent(LAMBDA r : r.x + r.data.w), extent(LAMBDA r : r.y + r.data.h)>>

\* Data without readable dimensions are not checked.
validate ==
    /\ frames # <<>>
    /\ \A i \in DOMAIN frames :
           LET r == frames[i]
           IN  r.data.w = 0 \/ r.data.h = 0 \/
               (r.x + r.data.w <= canvasSize[1] /\ r.y + r.data.h <= canvasSize[2])

detectBitstreamType(d) == IF IsVP8L(d) THEN "VP8L" ELSE "VP8"

frameSubChunksSize(d) ==
    (IF d.alph = Nil THEN 0 ELSE chunkTotalSize(d.alph)) + chunkTotalSize(d.n)

metadataChunk(id, n) == IF n = Nil THEN <<>> ELSE writeDataChunk(id, n, n)
metadataSize(n) == IF n = Nil THEN 0 ELSE chunkTotalSize(n)

(***************************************************************************)
(* assembleSimple: one chunk, whatever the data begin with.                *)
(***************************************************************************)
assembleSimple ==
    LET d == frames[1].data
        size == Length(d)
    IN  <<RiffHeader(4 + chunkTotalSize(size))>>
        \o writeDataChunk(detectBitstreamType(d), size, d)

(***************************************************************************)
(* assembleExtended.                                                       *)
(***************************************************************************)
VP8X(flags, width, height) ==
    <<ChunkHeader("VP8X", VP8XChunkSize),
      Data(VP8XChunkSize, [flags |-> flags, w |-> LE24(width - 1), h |-> LE24(height - 1)])>>

\* Offsets are halved, sizes less one; without dimensions the size bytes stay zero.
writeANMFChunk(r) ==
    LET size == ANMFChunkSize + frameSubChunksSize(r.data)
        less(v) == IF r.data.w > 0 /\ r.data.h > 0 THEN LE24(v - 1) ELSE 0
    IN  <<ChunkHeader("ANMF", size),
          Data(ANMFChunkSize,
               [x |-> LE24(r.x \div 2), y |-> LE24(r.y \div 2),
                w |-> less(r.data.w), h |-> less(r.data.h),
                duration |-> LE24(r.duration), dispose |-> r.dispose, blend |-> r.blend])>>
        \o (IF r.data.alph = Nil THEN <<>>
            ELSE writeDataChunk("ALPH", r.data.alph, r.data.alph))
        \o writeDataChunk(detectBitstreamType(Raw(r.data)), r.data.n, Raw(r.data))
        \o (IF size % 2 = 1 THEN <<Pad>> ELSE <<>>)

ANMFSize(r) ==
    LET size == ANMFChunkSize + frameSubChunksSize(r.data)
    IN  ChunkHeaderSize + size + (size % 2)

\* The size of the first n frames.
framesSize[n \in 0..Len(frames)] ==
    IF n = 0 THEN 0 ELSE framesSize[n - 1] + ANMFSize(frames[n])

\* The size field of the RIFF header, summed before anything is written.
riffPayload ==
    4 + ChunkHeaderSize + VP8XChunkSize
      + metadataSize(iccData)
      + (IF isAnimated
         THEN ChunkHeaderSize + ANIMChunkSize + framesSize[Len(frames)]
         ELSE chunkTotalSize(Length(frames[1].data)))
      + metadataSize(exifData) + metadataSize(xmpData)

assembleExtended ==
    LET flags == [anim |-> isAnimated, alpha |-> hasAlpha, icc |-> iccData # Nil,
                  exif |-> exifData # Nil, xmp |-> xmpData # Nil]
        anim == <<ChunkHeader("ANIM", ANIMChunkSize),
                  Data(ANIMChunkSize, [bgColor |-> bgColor, loopCount |-> LE16(loopCount)])>>
        d == frames[1].data
    IN  <<RiffHeader(riffPayload)>>
        \o VP8X(flags, canvasSize[1], canvasSize[2])
        \o metadataChunk("ICCP", iccData)
        \o (IF isAnimated
            THEN anim \o FlattenSeq([i \in DOMAIN frames |-> writeANMFChunk(frames[i])])
            ELSE writeDataChunk(detectBitstreamType(d), Length(d), d))
        \o metadataChunk("EXIF", exifData)
        \o metadataChunk("XMP", xmpData)

(***************************************************************************)
(* writeRIFF of package webp: a still image with its alpha plane (Nil if   *)
(* it has none) and metadata.  Empty slices count as absent here.          *)
(***************************************************************************)
writeRIFF(d, icc, exif, xmp) ==
    LET id == d.codec
        present(n) == IF n > 0 THEN n ELSE Nil
        extended == \E n \in {d.alph, icc, exif, xmp} : n > 0
        flags == [anim |-> FALSE, icc |-> icc > 0, exif |-> exif > 0, xmp |-> xmp > 0,
                  alpha |-> d.alph > 0 \/ (d.codec = "VP8L" /\ d.alpha)]
        alphaSize == metadataSize(present(d.alph))
        size == 4 + ChunkHeaderSize + VP8XChunkSize
                  + metadataSize(present(icc)) + alphaSize + chunkTotalSize(d.n)
                  + metadataSize(present(exif)) + metadataSize(present(xmp))
    IN  IF ~extended
        THEN <<RiffHeader(4 + chunkTotalSize(d.n))>> \o writeDataChunk(id, d.n, Raw(d))
        ELSE <<RiffHeader(size)>> \o VP8X(flags, d.w, d.h)
             \o metadataChunk("ICCP", present(icc))
             \o metadataChunk("ALPH", present(d.alph))
             \o writeDataChunk(id, d.n, Raw(d))
             \o metadataChunk("EXIF", present(exif))
             \o metadataChunk("XMP", present(xmp))

(***************************************************************************)
(* What a reader of the whole file should find, from what the writer was   *)
(* given.  Offsets are stored in units of two.                             *)
(***************************************************************************)
Even(v) == v - (v % 2)

FrameGiven(r) ==
    [x |-> Even(r.x), y |-> Even(r.y), w |-> r.data.w, h |-> r.data.h,
     duration |-> r.duration, dispose |-> r.dispose, blend |-> r.blend,
     data |-> Raw(r.data), alph |-> r.data.alph,
     hasAlpha |-> r.data.alph # Nil \/ (IsVP8L(r.data) /\ r.data.alpha)]

StillGiven(d) ==
    StillFrame(d.w, d.h, Raw(d), d.alph, d.alph # Nil \/ (IsVP8L(d) /\ d.alpha))

MuxerGiven ==
    [ok |-> TRUE, anim |-> isAnimated, size |-> canvasSize,
     icc |-> iccData, exif |-> exifData, xmp |-> xmpData,
     bgColor |-> bgColor, loopCount |-> loopCount,
     frames |-> IF isAnimated THEN [i \in DOMAIN frames |-> FrameGiven(frames[i])]
                ELSE <<StillGiven(frames[1].data)>>]

(***************************************************************************)
(* The calls of the muxer's user.                                          *)
(***************************************************************************)
Init ==
    /\ frames = <<>>
    /\ iccData = Nil /\ exifData = Nil /\ xmpData = Nil
    /\ bgColor = 0 /\ loopCount = 0
    /\ canvas = <<0, 0>>
    /\ calls = 0 /\ file = <<>> /\ have = 0 /\ given = Nothing

Call ==
    /\ file = <<>> /\ calls < MaxCalls
    /\ calls' = calls + 1
    /\ UNCHANGED <<file, have, given>>

\* SetICCProfile, SetEXIF, SetXMP, and AddChunk with one of the three names.
SetICCProfile == Call /\ iccData' \in Metadata
                 /\ UNCHANGED <<frames, exifData, xmpData, bgColor, loopCount, canvas>>

SetEXIF == Call /\ exifData' \in Metadata
           /\ UNCHANGED <<frames, iccData, xmpData, bgColor, loopCount, canvas>>

SetXMP == Call /\ xmpData' \in Metadata
          /\ UNCHANGED <<frames, iccData, exifData, bgColor, loopCount, canvas>>

SetBackgroundColor == Call /\ bgColor' \in Colors
                      /\ UNCHANGED <<frames, iccData, exifData, xmpData, loopCount, canvas>>

SetLoopCount ==
    /\ Call
    /\ \E count \in LoopCounts : loopCount' = Clamp(count, maxLoopCount)
    /\ UNCHANGED <<frames, iccData, exifData, xmpData, bgColor, canvas>>

SetCanvasSize ==
    /\ Call
    /\ \E s \in CanvasSizes :
           canvas' = <<IF s[1] > MaxCanvasSize THEN MaxCanvasSize ELSE s[1],
                       IF s[2] > MaxCanvasSize THEN MaxCanvasSize ELSE s[2]>>
    /\ UNCHANGED <<frames, iccData, exifData, xmpData, bgColor, loopCount>>

\* A full muxer refuses the frame.
AddFrame ==
    /\ Call
    /\ \E d \in Images, o \in Options :
           frames' = IF Len(frames) >= MaxFrames THEN frames
                     ELSE Append(frames, [data |-> d, x |-> o.x, y |-> o.y,
                                          duration |-> clampDuration(o.duration),
                                          dispose |-> o.dispose, blend |-> o.blend])
    /\ UNCHANGED <<iccData, exifData, xmpData, bgColor, loopCount, canvas>>

SetFrameDisposeMode ==
    /\ Call
    /\ \E i \in DOMAIN frames, mode \in BOOLEAN :
           frames' = [frames EXCEPT ![i].dispose = mode]
    /\ UNCHANGED <<iccData, exifData, xmpData, bgColor, loopCount, canvas>>

SetFrameDuration ==
    /\ Call
    /\ \E i \in DOMAIN frames, d \in Durations :
           frames' = [frames EXCEPT ![i].duration = clampDuration(d)]
    /\ UNCHANGED <<iccData, exifData, xmpData, bgColor, loopCount, canvas>>

(***************************************************************************)
(* Writing and reading.  Of all places where a transfer can stop those     *)
(* count that lie at the start of a piece or one byte to either side.        *)
(***************************************************************************)
Cuts(f) ==
    {n \in {f[i].at + off : i \in DOMAIN f, off \in {-1, 0, 1}} \union {Bytes(f)} :
         0 <= n /\ n <= Bytes(f)}

Assemble ==
    /\ file = <<>>
    /\ validate
    /\ file' = Written(IF needsVP8X THEN assembleExtended ELSE assembleSimple)
    /\ given' = MuxerGiven
    /\ have' \in Cuts(file')
    /\ UNCHANGED <<muxer, calls>>

\* Assemble returns the error of validate and writes nothing.
AssembleRefused ==
    /\ file = <<>>
    /\ ~validate
    /\ UNCHANGED vars

\* Encode needs no muxer.  It knows the dimensions of what it encoded.
EncodeStill ==
    /\ file = <<>> /\ calls = 0
    /\ \E d \in Images, icc, exif, xmp \in Metadata :
           LET nonEmpty(n) == IF n > 0 THEN n ELSE Nil
           IN  /\ file' = Written(writeRIFF(d, icc, exif, xmp))
               /\ given' = [ok |-> TRUE, anim |-> FALSE, size |-> <<d.w, d.h>>,
                            icc |-> nonEmpty(icc), exif |-> nonEmpty(exif), xmp |-> nonEmpty(xmp),
                            bgColor |-> 0, loopCount |-> 0, frames |-> <<StillGiven(d)>>]
    /\ have' \in Cuts(file')
    /\ UNCHANGED <<muxer, calls>>

\* The file is put aside; the muxer can go on.
Discard ==
    /\ file # <<>>
    /\ file' = <<>> /\ have' = 0 /\ given' = Nothing
    /\ UNCHANGED <<muxer, calls>>

Next ==
    \/ SetICCProfile \/ SetEXIF \/ SetXMP
    \/ SetBackgroundColor \/ SetLoopCount \/ SetCanvasSize
    \/ AddFrame \/ SetFrameDisposeMode \/ SetFrameDuration
    \/ Assemble \/ AssembleRefused \/ EncodeStill \/ Discard

Spec == Init /\ [][Next]_vars

Whole == file # <<>> /\ have = Bytes(file)

\* A still image is one the muxer can carry if it has no ALPH prefix, which
\* assembleSimple would write as part of a VP8 chunk, and the canvas was not
\* made larger than the image: a still image has no size of its own in the file.
Carried ==
    \/ frames = <<>> \/ isAnimated
    \/ /\ frames[1].data.alph = Nil
       /\ canvasSize = <<frames[1].data.w, frames[1].data.h>>

\* What the demuxer reads r says what the writer was given.
Says(r) ==
    /\ r.ok
    /\ <<r.w, r.h>> = given.size
    /\ r.frames = given.frames
    /\ <<r.icc, r.exif, r.xmp>> = <<given.icc, given.exif, given.xmp>>
    /\ r.flags.anim = given.anim
    /\ r.flags.alpha = (\E i \in DOMAIN given.frames : given.frames[i].hasAlpha)
    /\ given.anim => <<r.bgColor, r.loopCount>> = <<given.bgColor, given.loopCount>>

\* A file that arrives whole gives the demuxer back every frame with its place,
\* size, duration, disposal, blending, image data and alpha plane as last set,
\* the metadata, the canvas, the loop count and the background; whatever the
\* order of the calls, and after frames were edited in place.
ReadsBack == Whole /\ Carried => Says(Demux(file, have))

\* What the demuxer reads d and what the parser reads p say the same.
Agree(d, p) ==
    /\ p.ok
    /\ p.frames = d.frames
    /\ <<p.w, p.h, p.flags, p.icc>> = <<d.w, d.h, d.flags, d.icc>>
    /\ d.flags.anim => <<p.exif, p.xmp, p.bgColor, p.loopCount>>
                        = <<d.exif, d.xmp, d.bgColor, d.loopCount>>

\* The parser refuses a canvas of 2^30 pixels and more, and an ALPH chunk with a
\* lossless image.  The writers check neither, and the demuxer reads both.
Parsable ==
    /\ given.size[1] * given.size[2] < MaxImageArea
    /\ \A i \in DOMAIN given.frames :
           given.frames[i].data.codec = "VP8L" => given.frames[i].alph = Nil

\* The two readers, parsers of the same bytes written apart, agree on every whole
\* file the parser takes: on frames, canvas, flags and profile, and where the parser
\* reads on past the images also on the other metadata, loop count and background.
ReadersAgree == Whole /\ Carried /\ Parsable => Agree(Demux(file, have), Parse(file, have))

\* The chunks with one of these names whose data have arrived to the last byte.
Arrived(ids) ==
    {i \in DOMAIN file : /\ file[i].kind = "header" /\ Id(file, i) \in ids
                        /\ file[i + 1].at + file[i + 1].n <= have}

\* What is read r is no more than what has arrived, with at least so many frames.
Honest(r, least) ==
    LET whole(n, was, id) == n = Nil \/ (n = was /\ Arrived({id}) # {})
    IN  r.ok => /\ IsPrefix(r.frames, given.frames)
                /\ least <= Len(r.frames)
                /\ Len(r.frames) <= Cardinality(Arrived({"VP8", "VP8L"}))
                /\ whole(r.icc, given.icc, "ICCP")
                /\ whole(r.exif, given.exif, "EXIF")
                /\ whole(r.xmp, given.xmp, "XMP")

\* Of a file cut off anywhere a reader returns an error, or the first frames as
\* they were given, no more than have arrived with their last byte, and of the
\* metadata only what has arrived whole; and the demuxer at least one frame.
CutIsPrefix ==
    file # <<>> /\ Carried =>
        /\ Honest(Demux(file, have), 1)
        /\ Honest(Parse(file, have), 0)

=============================================================================
