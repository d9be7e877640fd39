------------------------------ MODULE AnimEncoder ------------------------------
(***************************************************************************)
(* The AnimEncoder (src/animation/animation.go) with the frame list of the  *)
(* Muxer it writes through (src/mux/mux.go).                                *)
(*                                                                          *)
(* AddFrame commits every frame at once: a first frame and keyframes cover  *)
(* the canvas; a picture equal to the last one only lengthens it; any other *)
(* picture is cut down to the rectangle that changed, against the previous  *)
(* canvas as it is or with the previous frame disposed of, whichever makes  *)
(* the smaller bitstream.  The codec is external: it fails or not, and one  *)
(* bitstream is smaller than another one of a different picture, at will.   *)
(* A lossless bitstream keeps the picture but for the colour under fully    *)
(* transparent pixels, which it clears (EncoderOptions.Exact is off).  A    *)
(* lossy one, in an animation, changes that colour and loses the alpha      *)
(* (encodeFrameForAnimation, src/webp.go, drops the alpha plane) and, here, *)
(* nothing else.                                                            *)
(***************************************************************************)
EXTENDS Playback

CONSTANTS
    Configurations,  \* EncodeOptions, and what a caller adds under them
    maxDuration,     \* 2^24 - 1 in the code
    MaxCalls         \* bound: how often AddFrame and AddRawFrame are called

Pixels == [v : 0 .. 255, a : 0 .. 255]

ASSUME AnimEncoderAssumption ==
    /\ maxDuration \in Nat \ {0} /\ MaxCalls \in Nat
    /\ \A c \in Configurations :
        /\ c.Lossless \in BOOLEAN /\ c.AllowMixed \in BOOLEAN
        /\ c.Kmin \in Int /\ c.Kmax \in Int
        /\ c.MaxDiff \in Nat              \* qualityToMaxDiff(Quality)
        /\ c.MaxFrames \in Nat \ {0}      \* container.MaxFrames, 10000 in the code
        /\ c.Faults \in BOOLEAN           \* may an encode fail?
        /\ c.Durations \subseteq 0 .. maxDuration
        /\ {"Images", "RawFrames"} \subseteq DOMAIN c    \* the pictures and raw frames a caller adds
        /\ \A img \in c.Images : \A p \in DOMAIN img : img[p] \in Pixels

MaxInt == 2147483647

\* sanitizeKeyframeOptions
sanitizeKeyframeOptions(kmin, kmax) ==
    LET kminLimit == kmax \div 2 + 1
        k == IF kmin >= kmax THEN kmax - 1
             ELSE IF kmin < kminLimit /\ kminLimit < kmax THEN kminLimit ELSE kmin
    IN  IF kmax <= 0 THEN [kmin |-> MaxInt - 1, kmax |-> MaxInt]
        ELSE IF kmax = 1 THEN [kmin |-> 0, kmax |-> 0]
        ELSE [kmin |-> IF kmax - k > 30 THEN kmax - 30 ELSE k, kmax |-> kmax]
VARIABLES
    cfg,
    mux,                 \* Muxer.frames
    prevCanvas,          \* NoCanvas while it is nil
    prevFrameRect, prevMuxIndex, frameCount, countSinceKeyframe,
    meta,                \* has metadata been set on the muxer?
    closed,
    file,                \* what was written
    calls,
    ret,                 \* what the last call returned, or that it panicked
    added,               \* history: the pictures AddFrame accepted, as they look
    given                \* history: the caller's own frames and where they are

optState == <<prevCanvas, prevFrameRect, prevMuxIndex, frameCount>>
vars == <<cfg, mux, optState, countSinceKeyframe, meta, closed, file, calls, ret, added, given>>

opts == sanitizeKeyframeOptions(cfg.Kmin, cfg.Kmax)

NoCanvas == << >>
NoFile == [kind |-> "none", frames |-> << >>, meta |-> FALSE]

Init ==
    /\ cfg \in Configurations
    /\ mux = << >> /\ prevCanvas = NoCanvas /\ prevFrameRect = NoRect
    /\ prevMuxIndex = 1 /\ frameCount = 0 /\ countSinceKeyframe = 0
    /\ meta = FALSE /\ closed = FALSE /\ file = NoFile
    /\ calls = 0 /\ ret = "none" /\ added = << >> /\ given = {}

(***************************************************************************)
(* The codec and the muxer                                                  *)
(***************************************************************************)

Codecs == (IF cfg.Lossless THEN {"VP8L"} ELSE {"VP8"})
              \cup (IF cfg.AllowMixed THEN {"VP8", "VP8L"} ELSE {})

\* encodeLossless clears the colour of pixels that cannot be seen; every VP8L
\* header this encoder writes has the alpha flag.
cleanupTransparentAreaLossless(img) ==
    [p \in DOMAIN img |-> IF img[p].a = 0 THEN Transparent ELSE img[p]]
LosslessFrame(img) == [hasAlpha |-> TRUE, img |-> cleanupTransparentAreaLossless(img)]

\* encodeLossy gives such pixels a colour from around them, here one colour of
\* the picture (cleanupTransparentAreaLossyWith); without the alpha it is seen.
LossyFrames(img) ==
    {[hasAlpha |-> FALSE,
      img |-> [p \in DOMAIN img |-> Pixel(IF img[p].a = 0 THEN v ELSE img[p].v, 255)]]
        : v \in {img[p].v : p \in DOMAIN img}}

\* encodeFrame: the bitstreams an image may become, as what they decode to.
encodeFrame(img) ==
    {bs \in {LosslessFrame(img)} \cup LossyFrames(img) :
        (IF bs.hasAlpha THEN "VP8L" ELSE "VP8") \in Codecs}
MayFail == cfg.Faults

clampDuration(t) == IF t < 0 THEN 0 ELSE IF t > maxDuration THEN maxDuration ELSE t

MuxFrame(r, bs, blend, disposeBG, dur) ==
    [x |-> r.x0, y |-> r.y0, w |-> Dx(r), h |-> Dy(r), img |-> bs.img, hasAlpha |-> bs.hasAlpha,
     blend |-> blend, disposeBG |-> disposeBG, dur |-> clampDuration(dur)]
MuxFull == Len(mux) >= cfg.MaxFrames

Fail ==
    /\ ret' = "error"
    /\ UNCHANGED <<optState, meta, closed, file, added>>
\* What is seen of a picture.
Visible(c) == [p \in DOMAIN c |-> IF c[p].a = 0 THEN Transparent ELSE c[p]]
Accept(c, dur) ==
    /\ ret' = "ok"
    /\ added' = Append(added, [canvas |-> Visible(c), dur |-> dur])
    /\ UNCHANGED <<meta, closed, file>>

(***************************************************************************)
(* AddFrame                                                                 *)
(***************************************************************************)

\* The full-canvas frame of encodeKeyframe and of the first AddFrame.
EncodeFull(c, dur) ==
    \/ /\ MayFail \/ MuxFull
       /\ countSinceKeyframe' = IF frameCount = 0 THEN countSinceKeyframe ELSE countSinceKeyframe + 1
       /\ Fail /\ UNCHANGED mux
    \/ \E bs \in encodeFrame(c) :
        /\ ~MuxFull
        /\ mux' = Append(mux, MuxFrame(CanvasRect, bs, FALSE, FALSE, dur))
        /\ prevCanvas' = c
        /\ prevFrameRect' = CanvasRect
        /\ prevMuxIndex' = Len(mux) + 1
        /\ frameCount' = frameCount + 1
        /\ countSinceKeyframe' = 0
        /\ Accept(c, dur)

pixelsAreSimilar(src, dst) ==
    LET diff == IF src.v > dst.v THEN src.v - dst.v ELSE dst.v - src.v
    IN  src.a = dst.a /\ diff * dst.a <= cfg.MaxDiff * 255

\* isLosslessBlendingPossible, isLossyBlendingPossible
BlendingPossible(src, dst, r) ==
    \A p \in Cells(r) :
        dst[p].a = 255 \/ (IF cfg.Lossless THEN src[p] = dst[p] ELSE pixelsAreSimilar(src[p], dst[p]))

\* The rectangle to encode if the canvas shows base, and how to draw it.
Candidate(base, c) ==
    LET changed == findChangedRect(base, c)
        r == Clip(snapToEven(IF changed = NoRect THEN Rect(0, 0, 1, 1) ELSE changed))
    IN  [rect |-> r, blend |-> BlendingPossible(base, c, r), img |-> extractSubImage(c, r)]

Disposed == fillRect(prevCanvas, prevFrameRect, Transparent)

LargeArea(r) == Dx(r) * Dy(r) > (width * height * 9) \div 10

PrevInMuxer == Len(mux)   \* mutant: the muxer's last frame, whoever added it
PrevOffByOne == prevMuxIndex - 1  \* mutant: as NumFrames() - 2 would be
PrevToDispose == prevMuxIndex

\* One of the candidates is committed, the previous frame's dispose mode
\* being updated in the muxer first.
EmitSubFrame(cand, bg, c, dur) ==
    LET kept == IF bg /\ PrevToDispose \in DOMAIN mux
                THEN [mux EXCEPT ![PrevToDispose].disposeBG = TRUE] ELSE mux
    IN  /\ countSinceKeyframe' = countSinceKeyframe + 1
        /\ IF MuxFull
           THEN Fail /\ mux' = kept
           ELSE \E bs \in encodeFrame(cand.img) :
                /\ mux' = Append(kept, MuxFrame(cand.rect, bs, cand.blend, FALSE, dur))
                /\ prevCanvas' = c
                /\ prevFrameRect' = cand.rect
                /\ prevMuxIndex' = Len(mux) + 1
                /\ frameCount' = frameCount + 1
                /\ Accept(c, dur)

EncodeSubFrame(c, dur) ==
    LET none == Candidate(prevCanvas, c)
        bg   == Candidate(Disposed, c)
    IN  \/ /\ MayFail
           /\ countSinceKeyframe' = countSinceKeyframe + 1
           /\ Fail /\ UNCHANGED mux
        \/ \E cand \in {none, bg} :
            /\ cand = bg /\ bg # none =>     \* an equal bitstream is not smaller
                  encodeFrame(bg.img) # encodeFrame(none.img)
            /\ \/ EmitSubFrame(cand, cand # none, c, dur)
               \/ /\ LargeArea(cand.rect) /\ cand.rect # CanvasRect
                  /\ EncodeFull(c, dur)

\* encodeSubFrame on a nil prevCanvas.
Panic ==
    /\ ret' = "panic"
    /\ countSinceKeyframe' = countSinceKeyframe + 1
    /\ UNCHANGED <<mux, optState, meta, closed, file, added>>

\* The one transparent pixel that carries what exceeds maxDuration.
FillerImage == [p \in Grid(1, 1) |-> Transparent]

increasePreviousDuration(dur) ==
    LET newDur == mux[prevMuxIndex].dur + dur
        extended(t) == [mux EXCEPT ![prevMuxIndex].dur = clampDuration(t)]
    IN  \/ /\ newDur < maxDuration
           /\ mux' = extended(newDur)
           /\ Accept(prevCanvas, dur)
           /\ UNCHANGED <<optState, countSinceKeyframe>>
        \/ /\ newDur >= maxDuration
           /\ MayFail \/ MuxFull
           /\ mux' = extended(maxDuration)
           /\ Fail /\ UNCHANGED countSinceKeyframe
        \/ /\ newDur >= maxDuration /\ ~MuxFull
           /\ \E bs \in encodeFrame(FillerImage) :
                mux' = Append(extended(maxDuration),
                              MuxFrame(Rect(0, 0, 1, 1), bs, TRUE, FALSE, newDur - maxDuration))
           /\ prevMuxIndex' = Len(mux) + 1
           /\ frameCount' = frameCount + 1
           /\ countSinceKeyframe' = countSinceKeyframe + 1
           /\ UNCHANGED <<prevCanvas, prevFrameRect>>
           /\ Accept(prevCanvas, dur)

ForceKeyframeLate == countSinceKeyframe >= opts.kmax   \* mutant: counts before it increments
forceKeyframe == countSinceKeyframe + 1 >= opts.kmax

AddFrame(img, dur) ==
    LET c == Placed(img)
    IN  IF closed
        THEN Fail /\ UNCHANGED <<mux, countSinceKeyframe>>
        ELSE IF frameCount = 0 THEN EncodeFull(c, dur)
        ELSE IF prevCanvas = c THEN increasePreviousDuration(dur)
        ELSE IF forceKeyframe THEN EncodeFull(c, dur)
        ELSE IF prevCanvas = NoCanvas THEN Panic
        ELSE EncodeSubFrame(c, dur)

\* The next frame of the muxer is one of the caller's own.
Give(f) ==
    LET held == [f EXCEPT !.dur = clampDuration(@)]
    IN  /\ mux' = Append(mux, held)
        /\ given' = given \cup {[at |-> Len(mux) + 1, frame |-> held]}

\* AddFrame of a NewBitstreamFrame: counted, but not remembered as a picture.
AddBitstreamFrame(f) ==
    IF closed
    THEN Fail /\ UNCHANGED <<mux, countSinceKeyframe, given>>
    ELSE /\ frameCount' = frameCount + 1
         /\ IF MuxFull
            THEN ret' = "error" /\ UNCHANGED <<mux, given>>
            ELSE ret' = "ok" /\ Give([f EXCEPT !.x = 0, !.y = 0, !.blend = TRUE, !.disposeBG = FALSE])
         /\ UNCHANGED <<prevCanvas, prevFrameRect, prevMuxIndex, countSinceKeyframe,
                        meta, closed, file, added>>

AddRawFrame(f) ==
    /\ IF closed \/ MuxFull
       THEN ret' = "error" /\ UNCHANGED <<mux, given>>
       ELSE ret' = "ok" /\ Give(f)
    /\ UNCHANGED <<optState, countSinceKeyframe, meta, closed, file, added>>

\* SetICCProfile, SetEXIF, SetXMP
SetMetadata ==
    /\ meta' = TRUE
    /\ UNCHANGED <<mux, optState, countSinceKeyframe, closed, file, calls, ret, added, given>>

(***************************************************************************)
(* Close                                                                    *)
(***************************************************************************)

isAnimated == Len(mux) > 1 \/ \E i \in DOMAIN mux : mux[i].dur > 0

\* Muxer.validate
Valid ==
    /\ mux # << >>
    /\ \A i \in DOMAIN mux : mux[i].x + mux[i].w <= width /\ mux[i].y + mux[i].h <= height

\* Muxer.Assemble, and NewDemuxer of what it wrote: an ANMF chunk stores
\* halved offsets; a still image stores neither offset, duration nor modes.
Assembled ==
    IF isAnimated
    THEN [kind |-> "animation", meta |-> meta,
          frames |-> [i \in DOMAIN mux |-> [mux[i] EXCEPT !.x = 2 * (@ \div 2), !.y = 2 * (@ \div 2)]]]
    ELSE [kind |-> "still", meta |-> meta,
          frames |-> [i \in DOMAIN mux |-> [mux[i] EXCEPT !.x = 0, !.y = 0, !.dur = 0,
                                                          !.blend = TRUE, !.disposeBG = FALSE]]]

\* SimpleEncodeFunc(prevCanvas): a simple file of the last canvas, with its
\* alpha in either codec, without the metadata, and with some other colour
\* where nothing is seen of it.
Simple ==
    [kind |-> "still", meta |-> FALSE,
     frames |-> <<MuxFrame(CanvasRect, LosslessFrame(prevCanvas), TRUE, FALSE, 0)>>]

CloseKeepingCount(m) ==   \* mutant: any animation is cut down to its last canvas
    m # << >>

SingleFrame(m) == frameCount = 1

Close ==
    /\ closed' = TRUE
    /\ IF closed THEN ret' = "ok" /\ UNCHANGED file
       ELSE IF ~Valid THEN ret' = "error" /\ UNCHANGED file
       ELSE /\ ret' = "ok"
            /\ \/ file' = Assembled
               \/ SingleFrame(mux) /\ prevCanvas # NoCanvas /\ file' = Simple
    /\ UNCHANGED <<mux, optState, countSinceKeyframe, meta, calls, added, given>>

Call == calls < MaxCalls /\ calls' = calls + 1
AddSomeFrame == Call /\ \E img \in cfg.Images, t \in cfg.Durations : AddFrame(img, t) /\ UNCHANGED given
AddSomeRaw == Call /\ \E f \in cfg.RawFrames : AddRawFrame(f) \/ AddBitstreamFrame(f)

Next ==
    /\ ret # "panic"
    /\ AddSomeFrame \/ AddSomeRaw \/ SetMetadata \/ Close
    /\ UNCHANGED cfg
Spec == Init /\ [][Next]_vars

(***************************************************************************)
(* Properties                                                               *)
(***************************************************************************)

\* When what was added can be shown exactly.  Each premise is one of the state
\* the encoder is in, and is lost only with the call that breaks it.

\* Raw frames show pictures of their own.
NoRaw == cfg.RawFrames = {}

\* No picture loses its alpha: it is opaque, or no lossy bitstream is tried.
LosslessOnly == cfg.Lossless /\ ~cfg.AllowMixed
AlphaKept == LosslessOnly \/ \A i \in DOMAIN added : \A p \in Pos : added[i].canvas[p].a = 255

\* No semi-transparent pixel is blended: BlendingPossible takes an unchanged
\* one to give itself when it is drawn over itself, and it does not.
NoneOverItself ==
    \A i \in DOMAIN mux :
        mux[i].blend => \A p \in DOMAIN mux[i].img : mux[i].img[p].a \in {0, 255}

\* No duration is overlong; or each was split, its filler keeping its alpha and
\* being refused by nobody, and no filler is disposed of: prevFrameRect is still
\* the rectangle of the frame before it (increasePreviousDuration).
NoneFull == \A i \in DOMAIN mux : mux[i].dur < maxDuration
Filler(f) == DOMAIN f.img = DOMAIN FillerImage
Splits(m, i) == i > 1 /\ m[i - 1].dur = maxDuration /\ Filler(m[i])
FillersUnseen ==
    /\ NoneFull \/ (LosslessOnly /\ ~cfg.Faults /\ ~MuxFull)
    /\ \A i \in DOMAIN mux : Splits(mux, i) => ~mux[i].disposeBG

Undisturbed == NoRaw /\ AlphaKept /\ NoneOverItself /\ FillersUnseen

\* The frames committed so far, played by the decoder, show the pictures that
\* were added, in their order, each for the time asked for, as long as they are
\* Undisturbed (the four premises above): then neither cutting a frame down to
\* what changed, nor blending it, nor disposing of the previous one after the
\* fact, nor splitting an overlong duration, nor a call that failed, nor colour
\* under clear pixels, which the encoder compares and the file does not have, is
\* seen (addOptimizedFrame, encodeSubFrame, increasePreviousDuration).
ShowsWhatWasAdded == Undisturbed => Timeline(Play(mux)) = Timeline(added)

\* A call that fails leaves the animation as it was, even where the dispose
\* mode of the previous frame is updated before the muxer refuses the new one
\* (encodeSubFrame).  Where the caller adds no raw frames, and until a frame
\* lasts maxDuration: a filler that fails has lengthened the frame before it.
FailuresShowNothing ==
    [][(NoRaw /\ NoneFull') =>
          (ret' = "error" => Timeline(Play(mux')) = Timeline(Play(mux)))]_vars

\* Of any Kmax frames in a row one covers the canvas and is not blended, so
\* that a viewer may enter there (EncodeOptions.Kmax): neither sub-frames, nor
\* lengthened frames, nor failed calls delay the keyframe.  A filler frame
\* takes the place of a frame, so runs with one are left out.
SelfContained(f) == Bounds(f) = CanvasRect /\ ~f.blend
KeyframeEveryKmax ==
    \A i \in DOMAIN mux :
        LET span == IF opts.kmax = 0 THEN 1 ELSE opts.kmax
        IN  span <= Len(mux) - i + 1 =>
                \E j \in i .. i + span - 1 : SelfContained(mux[j]) \/ Filler(mux[j])

\* What Close writes shows what the muxer holds, whether it writes the
\* animation or, smaller, a simple file of the last canvas (Close, Assemble);
\* where the caller adds no raw frames, which Close does not count.  A simple
\* file keeps an alpha that a lossy frame lost, so a still image shows what is
\* held where the alpha was kept.
Pictures(shown) == [i \in DOMAIN shown |-> shown[i].canvas]
FileIsWhole ==
    file.kind # "none" /\ NoRaw =>
        LET written == Timeline(Play(file.frames))
            held    == Timeline(Play(mux))
        IN  IF file.kind = "animation" THEN written = held
            ELSE AlphaKept => Pictures(written) = Pictures(held)

\* Frames the caller encoded stay in the muxer where and as they were given:
\* updates of "the previous frame" never reach them (prevMuxIndex,
\* SetFrameDisposeMode, SetFrameDuration).
RawFramesUntouched == \A g \in given : g.at \in DOMAIN mux /\ mux[g.at] = g.frame
===============================================================================
