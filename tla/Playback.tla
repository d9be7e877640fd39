------------------------------- MODULE Playback -------------------------------
(***************************************************************************)
(* Playing an animation (src/animation/animation.go): the pixel operations  *)
(* the animation encoder and decoder share, and the AnimDecoder, which      *)
(* rebuilds the canvas frame by frame.  The decoder's fields are a record,  *)
(* and NextFrame is an operator on it, so that the encoder's specification  *)
(* can play a file too.                                                     *)
(*                                                                          *)
(* A pixel has one colour channel v (R, G and B are treated alike by every  *)
(* operation) and its alpha a.  A picture is a function from cells to       *)
(* pixels, and a rectangle contains its minimum and not its maximum, as     *)
(* image.Rectangle does.  A frame is                                        *)
(*   x, y, w, h   where it lies on the canvas                               *)
(*   img          its decoded pixels, on Grid(w, h)                         *)
(*   hasAlpha     what its bitstream header says                            *)
(*   blend        TRUE for BlendAlpha, FALSE for BlendNone                  *)
(*   disposeBG    TRUE for DisposeBackground                                *)
(*   dur          its duration                                              *)
(***************************************************************************)
EXTENDS Integers, Sequences, FiniteSetsExt

CONSTANTS width, height     \* the canvas

ASSUME CanvasAssumption == width \in Nat \ {0} /\ height \in Nat \ {0}

Pixel(v, a) == [v |-> v, a |-> a]
Transparent == Pixel(0, 0)

Grid(w, h) == (0 .. w - 1) \X (0 .. h - 1)
Pos == Grid(width, height)
Blank == [p \in Pos |-> Transparent]

Rect(x0, y0, x1, y1) == [x0 |-> x0, y0 |-> y0, x1 |-> x1, y1 |-> y1]
CanvasRect == Rect(0, 0, width, height)
NoRect == Rect(0, 0, 0, 0)
Dx(r) == r.x1 - r.x0
Dy(r) == r.y1 - r.y0
Cells(r) == {p \in Pos : r.x0 <= p[1] /\ p[1] < r.x1 /\ r.y0 <= p[2] /\ p[2] < r.y1}
Clip(r) ==
    LET Least(a, b) == IF a < b THEN a ELSE b
    IN  [r EXCEPT !.x1 = Least(@, width), !.y1 = Least(@, height)]

(***************************************************************************)
(* alphaBlendNRGBA, on bytes: the factor scale is (1 << 24) / blendA, and   *)
(* the product of an up to 16-bit sum with it is shifted right by 24.  The  *)
(* shift is done in two halves here, which loses nothing.                   *)
(***************************************************************************)
Scaled(x, scale) == (x * (scale \div 4096) + (x * (scale % 4096)) \div 4096) \div 4096

BlendWithoutShortcut(src, dst) ==
    LET dstFactorA == (dst.a * (256 - src.a)) \div 256
        blendA     == src.a + dstFactorA
        v          == Scaled(src.v * src.a + dst.v * dstFactorA, 16777216 \div blendA)
    IN  Pixel(IF v > 255 THEN 255 ELSE v, blendA % 256)

alphaBlend(src, dst) ==
    IF src.a = 0 THEN dst
    ELSE IF src.a = 255 \/ dst.a = 0 THEN src
    ELSE BlendWithoutShortcut(src, dst)

fillRect(canvas, r, px) == [p \in Pos |-> IF p \in Cells(r) THEN px ELSE canvas[p]]

\* findChangedRect: the bounding box of the cells that differ.
findChangedRect(prev, curr) ==
    LET changed == {p \in Pos : prev[p] # curr[p]}
        xs == {p[1] : p \in changed}
        ys == {p[2] : p \in changed}
    IN  IF changed = {} THEN NoRect
        ELSE Rect(Min(xs), Min(ys), Max(xs) + 1, Max(ys) + 1)

SnapOffsetsOnly(r) ==   \* mutant: the width is not widened by the pixel that was gained
    LET x == r.x0 - (r.x0 % 2)
        y == r.y0 - (r.y0 % 2)
    IN  Rect(x, y, x + Dx(r), y + Dy(r))

\* Offsets are stored halved: an odd one moves down, and the size grows by one.
snapToEven(r) == Rect(r.x0 - (r.x0 % 2), r.y0 - (r.y0 % 2), r.x1, r.y1)

extractSubImage(src, r) ==
    [p \in Grid(Dx(r), Dy(r)) |-> src[<<r.x0 + p[1], r.y0 + p[2]>>]]

\* copyImageRect onto an empty canvas at (0, 0): a smaller picture is padded
\* with transparent pixels, a larger one is cropped.
Placed(img) == [p \in Pos |-> IF p \in DOMAIN img THEN img[p] ELSE Transparent]

(***************************************************************************)
(* AnimDecoder                                                              *)
(***************************************************************************)
Bounds(f) == Rect(f.x, f.y, f.x + f.w, f.y + f.h)
Full(r) == r = CanvasRect

NewAnimDecoder ==
    [pos |-> 1,
     currFrame |-> Blank, prevFrameDisposed |-> Blank,
     prevFrameWasKeyframe |-> FALSE, prevDisposeBG |-> FALSE, prevBounds |-> NoRect]

DisposedKeyFrame(d, i, f) ==   \* mutant: any frame after a disposed one starts from blank
    \/ i = 1
    \/ Full(Bounds(f)) /\ (~f.hasAlpha \/ ~f.blend)
    \/ d.prevDisposeBG

isKeyFrame(d, i, f) ==
    \/ i = 1
    \/ Full(Bounds(f)) /\ (~f.hasAlpha \/ ~f.blend)
    \/ d.prevDisposeBG /\ (Full(d.prevBounds) \/ d.prevFrameWasKeyframe)

compositeFrame(canvas, f) ==
    [p \in Pos |->
        IF p \in Cells(Clip(Bounds(f)))
        THEN LET src == f.img[<<p[1] - f.x, p[2] - f.y>>]
             IN  IF f.blend THEN alphaBlend(src, canvas[p]) ELSE src
        ELSE canvas[p]]

applyDispose(canvas, f) ==
    IF f.disposeBG THEN fillRect(canvas, Bounds(f), Transparent) ELSE canvas

\* NextFrame on a decoder d whose next frame is f, with a decoded image.
Advanced(d, f) ==
    LET keyFrame == isKeyFrame(d, d.pos, f)
        curr == compositeFrame(IF keyFrame THEN Blank ELSE d.prevFrameDisposed, f)
    IN  [pos |-> d.pos + 1,
         currFrame |-> curr, prevFrameDisposed |-> applyDispose(curr, f),
         prevFrameWasKeyframe |-> keyFrame,
         prevDisposeBG |-> f.disposeBG, prevBounds |-> Bounds(f)]

\* Reset
Rewound(d) ==
    [pos |-> 1,
     currFrame |-> Blank, prevFrameDisposed |-> Blank,
     prevFrameWasKeyframe |-> FALSE, prevDisposeBG |-> FALSE, prevBounds |-> NoRect]

(***************************************************************************)
(* What a file shows                                                        *)
(***************************************************************************)

\* A frame of a file that keeps its promises: where the bitstream header
\* announces no alpha, the decoded picture has none.  The encoder announces it
\* always; the decoder takes a file's word for it.
IsFrame(f) ==
    /\ f.x \in Nat /\ f.y \in Nat /\ f.w \in Nat /\ f.h \in Nat
    /\ {f.hasAlpha, f.blend, f.disposeBG} \subseteq BOOLEAN
    /\ DOMAIN f.img = Grid(f.w, f.h)
    /\ ~f.hasAlpha => \A p \in Grid(f.w, f.h) : f.img[p].a = 255

\* The container's rendering rules, which know no keyframes: every frame is
\* drawn on what the previous one left behind once it was disposed of.  This is
\* the canvas after each number of frames.
Rendered(frames) ==
    LET canvas[n \in 0 .. Len(frames)] ==
            IF n = 0 THEN Blank
            ELSE compositeFrame(IF n = 1 THEN Blank
                                ELSE applyDispose(canvas[n - 1], frames[n - 1]),
                                frames[n])
    IN  canvas

\* The decoder before the first frame and after each of them.
Decoders(frames) ==
    LET d[n \in 0 .. Len(frames)] ==
            IF n = 0 THEN NewAnimDecoder ELSE Advanced(d[n - 1], frames[n])
    IN  d

\* What NextFrame returns, called until HasNext is false.
Play(frames) ==
    LET d == Decoders(frames)
    IN  [n \in 1 .. Len(frames) |-> [canvas |-> d[n].currFrame, dur |-> frames[n].dur]]

\* What a viewer sees: a picture shown twice in a row is one, shown longer.
Prolonged(line, s) ==
    IF line # << >> /\ line[Len(line)].canvas = s.canvas
    THEN [line EXCEPT ![Len(line)].dur = @ + s.dur]
    ELSE Append(line, s)
Watched(shown) ==     \* after each number of pictures
    LET line[n \in 0 .. Len(shown)] ==
            IF n = 0 THEN << >> ELSE Prolonged(line[n - 1], shown[n])
    IN  line
Timeline(shown) == Watched(shown)[Len(shown)]
=============================================================================
