--------------------------- MODULE AnimEncoderProofs ---------------------------
(* Theorems about AnimEncoder: what a file of the encoder shows, for every       *)
(* canvas, every set of pictures and durations, every limit of the muxer and     *)
(* every order of calls.                                                         *)
EXTENDS AnimEncoder, PlaybackProofs

(***************************************************************************)
(* Pictures and the frames they become                                      *)
(***************************************************************************)

Canvases == [Pos -> Pixels]
Bitmaps == UNION {[D -> Pixels] : D \in SUBSET (Int \X Int)}

Frames == [x : Nat, y : Nat, w : Nat, h : Nat, img : Bitmaps, hasAlpha : BOOLEAN,
           blend : BOOLEAN, disposeBG : BOOLEAN, dur : 0 .. maxDuration]

\* A frame as the encoder commits it: on the canvas, at even offsets, with
\* the alpha flag its codec writes.
Committed(f) ==
    /\ f \in Frames /\ IsFrame(f) /\ f.img \in [Grid(f.w, f.h) -> Pixels]
    /\ f.x % 2 = 0 /\ f.y % 2 = 0
    /\ f.x + f.w <= width /\ f.y + f.h <= height

\* A rectangle such a frame may have.
Fits(r) ==
    /\ r = Rect(r.x0, r.y0, r.x1, r.y1)
    /\ r.x0 \in Nat /\ r.y0 \in Nat /\ r.x1 \in Nat /\ r.y1 \in Nat
    /\ r.x0 % 2 = 0 /\ r.y0 % 2 = 0
    /\ r.x0 < r.x1 /\ r.x1 <= width /\ r.y0 < r.y1 /\ r.y1 <= height

LEMMA Sizes == width \in Nat /\ height \in Nat /\ width >= 1 /\ height >= 1
BY CanvasAssumption

LEMMA PlacedType ==
    ASSUME NEW c \in Configurations, NEW img \in c.Images
    PROVE  Placed(img) \in Canvases
<1>1. Transparent \in Pixels
    BY DEF Transparent, Pixel, Pixels
<1>2. \A p \in DOMAIN img : img[p] \in Pixels
    BY AnimEncoderAssumption
<1>3. QED
    BY <1>1, <1>2 DEF Placed, Canvases

LEMMA CanvasIsSome == \A c \in Canvases : c # NoCanvas
<1>1. <<0, 0>> \in Pos
    BY Sizes DEF Pos, Grid
<1>2. DOMAIN NoCanvas = {}
    BY DEF NoCanvas
<1>3. QED
    BY <1>1, <1>2 DEF Canvases

LEMMA CanvasFits == Fits(CanvasRect)
<1>1. /\ CanvasRect.x0 = 0 /\ CanvasRect.y0 = 0
      /\ CanvasRect.x1 = width /\ CanvasRect.y1 = height
    BY DEF CanvasRect, Rect
<1>2. CanvasRect = Rect(CanvasRect.x0, CanvasRect.y0, CanvasRect.x1, CanvasRect.y1)
    BY <1>1 DEF CanvasRect
<1>3. QED
    BY <1>1, <1>2, Sizes DEF Fits

LEMMA Cropped ==
    ASSUME NEW c \in Canvases, NEW r, Fits(r)
    PROVE  /\ Dx(r) \in Nat /\ Dy(r) \in Nat
           /\ extractSubImage(c, r) \in [Grid(Dx(r), Dy(r)) -> Pixels]
<1>1. Dx(r) \in Nat /\ Dy(r) \in Nat
    BY DEF Fits, Dx, Dy
<1>2. ASSUME NEW p \in Grid(Dx(r), Dy(r)) PROVE <<r.x0 + p[1], r.y0 + p[2]>> \in Pos
    <2>1. p[1] \in 0 .. Dx(r) - 1 /\ p[2] \in 0 .. Dy(r) - 1
        BY DEF Grid
    <2>2. r.x0 + p[1] \in 0 .. width - 1 /\ r.y0 + p[2] \in 0 .. height - 1
        BY <2>1, Sizes DEF Fits, Dx, Dy
    <2>3. QED
        BY <2>2 DEF Pos, Grid
<1>3. QED
    BY <1>1, <1>2 DEF extractSubImage, Canvases

(***************************************************************************)
(* What is seen of a picture                                                *)
(***************************************************************************)

\* Clear pixels carry no colour.
Bare(img) == \A p \in Pos : img[p].a = 0 => img[p] = Transparent

LEMMA Seen ==
    ASSUME NEW D, NEW c \in [D -> Pixels]
    PROVE  /\ Visible(c) \in [D -> Pixels] /\ cleanupTransparentAreaLossless(c) = Visible(c)
           /\ \A p \in D : /\ Visible(c)[p].a = c[p].a
                           /\ c[p].a # 0 => Visible(c)[p] = c[p]
                           /\ c[p].a = 0 => Visible(c)[p] = Transparent
<1>1. Transparent \in Pixels /\ Transparent.a = 0
    BY DEF Transparent, Pixel, Pixels
<1>2. DOMAIN c = D /\ \A p \in D : c[p] \in Pixels
    OBVIOUS
<1>3. Visible(c) = [p \in D |-> IF c[p].a = 0 THEN Transparent ELSE c[p]]
    BY <1>2 DEF Visible
<1>4. cleanupTransparentAreaLossless(c) = Visible(c)
    BY DEF cleanupTransparentAreaLossless, Visible
<1>5. QED
    BY <1>1, <1>2, <1>3, <1>4

LEMMA SeenCanvas ==
    ASSUME NEW c \in Canvases
    PROVE  /\ Visible(c) \in Canvases /\ Bare(Visible(c))
           /\ \A p \in Pos : /\ Visible(c)[p].a = c[p].a
                             /\ c[p].a # 0 => Visible(c)[p] = c[p]
                             /\ c[p].a = 0 => Visible(c)[p] = Transparent
BY Seen DEF Canvases, Bare

LEMMA CroppedAt ==
    ASSUME NEW c, NEW r, Fits(r), NEW p \in Cells(r)
    PROVE  /\ p \in Pos
           /\ <<p[1] - r.x0, p[2] - r.y0>> \in Grid(Dx(r), Dy(r))
           /\ extractSubImage(c, r)[<<p[1] - r.x0, p[2] - r.y0>>] = c[p]
<1> DEFINE q == <<p[1] - r.x0, p[2] - r.y0>>
<1>1. /\ p \in Pos /\ p[1] \in Int /\ p[2] \in Int /\ p = <<p[1], p[2]>>
      /\ r.x0 <= p[1] /\ p[1] < r.x1 /\ r.y0 <= p[2] /\ p[2] < r.y1
    BY Sizes DEF Cells, Pos, Grid
<1>2. q \in Grid(Dx(r), Dy(r))
    BY <1>1 DEF Grid, Fits, Dx, Dy
<1>3. r.x0 + q[1] = p[1] /\ r.y0 + q[2] = p[2]
    BY <1>1 DEF Fits
<1>4. extractSubImage(c, r)[q] = c[<<r.x0 + q[1], r.y0 + q[2]>>]
    BY <1>2 DEF extractSubImage
<1>5. QED
    BY <1>1, <1>2, <1>3, <1>4

\* What is seen of a part of a picture is that part of what is seen of it, and
\* so it is for a picture of which a rectangle was cleared.
LEMMA SeenInPart ==
    ASSUME NEW c \in Canvases, NEW r, Fits(r)
    PROVE  Visible(extractSubImage(c, r)) = extractSubImage(Visible(c), r)
<1> DEFINE D == Grid(Dx(r), Dy(r))
           e == extractSubImage(c, r)
<1>1. e \in [D -> Pixels] /\ extractSubImage(Visible(c), r) \in [D -> Pixels]
    BY SeenCanvas, Cropped
<1>2. Visible(e) \in [D -> Pixels]
    BY <1>1, Seen
<1>3. ASSUME NEW p \in D PROVE Visible(e)[p] = extractSubImage(Visible(c), r)[p]
    <2> DEFINE q == <<r.x0 + p[1], r.y0 + p[2]>>
    <2>1. q \in Pos
        <3>1. p[1] \in 0 .. Dx(r) - 1 /\ p[2] \in 0 .. Dy(r) - 1
            BY DEF Grid
        <3>2. r.x0 + p[1] \in 0 .. width - 1 /\ r.y0 + p[2] \in 0 .. height - 1
            BY <3>1, Sizes DEF Fits, Dx, Dy
        <3>3. QED
            BY <3>2 DEF Pos, Grid
    <2>2. e[p] = c[q] /\ extractSubImage(Visible(c), r)[p] = Visible(c)[q]
        BY <1>3 DEF extractSubImage
    <2>3. (c[q].a # 0 => Visible(c)[q] = c[q]) /\ (c[q].a = 0 => Visible(c)[q] = Transparent)
        BY <2>1, SeenCanvas
    <2>4. (e[p].a # 0 => Visible(e)[p] = e[p]) /\ (e[p].a = 0 => Visible(e)[p] = Transparent)
        BY <1>1, <1>3, Seen
    <2>5. QED
        BY <2>2, <2>3, <2>4
<1> HIDE DEF D, e
<1>4. Visible(e) = extractSubImage(Visible(c), r)
    BY <1>1, <1>2, <1>3
<1>5. QED
    BY <1>4 DEF e

LEMMA SeenDisposed ==
    ASSUME NEW c \in Canvases, NEW r
    PROVE  /\ fillRect(c, r, Transparent) \in Canvases
           /\ Visible(fillRect(c, r, Transparent)) = fillRect(Visible(c), r, Transparent)
<1>1. Transparent \in Pixels /\ Transparent.a = 0
    BY DEF Transparent, Pixel, Pixels
<1>2. /\ fillRect(c, r, Transparent) \in Canvases /\ fillRect(Visible(c), r, Transparent) \in Canvases
      /\ \A p \in Pos : /\ fillRect(c, r, Transparent)[p] = IF p \in Cells(r) THEN Transparent ELSE c[p]
                        /\ fillRect(Visible(c), r, Transparent)[p] =
                             IF p \in Cells(r) THEN Transparent ELSE Visible(c)[p]
    BY <1>1, SeenCanvas DEF fillRect, Canvases
<1>3. PICK g \in Canvases : g = fillRect(c, r, Transparent)
    BY <1>2
<1>4. PICK h \in Canvases : h = fillRect(Visible(c), r, Transparent)
    BY <1>2
<1>5. ASSUME NEW p \in Pos PROVE Visible(g)[p] = h[p]
    BY <1>1, <1>2, <1>3, <1>4, SeenCanvas
<1>6. Visible(g) = h
    BY <1>5, SeenCanvas DEF Canvases
<1>7. QED
    BY <1>3, <1>4, <1>6

\* A VP8L bitstream keeps what is seen of a picture; a VP8 one keeps it where it
\* is opaque.
LEMMA Encoded ==
    ASSUME NEW w \in Nat, NEW h \in Nat, NEW img \in [Grid(w, h) -> Pixels],
           NEW bs \in encodeFrame(img)
    PROVE  /\ bs.img \in [Grid(w, h) -> Pixels] /\ bs.hasAlpha \in BOOLEAN
           /\ bs.hasAlpha => bs.img = Visible(img)
           /\ ~bs.hasAlpha => \A p \in Grid(w, h) : bs.img[p].a = 255
           /\ \A p \in Grid(w, h) : img[p].a = 255 => bs.img[p] = img[p]
           /\ LosslessOnly => bs.hasAlpha
<1>1. DOMAIN img = Grid(w, h) /\ \A p \in Grid(w, h) : img[p] \in Pixels
    OBVIOUS
<1>2. CASE bs = LosslessFrame(img)
    <2>1. bs.hasAlpha = TRUE /\ bs.img = Visible(img) /\ Visible(img) \in [Grid(w, h) -> Pixels]
        BY <1>2, Seen DEF LosslessFrame
    <2>2. ASSUME NEW p \in Grid(w, h), img[p].a = 255 PROVE bs.img[p] = img[p]
        BY <2>1, <2>2, Seen
    <2>3. bs.img \in [Grid(w, h) -> Pixels] /\ bs.hasAlpha \in BOOLEAN /\ bs.hasAlpha
        BY <2>1
    <2>4. QED
        BY <2>1, <2>2, <2>3, Zenon
<1>3. ASSUME NEW v \in {img[p].v : p \in DOMAIN img},
             bs = [hasAlpha |-> FALSE,
                   img |-> [p \in DOMAIN img |-> Pixel(IF img[p].a = 0 THEN v ELSE img[p].v, 255)]]
      PROVE  /\ bs.img \in [Grid(w, h) -> Pixels] /\ bs.hasAlpha = FALSE
             /\ \A p \in Grid(w, h) : bs.img[p].a = 255 /\ (img[p].a = 255 => bs.img[p] = img[p])
             /\ ~LosslessOnly
    <2>1. v \in 0 .. 255
        BY <1>1, <1>3 DEF Pixels
    <2>2. bs.hasAlpha = FALSE
          /\ bs.img = [p \in Grid(w, h) |-> Pixel(IF img[p].a = 0 THEN v ELSE img[p].v, 255)]
        BY <1>1, <1>3
    <2>3. ASSUME NEW p \in Grid(w, h)
          PROVE  /\ Pixel(IF img[p].a = 0 THEN v ELSE img[p].v, 255) \in Pixels
                 /\ Pixel(IF img[p].a = 0 THEN v ELSE img[p].v, 255).a = 255
                 /\ img[p].a = 255 => Pixel(IF img[p].a = 0 THEN v ELSE img[p].v, 255) = img[p]
        <3>1. img[p] = [v |-> img[p].v, a |-> img[p].a] /\ img[p].v \in 0 .. 255 /\ img[p].a \in 0 .. 255
            BY <1>1 DEF Pixels
        <3>2. QED
            BY <2>1, <3>1 DEF Pixel, Pixels
    <2>4. "VP8" \in Codecs
        BY <2>2 DEF encodeFrame
    <2>5. ~LosslessOnly
        BY <2>4 DEF Codecs, LosslessOnly
    <2>6. QED
        BY <2>2, <2>3, <2>5
<1>4. bs \in {LosslessFrame(img)} \cup LossyFrames(img)
    BY DEF encodeFrame
<1>5. CASE bs \in LossyFrames(img)
    <2>1. PICK v \in {img[p].v : p \in DOMAIN img} :
             bs = [hasAlpha |-> FALSE,
                   img |-> [p \in DOMAIN img |-> Pixel(IF img[p].a = 0 THEN v ELSE img[p].v, 255)]]
        BY <1>5, Zenon DEF LossyFrames
    <2>2. /\ bs.img \in [Grid(w, h) -> Pixels] /\ bs.hasAlpha = FALSE
          /\ \A p \in Grid(w, h) : bs.img[p].a = 255 /\ (img[p].a = 255 => bs.img[p] = img[p])
          /\ ~LosslessOnly
        BY <1>3, <2>1, Zenon
    <2>3. bs.hasAlpha \in BOOLEAN /\ ~bs.hasAlpha
        BY <2>2
    <2>4. QED
        BY <2>2, <2>3, Zenon
<1>6. QED
    BY <1>2, <1>4, <1>5

LEMMA Clamped == \A t \in Int : clampDuration(t) \in 0 .. maxDuration
BY AnimEncoderAssumption DEF clampDuration

IsMuxFrame(f, r, bs, blend, t) ==
    /\ Committed(f)
    /\ Bounds(f) = r /\ f.x = r.x0 /\ f.y = r.y0 /\ f.w = Dx(r) /\ f.h = Dy(r)
    /\ f.img = bs.img /\ f.blend = blend /\ f.disposeBG = FALSE
    /\ f.dur = clampDuration(t)

LEMMA MuxFrameType ==
    ASSUME NEW img, NEW r, Fits(r), img \in [Grid(Dx(r), Dy(r)) -> Pixels],
           NEW bs \in encodeFrame(img), NEW blend \in BOOLEAN, NEW t \in Int
    PROVE  IsMuxFrame(MuxFrame(r, bs, blend, FALSE, t), r, bs, blend, t)
<1> SUFFICES ASSUME NEW f, f = MuxFrame(r, bs, blend, FALSE, t) PROVE IsMuxFrame(f, r, bs, blend, t)
    OBVIOUS
<1>1. /\ f.x = r.x0 /\ f.y = r.y0 /\ f.w = Dx(r) /\ f.h = Dy(r) /\ f.img = bs.img
      /\ f.hasAlpha = bs.hasAlpha /\ f.blend = blend /\ f.disposeBG = FALSE
      /\ f.dur = clampDuration(t)
    BY DEF MuxFrame
<1>2. /\ Dx(r) \in Nat /\ Dy(r) \in Nat /\ r.x0 + Dx(r) = r.x1 /\ r.y0 + Dy(r) = r.y1
    BY DEF Fits, Dx, Dy
<1>3. bs.img \in [Grid(Dx(r), Dy(r)) -> Pixels] /\ bs.hasAlpha \in BOOLEAN
      /\ (~bs.hasAlpha => \A p \in Grid(Dx(r), Dy(r)) : bs.img[p].a = 255)
    BY <1>2, Encoded
<1>4. f.dur \in 0 .. maxDuration
    BY <1>1, Clamped
<1>5. f \in Frames
    <2>1. Grid(Dx(r), Dy(r)) \subseteq Int \X Int
        BY DEF Grid
    <2>2. f.img \in Bitmaps
        BY <1>1, <1>3, <2>1 DEF Bitmaps
    <2>3. r.x0 \in Nat /\ r.y0 \in Nat
        BY DEF Fits
    <2>4. QED
        BY <1>1, <1>2, <1>3, <1>4, <2>2, <2>3 DEF MuxFrame, Frames
<1>6. Bounds(f) = r
    BY <1>1, <1>2 DEF Bounds, Fits
<1>7. IsFrame(f)
    <2>1. f.x \in Nat /\ f.y \in Nat /\ f.w \in Nat /\ f.h \in Nat
        BY <1>1, <1>2 DEF Fits
    <2>2. f.hasAlpha \in BOOLEAN /\ f.blend \in BOOLEAN /\ f.disposeBG \in BOOLEAN
        BY <1>1, <1>3, Zenon
    <2>3. DOMAIN f.img = Grid(f.w, f.h)
        BY <1>1, <1>3
    <2>4. ASSUME ~f.hasAlpha PROVE \A p \in Grid(f.w, f.h) : f.img[p].a = 255
        <3>1. ~bs.hasAlpha
            BY <1>1, <2>4, Zenon
        <3>2. PICK m : m = bs.img
            OBVIOUS
        <3>3. \A p \in Grid(Dx(r), Dy(r)) : m[p].a = 255
            BY <1>3, <3>1, <3>2, Zenon
        <3>4. f.img = m /\ Grid(f.w, f.h) = Grid(Dx(r), Dy(r))
            BY <1>1, <3>2
        <3>5. QED
            BY <3>3, <3>4
    <2>5. QED
        BY <2>1, <2>2, <2>3, <2>4 DEF IsFrame
<1>8. QED
    BY <1>1, <1>2, <1>3, <1>4, <1>5, <1>6, <1>7 DEF Committed, Fits, IsMuxFrame

(***************************************************************************)
(* What a committed frame draws                                             *)
(***************************************************************************)

LEMMA Unclipped ==
    ASSUME NEW x0, NEW y0, NEW x1 \in Nat, NEW y1 \in Nat, x1 <= width, y1 <= height
    PROVE  Clip(Rect(x0, y0, x1, y1)) = Rect(x0, y0, x1, y1)
<1> DEFINE Least(a, b) == IF a < b THEN a ELSE b
<1>1. Least(x1, width) = x1 /\ Least(y1, height) = y1
    BY Sizes
<1>2. Rect(x0, y0, x1, y1).x1 = x1 /\ Rect(x0, y0, x1, y1).y1 = y1
    BY DEF Rect
<1>3. Clip(Rect(x0, y0, x1, y1))
        = [Rect(x0, y0, x1, y1) EXCEPT !.x1 = Least(x1, width), !.y1 = Least(y1, height)]
    BY <1>2 DEF Clip
<1>4. QED
    BY <1>1, <1>3 DEF Rect

LEMMA InsideIsWhole ==
    ASSUME NEW r, Fits(r)
    PROVE  Clip(r) = r /\ Cells(Clip(r)) = Cells(r)
<1>1. Clip(Rect(r.x0, r.y0, r.x1, r.y1)) = Rect(r.x0, r.y0, r.x1, r.y1)
    BY Unclipped DEF Fits
<1>2. r = Rect(r.x0, r.y0, r.x1, r.y1)
    BY DEF Fits
<1>3. QED
    BY <1>1, <1>2

\* A full-canvas frame that is not blended shows its picture.
LEMMA FullDraws ==
    ASSUME NEW base, NEW f, Bounds(f) = CanvasRect, IsFrame(f), ~f.blend,
           f.img \in Canvases
    PROVE  compositeFrame(base, f) = f.img
<1>1. f.x = 0 /\ f.y = 0 /\ Cells(Clip(Bounds(f))) = Pos
    BY FullFrame DEF Full
<1>2. ASSUME NEW p \in Pos PROVE <<p[1] - 0, p[2] - 0>> = p
    BY Sizes DEF Pos, Grid
<1>3. QED
    BY <1>1, <1>2 DEF compositeFrame, Canvases

\* The canvas c cut down to a rectangle outside which it is equal to base: every
\* pixel is the one of c, also where it is blended, provided that pixels of c
\* that are drawn over themselves are opaque or clear.
LEMMA CandidateDraws ==
    ASSUME NEW base, NEW c \in Canvases, NEW f, Fits(Bounds(f)), f.x = Bounds(f).x0, f.y = Bounds(f).y0,
           f.w = Dx(Bounds(f)), f.h = Dy(Bounds(f)),
           f.img = extractSubImage(c, Bounds(f)),
           \A p \in Pos : p \notin Cells(Bounds(f)) => base[p] = c[p],
           f.blend => \A p \in Cells(Bounds(f)) :
                         c[p].a = 255 \/ (c[p].a = 0 /\ base[p] = c[p])
    PROVE  compositeFrame(base, f) = c
<1> DEFINE r == Bounds(f)
<1>1. Cells(Clip(r)) = Cells(r) /\ Cells(r) \subseteq Pos
    BY InsideIsWhole DEF Cells
<1>2. ASSUME NEW p \in Cells(r) PROVE f.img[<<p[1] - f.x, p[2] - f.y>>] = c[p]
    BY <1>2, CroppedAt
<1>3. \A s, d : s.a = 255 => alphaBlend(s, d) = s
    BY DEF alphaBlend
<1>4. \A s, d : s.a = 0 => alphaBlend(s, d) = d
    BY DEF alphaBlend
<1>5. ASSUME NEW p \in Pos PROVE compositeFrame(base, f)[p] = c[p]
    <2>1. CASE p \notin Cells(r)
        BY <1>1, <2>1 DEF compositeFrame
    <2>2. CASE p \in Cells(r)
        <3>1. compositeFrame(base, f)[p] = IF f.blend THEN alphaBlend(c[p], base[p]) ELSE c[p]
            BY <1>1, <1>2, <2>2 DEF compositeFrame
        <3>2. f.blend => alphaBlend(c[p], base[p]) = c[p]
            BY <1>3, <1>4, <2>2
        <3>3. QED
            BY <3>1, <3>2
    <2>3. QED
        BY <2>1, <2>2
<1>6. c = [p \in Pos |-> c[p]]
    BY DEF Canvases
<1>7. QED
    BY <1>5, <1>6 DEF compositeFrame

\* The rectangle of a candidate holds every change, at even offsets.
LEMMA CandidateRect ==
    ASSUME NEW base, NEW c
    PROVE  /\ Fits(Candidate(base, c).rect)
           /\ \A p \in Pos : p \notin Cells(Candidate(base, c).rect) => base[p] = c[p]
           /\ Candidate(base, c).blend = BlendingPossible(base, c, Candidate(base, c).rect)
           /\ Candidate(base, c).img = extractSubImage(c, Candidate(base, c).rect)
<1>1. PICK g : g = findChangedRect(base, c)
    OBVIOUS
<1>2. PICK h : h = IF g = NoRect THEN Rect(0, 0, 1, 1) ELSE g
    OBVIOUS
<1>3. PICK r : r = Clip(snapToEven(h))
    OBVIOUS
<1>4. /\ Candidate(base, c).rect = r
      /\ Candidate(base, c).blend = BlendingPossible(base, c, r)
      /\ Candidate(base, c).img = extractSubImage(c, r)
    BY <1>1, <1>2, <1>3 DEF Candidate
<1>5. /\ h.x0 \in Nat /\ h.y0 \in Nat /\ h.x1 \in Nat /\ h.y1 \in Nat
      /\ h.x0 < h.x1 /\ h.x1 <= width /\ h.y0 < h.y1 /\ h.y1 <= height
      /\ \A p \in Pos : base[p] # c[p] => p \in Cells(h)
    <2>1. CASE \E p \in Pos : base[p] # c[p]
        <3>1. /\ g.x0 \in Nat /\ g.y0 \in Nat /\ g.x1 \in Nat /\ g.y1 \in Nat
              /\ g.x0 < g.x1 /\ g.x1 <= width /\ g.y0 < g.y1 /\ g.y1 <= height
              /\ \A p \in Pos : base[p] # c[p] => p \in Cells(g)
            BY <1>1, <2>1, ChangedRect
        <3>2. g # NoRect
            <4>1. NoRect.x1 = 0
                BY DEF NoRect, Rect
            <4>2. QED
                BY <3>1, <4>1
        <3>3. QED
            BY <1>2, <3>1, <3>2
    <2>2. CASE \A p \in Pos : base[p] = c[p]
        <3>1. g = NoRect
            BY <1>1, <2>2 DEF findChangedRect
        <3>2. h.x0 = 0 /\ h.y0 = 0 /\ h.x1 = 1 /\ h.y1 = 1
            BY <1>2, <3>1 DEF Rect
        <3>3. QED
            BY <2>2, <3>2, Sizes
    <2>3. QED
        BY <2>1, <2>2
<1>6. r = Rect(h.x0 - (h.x0 % 2), h.y0 - (h.y0 % 2), h.x1, h.y1)
    <2>1. snapToEven(h) = Rect(h.x0 - (h.x0 % 2), h.y0 - (h.y0 % 2), h.x1, h.y1)
        BY DEF snapToEven
    <2>2. QED
        BY <1>3, <1>5, <2>1, Unclipped
<1>7. /\ r.x0 = h.x0 - (h.x0 % 2) /\ r.y0 = h.y0 - (h.y0 % 2) /\ r.x1 = h.x1 /\ r.y1 = h.y1
      /\ r = Rect(r.x0, r.y0, r.x1, r.y1)
    BY <1>6 DEF Rect
<1>8. ASSUME NEW n \in Nat
      PROVE  n - (n % 2) \in Nat /\ (n - (n % 2)) % 2 = 0 /\ n - (n % 2) <= n
    OBVIOUS
<1>9. Fits(r)
    BY <1>5, <1>7, <1>8 DEF Fits
<1>10. ASSUME NEW p \in Pos, p \in Cells(h) PROVE p \in Cells(r)
    <2>1. p[1] \in Int /\ p[2] \in Int
        BY Sizes DEF Pos, Grid
    <2>2. r.x0 <= h.x0 /\ r.y0 <= h.y0 /\ r.x0 \in Nat /\ r.y0 \in Nat
        BY <1>5, <1>7, <1>8
    <2>3. QED
        BY <1>5, <1>7, <1>10, <2>1, <2>2 DEF Cells
<1>11. QED
    BY <1>4, <1>5, <1>9, <1>10

(***************************************************************************)
(* Changes to the last frame                                                *)
(***************************************************************************)

\* The last frame told to dispose of itself, or lengthened.
Told(m) == [m EXCEPT ![Len(m)] = [@ EXCEPT !.disposeBG = TRUE]]
Lasting(m, t) == [m EXCEPT ![Len(m)] = [@ EXCEPT !.dur = t]]

\* The list k is m but for the dispose mode and the duration of the last frame.
AsBefore(m, k) ==
    /\ k \in Seq(Frames) /\ Len(k) = Len(m)
    /\ \A i \in 1 .. Len(m) :
          /\ Committed(k[i]) /\ DrawsAlike(m[i], k[i])
          /\ Bounds(k[i]) = Bounds(m[i]) /\ k[i].blend = m[i].blend /\ k[i].img = m[i].img
    /\ \A i \in 1 .. Len(m) - 1 : k[i] = m[i]

FrameList(m) == m \in Seq(Frames) /\ \A i \in 1 .. Len(m) : Committed(m[i])

LEMMA UnchangedAsBefore == ASSUME NEW m, FrameList(m) PROVE AsBefore(m, m)
BY DEF AsBefore, FrameList, DrawsAlike

LEMMA ReplacedAsBefore ==
    ASSUME NEW m, FrameList(m), Len(m) # 0, NEW f, Committed(f),
           DrawsAlike(m[Len(m)], f), NEW k, k = [m EXCEPT ![Len(m)] = f]
    PROVE  AsBefore(m, k) /\ k[Len(k)] = f
<1>1. m \in Seq(Frames) /\ Len(m) \in Nat /\ Len(m) \in 1 .. Len(m) /\ f \in Frames
    BY DEF FrameList, Committed
<1>2. k \in Seq(Frames) /\ Len(k) = Len(m) /\ \A i \in 1 .. Len(m) : k[i] = IF i = Len(m) THEN f ELSE m[i]
    BY <1>1, ExceptSeq
<1>3. Bounds(f) = Bounds(m[Len(m)]) /\ f.blend = m[Len(m)].blend /\ f.img = m[Len(m)].img
    BY DEF DrawsAlike, Bounds
<1>4. \A i \in 1 .. Len(m) : Committed(k[i]) /\ DrawsAlike(m[i], k[i])
    BY <1>2 DEF FrameList, DrawsAlike
<1>5. \A i \in 1 .. Len(m) : Bounds(k[i]) = Bounds(m[i]) /\ k[i].blend = m[i].blend /\ k[i].img = m[i].img
    BY <1>2, <1>3
<1>6. ASSUME NEW i \in 1 .. Len(m) - 1 PROVE k[i] = m[i]
    <2>1. i \in 1 .. Len(m) /\ i # Len(m)
        BY <1>1
    <2>2. QED
        BY <1>2, <2>1
<1>7. QED
    BY <1>1, <1>2, <1>4, <1>5, <1>6 DEF AsBefore

LEMMA ToldAsBefore ==
    ASSUME NEW m, FrameList(m), Len(m) # 0
    PROVE  /\ AsBefore(m, Told(m)) /\ Told(m)[Len(m)].disposeBG = TRUE
           /\ Told(m)[Len(m)].dur = m[Len(m)].dur
<1>1. PICK e : e = m[Len(m)]
    OBVIOUS
<1>2. PICK f : f = [e EXCEPT !.disposeBG = TRUE]
    OBVIOUS
<1>3. Committed(e) /\ Len(m) \in Nat
    BY <1>1 DEF FrameList
<1>4. /\ f \in Frames /\ f.x = e.x /\ f.y = e.y /\ f.w = e.w /\ f.h = e.h /\ f.img = e.img
      /\ f.hasAlpha = e.hasAlpha /\ f.blend = e.blend /\ f.dur = e.dur /\ f.disposeBG = TRUE
    BY <1>2, <1>3 DEF Committed, Frames
<1>5. Committed(f) /\ DrawsAlike(e, f)
    <2>1. IsFrame(e) /\ f.disposeBG \in BOOLEAN
        BY <1>3, <1>4 DEF Committed
    <2>2. {f.hasAlpha, f.blend, f.disposeBG} \subseteq BOOLEAN
        BY <1>4, <2>1 DEF IsFrame, Frames
    <2>3. IsFrame(f)
        BY <1>4, <2>1, <2>2 DEF IsFrame
    <2>4. QED
        BY <1>3, <1>4, <2>3 DEF Committed, DrawsAlike
<1>6. Told(m) = [m EXCEPT ![Len(m)] = f]
    BY <1>1, <1>2 DEF Told
<1>7. AsBefore(m, Told(m)) /\ Told(m)[Len(Told(m))] = f
    BY <1>1, <1>5, <1>6, ReplacedAsBefore
<1>8. QED
    BY <1>1, <1>4, <1>7 DEF AsBefore

LEMMA LastingAsBefore ==
    ASSUME NEW m, FrameList(m), Len(m) # 0, NEW t \in 0 .. maxDuration
    PROVE  /\ AsBefore(m, Lasting(m, t)) /\ Lasting(m, t)[Len(m)].dur = t
           /\ Lasting(m, t)[Len(m)].disposeBG = m[Len(m)].disposeBG
<1>1. PICK e : e = m[Len(m)]
    OBVIOUS
<1>2. PICK f : f = [e EXCEPT !.dur = t]
    OBVIOUS
<1>3. Committed(e) /\ Len(m) \in Nat
    BY <1>1 DEF FrameList
<1>4. /\ f \in Frames /\ f.x = e.x /\ f.y = e.y /\ f.w = e.w /\ f.h = e.h /\ f.img = e.img
      /\ f.hasAlpha = e.hasAlpha /\ f.blend = e.blend /\ f.dur = t /\ f.disposeBG = e.disposeBG
    BY <1>2, <1>3 DEF Committed, Frames
<1>5. Committed(f) /\ DrawsAlike(e, f)
    BY <1>3, <1>4 DEF Committed, IsFrame, DrawsAlike
<1>6. Lasting(m, t) = [m EXCEPT ![Len(m)] = f]
    BY <1>1, <1>2 DEF Lasting
<1>7. AsBefore(m, Lasting(m, t)) /\ Lasting(m, t)[Len(Lasting(m, t))] = f
    BY <1>1, <1>5, <1>6, ReplacedAsBefore
<1>8. QED
    BY <1>1, <1>4, <1>7 DEF AsBefore

\* A list that was kept, and one frame more.
LEMMA Grown ==
    ASSUME NEW m, FrameList(m), NEW k, AsBefore(m, k), NEW f, Committed(f)
    PROVE  /\ FrameList(Append(k, f)) /\ FrameList(k) /\ Append(k, f) # << >>
           /\ Len(m) \in Nat /\ Len(Append(k, f)) = Len(m) + 1 /\ Append(k, f)[Len(m) + 1] = f
           /\ \A i \in 1 .. Len(m) : Append(k, f)[i] = k[i]
<1>0. PICK n : n = Append(k, f)
    OBVIOUS
<1>1. k \in Seq(Frames) /\ f \in Frames /\ Len(k) = Len(m) /\ \A i \in 1 .. Len(m) : Committed(k[i])
    BY DEF AsBefore, Committed
<1>2. Len(m) \in Nat
    BY DEF FrameList
<1>3. /\ n \in Seq(Frames) /\ n # << >> /\ Len(n) = Len(m) + 1
      /\ \A i \in 1 .. Len(m) : n[i] = k[i]
      /\ n[Len(m) + 1] = f
    BY <1>0, <1>1, AppendProperties
<1>4. ASSUME NEW i \in 1 .. Len(n) PROVE Committed(n[i])
    <2>1. i \in 1 .. Len(m) \/ i = Len(m) + 1
        BY <1>2, <1>3
    <2>2. QED
        BY <1>1, <1>3, <2>1
<1>5. FrameList(n) /\ FrameList(k)
    BY <1>1, <1>2, <1>3, <1>4 DEF FrameList
<1>6. QED
    BY <1>0, <1>2, <1>3, <1>5

(***************************************************************************)
(* The invariant                                                            *)
(***************************************************************************)

\* The encoder knows the list it commits to, and disposes of a frame after the
\* fact only when another one follows.
Tracks ==
    /\ FrameList(mux) /\ countSinceKeyframe \in Nat
    /\ frameCount = Len(mux)
    /\ Len(mux) # 0 =>
         /\ prevMuxIndex = Len(mux)
         /\ prevCanvas \in Canvases
         /\ mux[Len(mux)].disposeBG => MuxFull

\* The pictures that were added end with the one the next is compared to.
Follows ==
    /\ added \in Seq(Shots(Canvases))
    /\ Len(mux) # 0 => Len(added) # 0 /\ added[Len(added)].canvas = Visible(prevCanvas)

\* Of span frames in a row one lets a viewer enter, and so does one of the last
\* count + 1 frames.
Entry(f) == SelfContained(f) \/ Filler(f)
Keyed(m, span, count) ==
    /\ \A i \in 1 .. Len(m) :
          span <= Len(m) - i + 1 => \E j \in i .. i + span - 1 : Entry(m[j])
    /\ Len(m) # 0 => \E j \in 1 .. Len(m) : Entry(m[j]) /\ Len(m) - j <= count
Span == IF opts.kmax = 0 THEN 1 ELSE opts.kmax

\* The list shows what was added; its last canvas is what is seen of the one the
\* encoder remembers, and its last rectangle is the one it remembers, unless the
\* last frame is a filler.
Shows ==
    Undisturbed =>
        /\ Timeline(Play(mux)) = Timeline(added)
        /\ Len(mux) # 0 =>
             /\ Rendered(mux)[Len(mux)] = Visible(prevCanvas)
             /\ prevFrameRect = Bounds(mux[Len(mux)]) \/ Splits(mux, Len(mux))

\* A simple file: one full-canvas frame of a picture.
StillOf(frames, img) ==
    /\ IsFile(frames) /\ Len(frames) = 1
    /\ Bounds(frames[1]) = CanvasRect /\ frames[1].blend /\ frames[1].img = img
    /\ frames[1].dur \in Int

\* The first frame covers the canvas, and what was written is what is held.
Opens ==
    Len(mux) # 0 =>
        /\ Bounds(mux[1]) = CanvasRect /\ ~mux[1].blend /\ Bare(mux[1].img)
        /\ Len(mux) = 1 /\ AlphaKept => mux[1].img = Visible(prevCanvas)
IsOf(fl, m, last) ==
    \/ fl.kind = "animation" /\ fl.frames = m
    \/ /\ fl.kind # "animation" /\ Len(m) = 1
       /\ StillOf(fl.frames, m[1].img) \/ StillOf(fl.frames, last)
Writes == file.kind # "none" => closed /\ IsOf(file, mux, Visible(prevCanvas))

IInv ==
    /\ cfg \in Configurations
    /\ NoRaw => Tracks /\ Follows /\ Keyed(mux, Span, countSinceKeyframe) /\ Shows /\ Opens /\ Writes

LEMMA KmaxType ==
    ASSUME cfg \in Configurations
    PROVE  /\ opts.kmax \in Nat /\ Span \in Nat \ {0}
           /\ opts.kmax = 0 <=> cfg.Kmax = 1
<1>1. cfg.Kmax \in Int
    BY AnimEncoderAssumption
<1>2. opts.kmax = IF cfg.Kmax <= 0 THEN MaxInt ELSE IF cfg.Kmax = 1 THEN 0 ELSE cfg.Kmax
    BY <1>1 DEF opts, sanitizeKeyframeOptions
<1>3. MaxInt \in Nat \ {0}
    BY DEF MaxInt
<1>4. QED
    BY <1>1, <1>2, <1>3 DEF Span

LEMMA EntryKept ==
    ASSUME NEW f, NEW g, Bounds(f) = Bounds(g), f.blend = g.blend, f.img = g.img, Entry(f)
    PROVE  Entry(g)
BY DEF Entry, SelfContained, Filler

LEMMA KeyedAsBefore ==
    ASSUME NEW m, FrameList(m), NEW k, AsBefore(m, k), NEW span \in Nat \ {0},
           NEW c \in Nat, NEW d \in Nat, c <= d, Keyed(m, span, c)
    PROVE  Keyed(k, span, d)
<1>1. Len(k) = Len(m) /\ Len(m) \in Nat
    BY DEF AsBefore, FrameList
<1>2. \A j \in 1 .. Len(m) : Entry(m[j]) => Entry(k[j])
    BY EntryKept DEF AsBefore
<1>3. ASSUME NEW i \in 1 .. Len(m), span <= Len(m) - i + 1
      PROVE  \E j \in i .. i + span - 1 : Entry(k[j])
    <2>1. PICK j \in i .. i + span - 1 : Entry(m[j])
        BY <1>3 DEF Keyed
    <2>2. j \in 1 .. Len(m)
        BY <1>1, <1>3
    <2>3. QED
        BY <1>2, <2>1, <2>2
<1>4. ASSUME Len(m) # 0 PROVE \E j \in 1 .. Len(m) : Entry(k[j]) /\ Len(m) - j <= d
    <2>1. PICK j \in 1 .. Len(m) : Entry(m[j]) /\ Len(m) - j <= c
        BY <1>4 DEF Keyed
    <2>2. Len(m) - j <= d
        BY <1>1, <2>1
    <2>3. QED
        BY <1>2, <2>1, <2>2
<1>5. QED
    BY <1>1, <1>3, <1>4 DEF Keyed

\* A frame more is an entry itself or follows one closely enough.
LEMMA KeyedGrown ==
    ASSUME NEW m, NEW k, NEW n, FrameList(m), AsBefore(m, k),
           Len(n) = Len(m) + 1, \A i \in 1 .. Len(m) : n[i] = k[i],
           NEW span \in Nat \ {0}, NEW c \in Nat, NEW d \in Nat, Keyed(m, span, c),
           Entry(n[Len(n)]) \/ (Len(m) # 0 /\ c + 1 < span /\ c + 1 <= d)
    PROVE  Keyed(n, span, d)
<1>1. Len(m) \in Nat /\ Len(n) \in Nat /\ Len(n) \in 1 .. Len(n)
    BY DEF FrameList
<1>2. Keyed(k, span, c) /\ Len(k) = Len(m)
    <2>1. c <= c
        OBVIOUS
    <2>2. Keyed(k, span, c)
        BY <2>1, KeyedAsBefore
    <2>3. Len(k) = Len(m)
        BY DEF AsBefore
    <2>4. QED
        BY <2>2, <2>3
<1>3. ASSUME NEW i \in 1 .. Len(m), span <= Len(m) - i + 1
      PROVE  \E j \in i .. i + span - 1 : Entry(n[j])
    <2>1. PICK j \in i .. i + span - 1 : Entry(k[j])
        BY <1>2, <1>3 DEF Keyed
    <2>2. j \in 1 .. Len(m)
        BY <1>1, <1>3
    <2>3. QED
        BY <2>1, <2>2
<1>4. CASE Entry(n[Len(n)])
    <2>1. ASSUME NEW i \in 1 .. Len(n), span <= Len(n) - i + 1
          PROVE  \E j \in i .. i + span - 1 : Entry(n[j])
        <3>1. CASE span <= Len(m) - i + 1
            <4>1. i \in 1 .. Len(m)
                BY <1>1, <2>1, <3>1
            <4>2. QED
                BY <1>3, <3>1, <4>1
        <3>2. CASE ~(span <= Len(m) - i + 1)
            <4>1. Len(n) \in i .. i + span - 1
                BY <1>1, <2>1, <3>2
            <4>2. QED
                BY <1>4, <4>1
        <3>3. QED
            BY <3>1, <3>2
    <2>2. Len(n) \in 1 .. Len(n) /\ Len(n) - Len(n) <= d
        BY <1>1
    <2>3. QED
        BY <1>4, <2>1, <2>2 DEF Keyed
<1>5. CASE Len(m) # 0 /\ c + 1 < span /\ c + 1 <= d
    <2>1. PICK j \in 1 .. Len(m) : Entry(k[j]) /\ Len(m) - j <= c
        BY <1>2, <1>5 DEF Keyed
    <2>2. j \in 1 .. Len(n) /\ Entry(n[j]) /\ Len(n) - j <= c + 1 /\ Len(n) - j <= d
        BY <1>1, <1>5, <2>1
    <2>3. ASSUME NEW i \in 1 .. Len(n), span <= Len(n) - i + 1
          PROVE  \E jj \in i .. i + span - 1 : Entry(n[jj])
        <3>1. CASE span <= Len(m) - i + 1
            <4>1. i \in 1 .. Len(m)
                BY <1>1, <2>3, <3>1
            <4>2. QED
                BY <1>3, <3>1, <4>1
        <3>2. CASE ~(span <= Len(m) - i + 1)
            <4>1. j \in i .. i + span - 1
                BY <1>1, <1>5, <2>2, <2>3, <3>2
            <4>2. QED
                BY <2>2, <4>1
        <3>3. QED
            BY <3>1, <3>2
    <2>4. QED
        BY <2>2, <2>3 DEF Keyed
<1>6. QED
    BY <1>4, <1>5
LEMMA ListIsFile ==
    ASSUME NEW m, FrameList(m)
    PROVE  IsFile(m) /\ Len(m) \in Nat /\ DOMAIN m = 1 .. Len(m)
           /\ \A i \in 1 .. Len(m) : m[i].dur \in 0 .. maxDuration /\ m[i].dur \in Int
<1>1. Len(m) \in Nat /\ DOMAIN m = 1 .. Len(m) /\ \A i \in 1 .. Len(m) : Committed(m[i])
    BY DEF FrameList
<1>2. ASSUME NEW f, Committed(f)
      PROVE  IsFrame(f) /\ f.dur \in 0 .. maxDuration /\ f.dur \in Int
    <2>1. IsFrame(f) /\ f \in Frames
        BY <1>2 DEF Committed
    <2>2. f.dur \in 0 .. maxDuration
        BY <2>1 DEF Frames
    <2>3. QED
        BY <2>1, <2>2
<1>3. QED
    BY <1>1, <1>2 DEF IsFile

\* A list of frames that grew: only the last one was told anything.
Outlasts(m, n) ==
    /\ FrameList(m) /\ FrameList(n) /\ Len(m) <= Len(n)
    /\ \A i \in 1 .. Len(m) :
          /\ m[i].dur <= n[i].dur /\ (m[i].disposeBG => n[i].disposeBG)
          /\ n[i].blend = m[i].blend /\ n[i].img = m[i].img
    /\ \A i \in 1 .. Len(m) - 1 : n[i].dur = m[i].dur

LEMMA KeptOutlasts ==
    ASSUME NEW m, FrameList(m), NEW k, AsBefore(m, k), NEW n, FrameList(n), Len(m) <= Len(n),
           \A i \in 1 .. Len(m) : n[i] = k[i],
           Len(m) # 0 => /\ m[Len(m)].dur <= k[Len(m)].dur
                         /\ m[Len(m)].disposeBG => k[Len(m)].disposeBG
    PROVE  Outlasts(m, n)
<1>1. Len(m) \in Nat /\ \A i \in 1 .. Len(m) : m[i].dur \in Int
    BY ListIsFile
<1>2. ASSUME NEW i \in 1 .. Len(m) - 1 PROVE n[i] = m[i]
    BY <1>1 DEF AsBefore
<1>3. ASSUME NEW i \in 1 .. Len(m)
      PROVE  /\ m[i].dur <= n[i].dur /\ (m[i].disposeBG => n[i].disposeBG)
             /\ n[i].blend = m[i].blend /\ n[i].img = m[i].img
    <2>1. CASE i = Len(m)
        BY <1>1, <2>1 DEF AsBefore
    <2>2. CASE i # Len(m)
        <3>1. n[i] = m[i] /\ m[i].dur \in Int
            BY <1>1, <1>2, <2>2
        <3>2. QED
            BY <3>1
    <2>3. QED
        BY <2>1, <2>2
<1>4. QED
    BY <1>2, <1>3 DEF Outlasts

\* What disturbs does not go away: durations, dispositions and the list only grow.
LEMMA StaysDisturbed ==
    ASSUME cfg \in Configurations, cfg' = cfg, Outlasts(mux, mux'),
           \A i \in DOMAIN added : i \in DOMAIN added' /\ added'[i] = added[i]
    PROVE  /\ Undisturbed' => Undisturbed
           /\ AlphaKept' => AlphaKept
           /\ NoneFull' => NoneFull
           /\ MuxFull => MuxFull'
<1>1. /\ Len(mux) \in Nat /\ DOMAIN mux = 1 .. Len(mux)
      /\ \A i \in 1 .. Len(mux) : mux[i].dur \in Int
      /\ Len(mux') \in Nat /\ DOMAIN mux' = 1 .. Len(mux')
      /\ \A i \in 1 .. Len(mux') : mux'[i].dur \in Int
      /\ Len(mux) <= Len(mux')
    BY ListIsFile DEF Outlasts
<1>2. NoneFull' => NoneFull
    <2>1. maxDuration \in Int
        BY AnimEncoderAssumption
    <2>2. SUFFICES ASSUME NoneFull', NEW i \in 1 .. Len(mux) PROVE mux[i].dur < maxDuration
        BY <1>1 DEF NoneFull
    <2>3. i \in 1 .. Len(mux') /\ mux'[i].dur < maxDuration
        BY <1>1, <2>2 DEF NoneFull
    <2>4. mux[i].dur \in Int /\ mux'[i].dur \in Int /\ mux[i].dur <= mux'[i].dur
        BY <1>1, <2>2, <2>3 DEF Outlasts
    <2>5. QED
        BY <2>1, <2>3, <2>4
<1>3. MuxFull => MuxFull'
    <2>1. PICK n \in Nat : n = cfg.MaxFrames
        BY AnimEncoderAssumption
    <2>2. (MuxFull <=> Len(mux) >= n) /\ (MuxFull' <=> Len(mux') >= n)
        BY <2>1 DEF MuxFull
    <2>3. QED
        BY <1>1, <2>1, <2>2
<1>4. AlphaKept' => AlphaKept
    BY DEF AlphaKept, LosslessOnly
<1>5. NoneOverItself' => NoneOverItself
    <2>1. ASSUME NoneOverItself', NEW i \in DOMAIN mux, mux[i].blend
          PROVE  \A p \in DOMAIN mux[i].img : mux[i].img[p].a \in {0, 255}
        <3>0. i \in 1 .. Len(mux) /\ i \in DOMAIN mux'
            BY <1>1, <2>1
        <3>1. i \in DOMAIN mux' /\ mux'[i].blend = mux[i].blend /\ mux'[i].img = mux[i].img
            BY <3>0, Zenon DEF Outlasts
        <3>2. mux'[i].blend => \A p \in DOMAIN mux'[i].img : mux'[i].img[p].a \in {0, 255}
            BY <2>1, <3>1, Zenon DEF NoneOverItself
        <3>3. QED
            BY <2>1, <3>1, <3>2
    <2>2. QED
        BY <2>1, Zenon DEF NoneOverItself
<1>6. ASSUME \A i \in DOMAIN mux' : Splits(mux', i) => ~mux'[i].disposeBG,
             NEW i \in 1 .. Len(mux), Splits(mux, i)
      PROVE  ~mux[i].disposeBG
    <2>1. i - 1 \in 1 .. Len(mux) - 1 /\ i \in DOMAIN mux'
        BY <1>1, <1>6 DEF Splits
    <2>2. /\ mux'[i - 1].dur = mux[i - 1].dur /\ mux'[i].img = mux[i].img
          /\ mux[i].disposeBG => mux'[i].disposeBG
        BY <2>1 DEF Outlasts
    <2>3. Splits(mux', i)
        BY <1>6, <2>2 DEF Splits, Filler
    <2>4. QED
        BY <1>6, <2>1, <2>2, <2>3
<1>7. FillersUnseen' => FillersUnseen
    BY <1>1, <1>2, <1>3, <1>6 DEF FillersUnseen, LosslessOnly
<1>8. QED
    BY <1>2, <1>3, <1>4, <1>5, <1>7 DEF Undisturbed, NoRaw

\* What a viewer sees of pictures of which one more was added.
IsAppended(a, b, c, t) ==
    /\ b \in Seq(Shots(Canvases)) /\ Len(b) = Len(a) + 1 /\ Len(b) # 0
    /\ b[Len(b)].canvas = c
    /\ Timeline(b) = Prolonged(Timeline(a), Shot(c, t))
    /\ \A i \in DOMAIN a : i \in DOMAIN b /\ b[i] = a[i]

LEMMA AddedType ==
    ASSUME NEW a \in Seq(Shots(Canvases)), NEW c \in Canvases, NEW t \in Int
    PROVE  IsAppended(a, Append(a, Shot(c, t)), c, t)
<1>0. PICK b : b = Append(a, Shot(c, t))
    OBVIOUS
<1>1. Shot(c, t) \in Shots(Canvases) /\ Shot(c, t).canvas = c
    BY DEF Shot, Shots
<1>2. /\ b \in Seq(Shots(Canvases)) /\ Len(b) = Len(a) + 1 /\ Len(a) \in Nat
      /\ b[Len(a) + 1] = Shot(c, t) /\ \A i \in 1 .. Len(a) : b[i] = a[i]
    BY <1>0, <1>1, AppendProperties
<1>3. Timeline(b) = Prolonged(Timeline(a), b[Len(b)])
    BY <1>2, TimelineAppend
<1>4. \A i \in DOMAIN a : i \in DOMAIN b /\ b[i] = a[i]
    <2>1. DOMAIN a = 1 .. Len(a) /\ DOMAIN b = 1 .. Len(b)
        BY <1>2
    <2>2. QED
        BY <1>2, <2>1
<1>5. QED
    BY <1>0, <1>1, <1>2, <1>3, <1>4 DEF IsAppended

\* Where the alpha of what was added is kept, so it was for the last picture.
LEMMA AlphaOfAdded ==
    ASSUME cfg' = cfg, NEW c \in Canvases, NEW t, IsAppended(added, added', Visible(c), t), AlphaKept'
    PROVE  LosslessOnly \/ \A p \in Pos : c[p].a = 255
<1>1. Len(added') \in DOMAIN added' /\ added'[Len(added')].canvas = Visible(c)
    BY DEF IsAppended
<1>2. LosslessOnly' <=> LosslessOnly
    BY DEF LosslessOnly
<1>3. LosslessOnly' \/ \A p \in Pos : Visible(c)[p].a = 255
    BY <1>1 DEF AlphaKept
<1>4. QED
    BY <1>2, <1>3, SeenCanvas

\* A list of frames and one more, drawn on what the last one leaves.
BaseOf(m, k) == IF Len(m) = 0 THEN Blank ELSE applyDispose(Rendered(m)[Len(m)], k[Len(m)])

ShowsNext(m, n, c, t) ==
    /\ Rendered(n)[Len(m) + 1] = c
    /\ Timeline(Play(n)) = Prolonged(Timeline(Play(m)), Shot(c, t))

LEMMA DrawnNext ==
    ASSUME NEW m, FrameList(m), NEW k, AsBefore(m, k), Len(m) # 0 => k[Len(m)].dur = m[Len(m)].dur,
           NEW f, Committed(f)
    PROVE  ShowsNext(m, Append(k, f), compositeFrame(BaseOf(m, k), f), f.dur)
<1>0. PICK n : n = Append(k, f)
    OBVIOUS
<1>1. /\ FrameList(n) /\ Len(m) \in Nat /\ Len(n) = Len(m) + 1 /\ n[Len(n)] = f
      /\ \A i \in 1 .. Len(m) : n[i] = k[i]
    BY <1>0, Grown
<1>2. IsFile(m) /\ IsFile(n) /\ \A i \in 1 .. Len(n) : n[i].dur \in Int
    BY <1>1, ListIsFile
<1>3. ASSUME NEW i \in 1 .. Len(m) PROVE DrawsAlike(m[i], n[i]) /\ m[i].dur = n[i].dur
    <2>1. DrawsAlike(m[i], k[i]) /\ (i # Len(m) => k[i] = m[i])
        BY <1>1 DEF AsBefore
    <2>2. QED
        BY <1>1, <2>1
<1>4. ASSUME NEW i \in 1 .. Len(m) - 1 PROVE m[i].disposeBG = n[i].disposeBG
    BY <1>1 DEF AsBefore
<1>5. /\ Rendered(n)[Len(n)] =
           compositeFrame(IF Len(m) = 0 THEN Blank
                          ELSE applyDispose(Rendered(m)[Len(m)], n[Len(m)]), n[Len(n)])
      /\ Timeline(Play(n)) = Prolonged(Timeline(Play(m)), Shot(Rendered(n)[Len(n)], n[Len(n)].dur))
    BY <1>1, <1>2, <1>3, <1>4, FrameAppended
<1>6. Len(m) # 0 => n[Len(m)] = k[Len(m)]
    BY <1>1
<1>7. QED
    BY <1>0, <1>1, <1>5, <1>6 DEF BaseOf, ShowsNext

(***************************************************************************)
(* What keeps the invariant                                                 *)
(***************************************************************************)

LEMMA SameConfiguration ==
    ASSUME cfg' = cfg
    PROVE  NoRaw' = NoRaw /\ Span' = Span /\ LosslessOnly' = LosslessOnly
BY DEF NoRaw, Span, opts, LosslessOnly

\* A list that gained a frame, drawn so that the new canvas is shown.
GrowsBy(k, f, t) ==
    /\ cfg' = cfg /\ ~closed /\ closed' = closed /\ file' = file
    /\ AsBefore(mux, k)
    /\ Len(mux) # 0 => /\ mux[Len(mux)].dur <= k[Len(mux)].dur
                       /\ mux[Len(mux)].disposeBG => k[Len(mux)].disposeBG
    /\ Committed(f) /\ ~f.disposeBG /\ mux' = Append(k, f)
    /\ prevCanvas' \in Canvases
    /\ prevMuxIndex' = Len(mux) + 1 /\ frameCount' = frameCount + 1
    /\ t \in Int /\ added' = Append(added, Shot(Visible(prevCanvas'), t))
    /\ countSinceKeyframe' \in Nat
    /\ \/ Entry(f)
       \/ /\ Len(mux) # 0 /\ countSinceKeyframe + 1 < Span
          /\ countSinceKeyframe + 1 <= countSinceKeyframe'
    /\ Undisturbed /\ Undisturbed' =>
          /\ Rendered(mux')[Len(mux')] = Visible(prevCanvas')
          /\ Timeline(Play(mux')) = Timeline(added')
          /\ prevFrameRect' = Bounds(f) \/ Splits(mux', Len(mux'))
    /\ Len(mux) = 0 => /\ Bounds(f) = CanvasRect /\ ~f.blend /\ Bare(f.img)
                       /\ AlphaKept' => f.img = Visible(prevCanvas')

LEMMA Grows ==
    ASSUME IInv, NoRaw, NEW k, NEW f, NEW t, GrowsBy(k, f, t)
    PROVE  IInv'
<1> USE DEF GrowsBy
<1>1. /\ NoRaw' = NoRaw /\ Span' = Span /\ cfg \in Configurations
      /\ Tracks /\ Follows /\ Keyed(mux, Span, countSinceKeyframe) /\ Opens /\ Writes
    BY SameConfiguration DEF IInv, GrowsBy
<1>2. FrameList(mux) /\ countSinceKeyframe \in Nat /\ frameCount = Len(mux)
    BY <1>1 DEF Tracks
<1>3. /\ FrameList(mux') /\ FrameList(k) /\ Len(mux) \in Nat /\ Len(mux') = Len(mux) + 1
      /\ Len(mux') # 0 /\ mux'[Len(mux')] = f /\ \A i \in 1 .. Len(mux) : mux'[i] = k[i]
    BY <1>2, Grown
<1>4. Tracks'
    BY <1>2, <1>3 DEF Tracks
<1>5. /\ added' \in Seq(Shots(Canvases)) /\ Len(added') # 0
      /\ added'[Len(added')].canvas = Visible(prevCanvas')
      /\ \A i \in DOMAIN added : i \in DOMAIN added' /\ added'[i] = added[i]
    BY <1>1, SeenCanvas, AddedType DEF Follows, IsAppended
<1>6. Follows'
    BY <1>5 DEF Follows
<1>7. Keyed(mux', Span, countSinceKeyframe')
    <2>1. Span \in Nat \ {0}
        BY <1>1, KmaxType
    <2>2. PICK n : n = mux'
        OBVIOUS
    <2>3. PICK d : d = countSinceKeyframe'
        OBVIOUS
    <2>4. Keyed(n, Span, d)
        BY <1>1, <1>2, <1>3, <2>1, <2>2, <2>3, KeyedGrown
    <2>5. QED
        BY <2>2, <2>3, <2>4
<1>8. Undisturbed' => Undisturbed
    <2>1. PICK n : n = mux'
        OBVIOUS
    <2>2. FrameList(n) /\ Len(mux) <= Len(n) /\ \A i \in 1 .. Len(mux) : n[i] = k[i]
        BY <1>3, <2>1
    <2>3. Outlasts(mux, n)
        BY <1>2, <2>2, KeptOutlasts
    <2>4. QED
        BY <1>1, <1>5, <2>1, <2>3, StaysDisturbed
<1>9. Shows'
    BY <1>3, <1>8 DEF Shows
<1>10. Opens' /\ Writes'
    <2>1. file'.kind = "none"
        BY <1>1 DEF Writes, Opens
    <2>2. /\ Bounds(mux'[1]) = CanvasRect /\ ~mux'[1].blend /\ Bare(mux'[1].img)
          /\ Len(mux') = 1 /\ AlphaKept' => mux'[1].img = Visible(prevCanvas')
        <3>1. CASE Len(mux) = 0
            BY <1>3, <3>1
        <3>2. CASE Len(mux) # 0
            <4>1. /\ 1 \in 1 .. Len(mux) /\ mux'[1] = k[1] /\ Bounds(k[1]) = Bounds(mux[1])
                  /\ k[1].blend = mux[1].blend /\ k[1].img = mux[1].img
                BY <1>3, <3>2 DEF AsBefore
            <4>2. Len(mux') # 1
                BY <1>3, <3>2
            <4>3. QED
                BY <1>1, <3>2, <4>1, <4>2 DEF Opens
        <3>3. QED
            BY <3>1, <3>2
    <2>3. QED
        BY <1>1, <2>1, <2>2 DEF Writes, Opens
<1>11. QED
    BY <1>1, <1>4, <1>6, <1>7, <1>9, <1>10 DEF IInv

\* A list of which only the last frame was told something: it may be added to,
\* if it shows the last picture for longer.
LEMMA Keeps ==
    ASSUME IInv, NoRaw, cfg' = cfg, ~closed, closed' = closed, file' = file, optState' = optState,
           AsBefore(mux, mux'),
           Len(mux) # 0 => /\ mux[Len(mux)].dur <= mux'[Len(mux)].dur
                           /\ mux[Len(mux)].disposeBG => mux'[Len(mux)].disposeBG
                           /\ mux'[Len(mux)].disposeBG => mux[Len(mux)].disposeBG \/ MuxFull,
           countSinceKeyframe' \in Nat, countSinceKeyframe <= countSinceKeyframe',
           \/ added' = added
           \/ Len(mux) # 0 /\ \E t \in Int : added' = Append(added, Shot(Visible(prevCanvas), t)),
           Undisturbed /\ Undisturbed' => Timeline(Play(mux')) = Timeline(added')
    PROVE  IInv'
<1>1. /\ NoRaw' = NoRaw /\ Span' = Span /\ cfg \in Configurations
      /\ Tracks /\ Follows /\ Keyed(mux, Span, countSinceKeyframe) /\ Shows /\ Opens /\ Writes
    BY SameConfiguration DEF IInv
<1>2. /\ FrameList(mux) /\ countSinceKeyframe \in Nat /\ frameCount = Len(mux) /\ Len(mux) \in Nat
      /\ prevCanvas' = prevCanvas /\ prevFrameRect' = prevFrameRect
      /\ prevMuxIndex' = prevMuxIndex /\ frameCount' = frameCount
    BY <1>1 DEF Tracks, FrameList, optState
<1>3. /\ FrameList(mux') /\ Len(mux') = Len(mux)
      /\ \A i \in 1 .. Len(mux) :
            /\ DrawsAlike(mux[i], mux'[i]) /\ Bounds(mux'[i]) = Bounds(mux[i])
            /\ mux'[i].blend = mux[i].blend /\ mux'[i].img = mux[i].img
      /\ \A i \in 1 .. Len(mux) - 1 : mux'[i] = mux[i]
    BY DEF AsBefore, FrameList
<1>4. /\ Len(mux) # 0 => Len(added') # 0 /\ added'[Len(added')].canvas = Visible(prevCanvas)
      /\ added' \in Seq(Shots(Canvases))
      /\ \A i \in DOMAIN added : i \in DOMAIN added' /\ added'[i] = added[i]
    <2>1. CASE added' = added
        BY <1>1, <2>1 DEF Follows
    <2>2. CASE Len(mux) # 0 /\ \E t \in Int : added' = Append(added, Shot(Visible(prevCanvas), t))
        <3>1. PICK t \in Int : added' = Append(added, Shot(Visible(prevCanvas), t))
            BY <2>2
        <3>2. Visible(prevCanvas) \in Canvases
            BY <1>1, <2>2, SeenCanvas DEF Tracks
        <3>3. QED
            BY <1>1, <3>1, <3>2, AddedType DEF Follows, IsAppended
    <2>3. QED
        BY <2>1, <2>2
<1>5. (Undisturbed' => Undisturbed) /\ (AlphaKept' => AlphaKept) /\ (MuxFull => MuxFull')
    <2>1. Len(mux) <= Len(mux')
        BY <1>2, <1>3
    <2>2. Outlasts(mux, mux')
        BY <1>2, <1>3, <2>1, KeptOutlasts
    <2>3. QED
        BY <1>1, <1>4, <2>2, StaysDisturbed
<1>6. Tracks' /\ Follows'
    <2>1. Tracks'
        BY <1>1, <1>2, <1>3, <1>5 DEF Tracks
    <2>2. Follows'
        BY <1>2, <1>3, <1>4 DEF Follows
    <2>3. QED
        BY <2>1, <2>2
<1>7. Keyed(mux', Span, countSinceKeyframe')
    <2>1. Span \in Nat \ {0}
        BY <1>1, KmaxType
    <2>2. QED
        BY <1>1, <1>2, <2>1, KeyedAsBefore
<1>8. Shows'
    <2>1. SUFFICES ASSUME Undisturbed'
                   PROVE  /\ Timeline(Play(mux')) = Timeline(added')
                          /\ Len(mux) # 0 =>
                                /\ Rendered(mux')[Len(mux)] = Visible(prevCanvas)
                                /\ prevFrameRect = Bounds(mux'[Len(mux)]) \/ Splits(mux', Len(mux))
        BY <1>2, <1>3 DEF Shows
    <2>2. Undisturbed
        BY <1>5, <2>1
    <2>3. ASSUME Len(mux) # 0
          PROVE  /\ Rendered(mux')[Len(mux)] = Visible(prevCanvas)
                 /\ prevFrameRect = Bounds(mux'[Len(mux)]) \/ Splits(mux', Len(mux))
        <3>1. /\ Rendered(mux)[Len(mux)] = Visible(prevCanvas)
              /\ prevFrameRect = Bounds(mux[Len(mux)]) \/ Splits(mux, Len(mux))
            BY <1>1, <2>2, <2>3 DEF Shows
        <3>2. Len(mux) \in 1 .. Len(mux)
            BY <1>2, <2>3
        <3>3. Rendered(mux')[Len(mux')] = Rendered(mux)[Len(mux)]
            <4>1. IsFile(mux) /\ IsFile(mux') /\ \A i \in 1 .. Len(mux) : mux[i].dur \in Int
                BY <1>2, <1>3, ListIsFile
            <4>2. \A i \in 1 .. Len(mux) - 1 :
                     mux[i].disposeBG = mux'[i].disposeBG /\ mux[i].dur = mux'[i].dur
                BY <1>3
            <4>3. QED
                BY <1>3, <2>3, <4>1, <4>2, LastChanged
        <3>4. Splits(mux, Len(mux)) => Splits(mux', Len(mux))
            <4>1. Len(mux) > 1 => Len(mux) - 1 \in 1 .. Len(mux) - 1
                BY <1>2
            <4>2. QED
                BY <1>3, <3>2, <4>1 DEF Splits, Filler
        <3>5. QED
            BY <1>3, <3>1, <3>2, <3>3, <3>4
    <2>4. QED
        BY <2>1, <2>2, <2>3
<1>9. Opens' /\ Writes'
    <2>1. file'.kind = "none"
        BY <1>1 DEF Writes, Opens
    <2>2. ASSUME Len(mux) # 0
          PROVE  /\ Bounds(mux'[1]) = CanvasRect /\ ~mux'[1].blend /\ Bare(mux'[1].img)
                 /\ Len(mux) = 1 /\ AlphaKept' => mux'[1].img = Visible(prevCanvas)
        <3>1. 1 \in 1 .. Len(mux)
            BY <1>2, <2>2
        <3>2. QED
            BY <1>1, <1>3, <1>5, <2>2, <3>1 DEF Opens
    <2>3. QED
        BY <1>1, <1>2, <1>3, <2>1, <2>2 DEF Writes, Opens
<1>10. QED
    BY <1>1, <1>6, <1>7, <1>8, <1>9 DEF IInv

(***************************************************************************)
(* The steps of AddFrame                                                    *)
(***************************************************************************)

LEMMA Exactly ==
    ASSUME NEW w \in Nat, NEW h \in Nat, NEW img \in [Grid(w, h) -> Pixels],
           NEW bs \in encodeFrame(img),
           LosslessOnly \/ \A p \in Grid(w, h) : img[p].a = 255
    PROVE  bs.img = Visible(img)
<1>1. PICK i \in [Grid(w, h) -> Pixels] : i = bs.img
    BY Encoded
<1>2. CASE LosslessOnly
    BY <1>2, Encoded
<1>3. CASE \A p \in Grid(w, h) : img[p].a = 255
    <2>1. \A p \in Grid(w, h) : i[p] = img[p]
        BY <1>1, <1>3, Encoded
    <2>2. \A p \in Grid(w, h) : Visible(img)[p] = img[p]
        BY <1>3, Seen
    <2>3. Visible(img) \in [Grid(w, h) -> Pixels]
        BY Seen
    <2>4. i = Visible(img)
        BY <2>1, <2>2, <2>3
    <2>5. QED
        BY <1>1, <2>4
<1>4. QED
    BY <1>2, <1>3

\* A picture and a duration that AddFrame is given.
LEMMA Argument ==
    ASSUME cfg \in Configurations, NEW img \in cfg.Images, NEW dur \in cfg.Durations,
           NEW c, c = Placed(img)
    PROVE  /\ c \in Canvases /\ dur \in 0 .. maxDuration /\ dur \in Int /\ clampDuration(dur) = dur
<1>1. c \in Canvases
    BY PlacedType
<1>2. dur \in 0 .. maxDuration /\ maxDuration \in Nat
    BY AnimEncoderAssumption
<1>3. clampDuration(dur) = dur
    BY <1>2 DEF clampDuration
<1>4. QED
    BY <1>1, <1>2, <1>3

\* The failing half of every step.
LEMMA FailsUnseen ==
    ASSUME IInv, NoRaw, cfg' = cfg, ~closed, Fail,
           AsBefore(mux, mux'),
           Len(mux) # 0 => /\ mux[Len(mux)].dur = mux'[Len(mux)].dur
                           /\ mux[Len(mux)].disposeBG => mux'[Len(mux)].disposeBG
                           /\ mux'[Len(mux)].disposeBG => mux[Len(mux)].disposeBG \/ MuxFull,
           countSinceKeyframe' \in Nat, countSinceKeyframe <= countSinceKeyframe'
    PROVE  IInv' /\ Timeline(Play(mux')) = Timeline(Play(mux))
<1>1. /\ FrameList(mux) /\ FrameList(mux') /\ Len(mux') = Len(mux) /\ Len(mux) \in Nat
      /\ \A i \in 1 .. Len(mux) : DrawsAlike(mux[i], mux'[i])
      /\ \A i \in 1 .. Len(mux) - 1 : mux'[i] = mux[i]
    BY DEF AsBefore, FrameList, IInv, Tracks
<1>2. IsFile(mux) /\ IsFile(mux') /\ \A i \in 1 .. Len(mux) : mux[i].dur \in Int
    BY <1>1, ListIsFile
<1>3. Timeline(Play(mux')) = Timeline(Play(mux))
    <2>1. CASE Len(mux) = 0
        <3>1. mux = << >> /\ mux' = << >>
            BY <1>1, <2>1, EmptySeq DEF FrameList
        <3>2. QED
            BY <3>1
    <2>2. CASE Len(mux) # 0
        <3>1. \A i \in 1 .. Len(mux) - 1 :
                 mux[i].disposeBG = mux'[i].disposeBG /\ mux[i].dur = mux'[i].dur
            BY <1>1
        <3>2. QED
            BY <1>1, <1>2, <2>2, <3>1, LastChanged
    <2>3. QED
        BY <2>1, <2>2
<1>4. closed' = closed /\ file' = file /\ optState' = optState /\ added' = added
    BY DEF Fail
<1>5. Len(mux) # 0 => mux[Len(mux)].dur <= mux'[Len(mux)].dur
    BY <1>1, <1>2
<1>6. Undisturbed => Timeline(Play(mux')) = Timeline(added')
    BY <1>3, <1>4 DEF IInv, Shows
<1>7. IInv'
    BY <1>4, <1>5, <1>6, Keeps
<1>8. QED
    BY <1>3, <1>7

\* A full-canvas frame.
LEMMA FullStep ==
    ASSUME IInv, NoRaw, cfg' = cfg, ~closed,
           NEW img \in cfg.Images, NEW dur \in cfg.Durations, EncodeFull(Placed(img), dur)
    PROVE  /\ IInv'
           /\ ret' = "error" => Timeline(Play(mux')) = Timeline(Play(mux))
<1>1. PICK c : c = Placed(img)
    OBVIOUS
<1>2. /\ cfg \in Configurations /\ Tracks /\ Follows /\ Shows
      /\ FrameList(mux) /\ countSinceKeyframe \in Nat /\ frameCount = Len(mux) /\ Len(mux) \in Nat
    BY DEF IInv, Tracks, FrameList
<1>3. c \in Canvases /\ Visible(c) \in Canvases /\ dur \in Int /\ clampDuration(dur) = dur
    BY SeenCanvas, <1>1, <1>2, Argument
<1>4. AsBefore(mux, mux)
    BY <1>2, UnchangedAsBefore
<1>5. CASE /\ countSinceKeyframe' = IF frameCount = 0 THEN countSinceKeyframe ELSE countSinceKeyframe + 1
           /\ Fail /\ mux' = mux
    BY <1>2, <1>4, <1>5, FailsUnseen
<1>6. ASSUME NEW bs \in encodeFrame(c),
             mux' = Append(mux, MuxFrame(CanvasRect, bs, FALSE, FALSE, dur)),
             prevCanvas' = c, prevFrameRect' = CanvasRect, prevMuxIndex' = Len(mux) + 1,
             frameCount' = frameCount + 1, countSinceKeyframe' = 0, Accept(c, dur)
      PROVE  IInv' /\ ret' # "error"
    <2>1. PICK f : f = MuxFrame(CanvasRect, bs, FALSE, FALSE, dur)
        OBVIOUS
    <2>2. Dx(CanvasRect) = width /\ Dy(CanvasRect) = height
        BY Sizes DEF Dx, Dy, CanvasRect, Rect
    <2>3. c \in [Grid(width, height) -> Pixels]
        BY <1>3 DEF Canvases, Pos
    <2>4. /\ Committed(f) /\ Bounds(f) = CanvasRect /\ f.img = bs.img /\ ~f.blend
          /\ ~f.disposeBG /\ f.dur = dur
        <3>1. c \in [Grid(Dx(CanvasRect), Dy(CanvasRect)) -> Pixels]
            BY <2>2, <2>3
        <3>2. IsMuxFrame(f, CanvasRect, bs, FALSE, dur)
            BY <1>3, <2>1, <3>1, CanvasFits, MuxFrameType
        <3>3. QED
            BY <1>3, <3>2 DEF IsMuxFrame
    <2>5. bs.img \in Canvases /\ IsFrame(f)
        BY <2>3, <2>4, Sizes, Encoded DEF Canvases, Pos, Committed
    <2>6. /\ closed' = closed /\ file' = file /\ added' = Append(added, Shot(Visible(c), dur))
          /\ ret' = "ok" /\ IsAppended(added, added', Visible(c), dur)
        BY <1>2, <1>3, <1>6, AddedType DEF Accept, Shot, Follows
    <2>7. ASSUME AlphaKept' PROVE bs.img = Visible(c)
        <3>1. LosslessOnly \/ \A p \in Pos : c[p].a = 255
            BY <1>3, <2>6, <2>7, AlphaOfAdded
        <3>2. QED
            BY <2>3, <3>1, Sizes, Exactly DEF Pos
    <2>8. Bare(bs.img)
        <3>1. /\ bs.hasAlpha \in BOOLEAN /\ (bs.hasAlpha => bs.img = Visible(c))
              /\ ~bs.hasAlpha => \A p \in Pos : bs.img[p].a = 255
            BY <2>3, Sizes, Encoded DEF Pos
        <3>2. (\A p \in Pos : bs.img[p].a = 255) => Bare(bs.img)
            BY DEF Bare
        <3>3. Bare(Visible(c))
            BY <1>3, SeenCanvas
        <3>4. QED
            BY <3>1, <3>2, <3>3
    <2>9. ASSUME Undisturbed, Undisturbed'
          PROVE  Rendered(mux')[Len(mux')] = Visible(c) /\ Timeline(Play(mux')) = Timeline(added')
        <3>1. compositeFrame(BaseOf(mux, mux), f) = Visible(c)
            BY <2>4, <2>5, <2>7, <2>9, FullDraws DEF Undisturbed
        <3>2. mux' = Append(mux, f) /\ Len(mux') = Len(mux) + 1
            BY <1>2, <1>4, <1>6, <2>1, <2>4, Grown
        <3>3. ShowsNext(mux, Append(mux, f), compositeFrame(BaseOf(mux, mux), f), f.dur)
            BY <1>2, <1>4, <2>4, DrawnNext
        <3>4. ShowsNext(mux, mux', Visible(c), dur)
            BY <2>4, <3>1, <3>2, <3>3
        <3>5. Timeline(added') = Prolonged(Timeline(added), Shot(Visible(c), dur))
            BY <2>6 DEF IsAppended
        <3>6. QED
            BY <1>2, <2>9, <3>2, <3>4, <3>5 DEF Shows, ShowsNext
    <2>10. Entry(f)
        BY <2>4 DEF Entry, SelfContained
    <2>11. Len(mux) # 0 => mux[Len(mux)].dur <= mux[Len(mux)].dur
        BY <1>2, ListIsFile
    <2>12. /\ mux' = Append(mux, f) /\ prevCanvas' \in Canvases /\ countSinceKeyframe' \in Nat
           /\ added' = Append(added, Shot(Visible(prevCanvas'), dur))
           /\ Bare(f.img) /\ (AlphaKept' => f.img = Visible(prevCanvas'))
           /\ prevFrameRect' = Bounds(f)
        BY <1>3, <1>6, <2>1, <2>4, <2>6, <2>7, <2>8
    <2>13. Undisturbed /\ Undisturbed' =>
              /\ Rendered(mux')[Len(mux')] = Visible(prevCanvas')
              /\ Timeline(Play(mux')) = Timeline(added')
              /\ prevFrameRect' = Bounds(f)
        BY <1>6, <2>9, <2>12
    <2>14. GrowsBy(mux, f, dur)
        BY <1>3, <1>4, <1>6, <2>4, <2>6, <2>10, <2>11, <2>12, <2>13 DEF GrowsBy
    <2>15. IInv'
        BY <2>14, Grows
    <2>16. QED
        BY <2>6, <2>15
<1>7. QED
    BY <1>1, <1>5, <1>6 DEF EncodeFull

\* A frame cut down to what changed.
LEMMA SubStep ==
    ASSUME IInv, NoRaw, cfg' = cfg, ~closed, frameCount # 0, ~forceKeyframe,
           NEW img \in cfg.Images, NEW dur \in cfg.Durations, NEW c, c = Placed(img),
           NEW bg \in BOOLEAN, NEW base, base = IF bg THEN Disposed ELSE prevCanvas,
           EmitSubFrame(Candidate(base, c), bg, c, dur)
    PROVE  /\ IInv'
           /\ ret' = "error" => Timeline(Play(mux')) = Timeline(Play(mux))
<1>1. PICK cand : cand = Candidate(base, c)
    OBVIOUS
<1>2. PICK k : k = IF bg /\ PrevToDispose \in DOMAIN mux
                   THEN [mux EXCEPT ![PrevToDispose].disposeBG = TRUE] ELSE mux
    OBVIOUS
<1>3. PICK r : r = cand.rect
    OBVIOUS
<1>4. /\ cfg \in Configurations /\ Tracks /\ Follows /\ Shows
      /\ FrameList(mux) /\ countSinceKeyframe \in Nat /\ frameCount = Len(mux) /\ Len(mux) \in Nat
      /\ Len(mux) # 0 /\ prevMuxIndex = Len(mux) /\ DOMAIN mux = 1 .. Len(mux)
      /\ mux[Len(mux)].disposeBG => MuxFull
    BY DEF IInv, Tracks, FrameList
<1>5. c \in Canvases /\ Visible(c) \in Canvases /\ dur \in Int /\ clampDuration(dur) = dur
    BY SeenCanvas, <1>4, Argument
<1>6. /\ Fits(r) /\ \A p \in Pos : p \notin Cells(r) => base[p] = c[p]
      /\ cand.blend = BlendingPossible(base, c, r) /\ cand.img = extractSubImage(c, r)
    BY <1>1, <1>3, CandidateRect
<1>7. /\ AsBefore(mux, k) /\ k[Len(mux)].dur = mux[Len(mux)].dur
      /\ bg => k = Told(mux) /\ k[Len(mux)].disposeBG = TRUE
      /\ ~bg => k = mux
    <2>1. bg => k = Told(mux)
        <3>1. PrevToDispose = Len(mux) /\ PrevToDispose \in DOMAIN mux
            BY <1>4 DEF PrevToDispose
        <3>2. bg => k = [mux EXCEPT ![Len(mux)].disposeBG = TRUE]
            BY <1>2, <3>1
        <3>3. QED
            BY <3>2 DEF Told
    <2>2. ~bg => k = mux
        BY <1>2
    <2>3. AsBefore(mux, mux)
        BY <1>4, UnchangedAsBefore
    <2>4. QED
        BY <1>4, <2>1, <2>2, <2>3, ToldAsBefore
<1>8. countSinceKeyframe + 1 < Span
    <2>1. opts.kmax \in Nat /\ (opts.kmax = 0 <=> cfg.Kmax = 1)
        BY <1>4, KmaxType
    <2>2. ~(countSinceKeyframe + 1 >= opts.kmax)
        BY DEF forceKeyframe
    <2>3. QED
        BY <1>4, <2>1, <2>2 DEF Span
<1>9. countSinceKeyframe' = countSinceKeyframe + 1
    BY DEF EmitSubFrame
<1>10. CASE MuxFull
    <2>1. Fail /\ mux' = k
        BY <1>2, <1>10 DEF EmitSubFrame
    <2>2. countSinceKeyframe' \in Nat /\ countSinceKeyframe <= countSinceKeyframe'
        BY <1>4, <1>9
    <2>3. QED
        BY <1>7, <1>10, <2>1, <2>2, FailsUnseen
<1>11. CASE ~MuxFull
    <2>1. PICK bs \in encodeFrame(cand.img) :
             /\ mux' = Append(k, MuxFrame(r, bs, cand.blend, FALSE, dur))
             /\ prevCanvas' = c /\ prevFrameRect' = r /\ prevMuxIndex' = Len(mux) + 1
             /\ frameCount' = frameCount + 1 /\ Accept(c, dur)
        BY <1>1, <1>2, <1>3, <1>11 DEF EmitSubFrame
    <2>2. PICK f : f = MuxFrame(r, bs, cand.blend, FALSE, dur)
        OBVIOUS
    <2>3. cand.blend \in BOOLEAN
        BY <1>6 DEF BlendingPossible
    <2>4. /\ Dx(r) \in Nat /\ Dy(r) \in Nat
          /\ cand.img \in [Grid(Dx(r), Dy(r)) -> Pixels]
        BY <1>5, <1>6, Cropped
    <2>5. IsMuxFrame(f, r, bs, cand.blend, dur)
        <3>1. PICK blend \in BOOLEAN : blend = cand.blend
            BY <2>3
        <3>2. PICK i \in [Grid(Dx(r), Dy(r)) -> Pixels] : i = cand.img
            BY <2>4
        <3>3. Fits(r) /\ bs \in encodeFrame(i) /\ dur \in Int
            BY <1>5, <1>6, <3>2
        <3>4. IsMuxFrame(MuxFrame(r, bs, blend, FALSE, dur), r, bs, blend, dur)
            BY <3>2, <3>3, MuxFrameType
        <3>5. QED
            BY <2>2, <3>1, <3>4
    <2>6. /\ Committed(f) /\ Bounds(f) = r /\ f.x = r.x0 /\ f.y = r.y0 /\ f.w = Dx(r) /\ f.h = Dy(r)
          /\ f.img = bs.img /\ (f.blend <=> BlendingPossible(base, c, r)) /\ ~f.disposeBG /\ f.dur = dur
        BY <1>5, <1>6, <2>5 DEF IsMuxFrame
    <2>7. /\ closed' = closed /\ file' = file /\ added' = Append(added, Shot(Visible(c), dur))
          /\ ret' = "ok" /\ IsAppended(added, added', Visible(c), dur)
        BY <1>4, <1>5, <2>1, AddedType DEF Accept, Shot, Follows
    <2>8. /\ mux' = Append(k, f) /\ Len(mux') = Len(mux) + 1 /\ mux'[Len(mux')] = f
          /\ DOMAIN mux' = 1 .. Len(mux') /\ \A i \in 1 .. Len(mux) : mux'[i] = k[i]
        <3>1. FrameList(mux) /\ AsBefore(mux, k) /\ Committed(f)
            BY <1>4, <1>7, <2>6
        <3>2. PICK n : n = Append(k, f)
            OBVIOUS
        <3>3. /\ Len(n) = Len(mux) + 1 /\ n[Len(n)] = f /\ FrameList(n)
              /\ \A i \in 1 .. Len(mux) : n[i] = k[i]
            BY <3>1, <3>2, Grown
        <3>4. DOMAIN n = 1 .. Len(n)
            BY <3>3, ListIsFile
        <3>5. QED
            BY <2>1, <2>2, <3>2, <3>3, <3>4
    <2>9. ASSUME Undisturbed, Undisturbed'
          PROVE  Rendered(mux')[Len(mux')] = Visible(c) /\ Timeline(Play(mux')) = Timeline(added')
        <3>1. /\ LosslessOnly \/ \A p \in Pos : c[p].a = 255
              /\ Rendered(mux)[Len(mux)] = Visible(prevCanvas)
              /\ prevFrameRect = Bounds(mux[Len(mux)]) \/ Splits(mux, Len(mux))
              /\ Timeline(Play(mux)) = Timeline(added)
            <4>1. AlphaKept'
                BY <2>9 DEF Undisturbed
            <4>2. LosslessOnly \/ \A p \in Pos : c[p].a = 255
                BY <1>5, <2>7, <4>1, AlphaOfAdded
            <4>3. QED
                BY <1>4, <2>9, <4>2 DEF Shows
        <3>2. bg => prevFrameRect = Bounds(mux[Len(mux)])
            <4>1. SUFFICES ASSUME bg, Splits(mux, Len(mux)) PROVE FALSE
                BY <3>1
            <4>2. /\ Len(mux) \in 1 .. Len(mux) /\ Len(mux) \in DOMAIN mux'
                  /\ mux'[Len(mux)] = k[Len(mux)]
                BY <1>4, <2>8
            <4>3. /\ Len(mux) - 1 \in 1 .. Len(mux) - 1 /\ Len(mux) - 1 \in 1 .. Len(mux)
                  /\ mux'[Len(mux) - 1] = mux[Len(mux) - 1]
                BY <1>4, <1>7, <2>8, <4>1 DEF Splits, AsBefore
            <4>4. mux'[Len(mux)].img = mux[Len(mux)].img /\ mux'[Len(mux)].disposeBG = TRUE
                BY <1>7, <4>1, <4>2 DEF AsBefore
            <4>5. Splits(mux', Len(mux))
                BY <4>1, <4>3, <4>4 DEF Splits, Filler
            <4>6. QED
                BY <2>9, <4>2, <4>4, <4>5 DEF Undisturbed, FillersUnseen
        <3>3. base \in Canvases /\ BaseOf(mux, k) = Visible(base)
            <4>1. Bounds(k[Len(mux)]) = Bounds(mux[Len(mux)]) /\ prevCanvas \in Canvases
                BY <1>4, <1>7 DEF AsBefore, Tracks
            <4>2. CASE bg
                <5>1. BaseOf(mux, k) = fillRect(Visible(prevCanvas), Bounds(k[Len(mux)]), Transparent)
                    BY <1>4, <1>7, <3>1, <4>2 DEF BaseOf, applyDispose
                <5>2. base = fillRect(prevCanvas, prevFrameRect, Transparent)
                    BY <4>2 DEF Disposed
                <5>3. QED
                    BY <3>2, <4>1, <4>2, <5>1, <5>2, SeenDisposed
            <4>3. CASE ~bg
                BY <1>4, <1>7, <1>11, <3>1, <4>1, <4>3 DEF BaseOf, applyDispose
            <4>4. QED
                BY <4>2, <4>3
        <3>4. f.img = extractSubImage(Visible(c), r)
            <4>1. ASSUME \A p \in Pos : c[p].a = 255, NEW p \in Grid(Dx(r), Dy(r))
                  PROVE  extractSubImage(c, r)[p].a = 255
                <5>1. extractSubImage(c, r)[p] = c[<<r.x0 + p[1], r.y0 + p[2]>>]
                    BY <4>1 DEF extractSubImage
                <5>2. <<r.x0 + p[1], r.y0 + p[2]>> \in Pos
                    <6>1. p[1] \in 0 .. Dx(r) - 1 /\ p[2] \in 0 .. Dy(r) - 1
                        BY DEF Grid
                    <6>2. r.x0 + p[1] \in 0 .. width - 1 /\ r.y0 + p[2] \in 0 .. height - 1
                        BY <1>6, <6>1, Sizes DEF Fits, Dx, Dy
                    <6>3. QED
                        BY <6>2 DEF Pos, Grid
                <5>3. QED
                    BY <4>1, <5>1, <5>2
            <4>2. bs.img = Visible(extractSubImage(c, r))
                BY <1>6, <2>4, <3>1, <4>1, Exactly
            <4>3. QED
                BY <1>5, <1>6, <2>6, <4>2, SeenInPart
        <3>5. ASSUME NEW p \in Pos, base[p] = c[p] PROVE Visible(base)[p] = Visible(c)[p]
            BY <1>5, <3>3, <3>5, SeenCanvas
        <3>6. ASSUME f.blend, NEW p \in Cells(r)
              PROVE  \/ Visible(c)[p].a = 255
                     \/ Visible(c)[p].a = 0 /\ Visible(base)[p] = Visible(c)[p]
            <4>1. p \in Pos /\ Visible(c)[p].a = c[p].a
                BY <1>5, <1>6, CroppedAt, SeenCanvas
            <4>2. Visible(c)[p].a \in {0, 255}
                <5>1. /\ Len(mux') \in DOMAIN mux' /\ mux'[Len(mux')] = f
                      /\ \A q \in DOMAIN f.img : f.img[q].a \in {0, 255}
                    BY <1>4, <2>8, <2>9, <3>6 DEF Undisturbed, NoneOverItself
                <5>2. DOMAIN f.img = Grid(Dx(r), Dy(r))
                    BY <3>4 DEF extractSubImage
                <5>3. PICK q : q = <<p[1] - r.x0, p[2] - r.y0>>
                    OBVIOUS
                <5>4. q \in Grid(Dx(r), Dy(r)) /\ extractSubImage(Visible(c), r)[q] = Visible(c)[p]
                    BY <1>6, <5>3, CroppedAt
                <5>5. f.img[q] = Visible(c)[p] /\ f.img[q].a \in {0, 255}
                    BY <3>4, <5>1, <5>2, <5>4
                <5>6. QED
                    BY <5>5
            <4>3. LosslessOnly => c[p].a = 255 \/ base[p] = c[p]
                BY <2>6, <3>6 DEF BlendingPossible, LosslessOnly
            <4>4. QED
                BY <3>1, <3>5, <4>1, <4>2, <4>3
        <3>7. compositeFrame(Visible(base), f) = Visible(c)
            <4>1. PICK vc \in Canvases : vc = Visible(c)
                BY <1>5
            <4>2. PICK vb : vb = Visible(base)
                OBVIOUS
            <4>3. \A p \in Pos : p \notin Cells(r) => vb[p] = vc[p]
                BY <1>6, <3>5, <4>1, <4>2
            <4>4. f.blend => \A p \in Cells(r) : vc[p].a = 255 \/ (vc[p].a = 0 /\ vb[p] = vc[p])
                BY <3>6, <4>1, <4>2
            <4>5. compositeFrame(vb, f) = vc
                BY <1>6, <2>6, <3>4, <4>1, <4>3, <4>4, CandidateDraws
            <4>6. QED
                BY <4>1, <4>2, <4>5
        <3>8. ShowsNext(mux, Append(k, f), compositeFrame(BaseOf(mux, k), f), f.dur)
            BY <1>4, <1>7, <2>6, DrawnNext
        <3>9. ShowsNext(mux, mux', Visible(c), dur)
            BY <2>6, <2>8, <3>3, <3>7, <3>8
        <3>10. Timeline(added') = Prolonged(Timeline(added), Shot(Visible(c), dur))
            BY <2>7 DEF IsAppended
        <3>11. QED
            BY <2>8, <3>1, <3>9, <3>10 DEF ShowsNext
    <2>10. /\ mux[Len(mux)].dur <= k[Len(mux)].dur
           /\ mux[Len(mux)].disposeBG => k[Len(mux)].disposeBG
        <3>1. mux[Len(mux)].dur \in Int
            BY <1>4, ListIsFile
        <3>2. bg \/ ~bg
            OBVIOUS
        <3>3. QED
            BY <1>7, <3>1, <3>2
    <2>11. /\ prevCanvas' \in Canvases
           /\ added' = Append(added, Shot(Visible(prevCanvas'), dur)) /\ prevFrameRect' = Bounds(f)
        <3>1. prevCanvas' = c /\ prevFrameRect' = r
            BY <2>1
        <3>2. QED
            BY <1>5, <2>6, <2>7, <3>1
    <2>12. Undisturbed /\ Undisturbed' =>
              /\ Rendered(mux')[Len(mux')] = Visible(prevCanvas')
              /\ Timeline(Play(mux')) = Timeline(added')
              /\ prevFrameRect' = Bounds(f)
        BY <2>1, <2>9, <2>11
    <2>13. GrowsBy(k, f, dur)
        <3>1. countSinceKeyframe' \in Nat /\ countSinceKeyframe + 1 <= countSinceKeyframe'
            BY <1>4, <1>9
        <3>2. prevMuxIndex' = Len(mux) + 1 /\ frameCount' = frameCount + 1
            BY <2>1
        <3>3. QED
            BY <1>4, <1>5, <1>7, <1>8, <2>6, <2>7, <2>8, <2>10, <2>11, <2>12, <3>1, <3>2 DEF GrowsBy
    <2>14. IInv'
        BY <2>13, Grows
    <2>15. QED
        BY <2>7, <2>14
<1>12. QED
    BY <1>10, <1>11

\* The last picture, added again, is one shown longer.
LEMMA AddedAgain ==
    ASSUME Follows, Len(mux) # 0, prevCanvas \in Canvases, NEW seen \in Canvases,
           seen = Visible(prevCanvas), NEW t \in Int
    PROVE  /\ Timeline(Append(added, Shot(seen, t))) = Longer(Timeline(added), t)
           /\ Timeline(added) \in Seq(Shots(Canvases)) /\ Timeline(added) # << >>
           /\ Timeline(added)[Len(Timeline(added))].canvas = seen
<1>1. /\ added \in Seq(Shots(Canvases)) /\ Len(added) \in Nat /\ Len(added) # 0
      /\ added[Len(added)].canvas = seen
      /\ \A i \in 1 .. Len(added) : added[i] \in Shots(Canvases)
    BY DEF Follows
<1>2. PICK w : w = Timeline(added)
    OBVIOUS
<1>3. /\ w \in Seq(Shots(Canvases)) /\ w # << >>
      /\ w[Len(w)].canvas = seen
    <2>1. Len(added) \in 0 .. Len(added)
        BY <1>1
    <2>2. /\ Watched(added)[Len(added)] \in Seq(Shots(Canvases))
          /\ Watched(added)[Len(added)] # << >>
          /\ Watched(added)[Len(added)][Len(Watched(added)[Len(added)])].canvas
               = added[Len(added)].canvas
        BY <1>1, <2>1, WatchedType
    <2>3. QED
        BY <1>1, <1>2, <2>2 DEF Timeline
<1>4. /\ Shot(seen, t) \in Shots(Canvases) /\ Shot(seen, t).canvas = seen
      /\ Shot(seen, t).dur = t
    BY DEF Shot, Shots
<1>5. Timeline(Append(added, Shot(seen, t))) = Prolonged(w, Shot(seen, t))
    BY <1>1, <1>2, AddedType DEF IsAppended
<1>6. Prolonged(w, Shot(seen, t)) = Longer(w, t)
    BY <1>3, <1>4, ShownAgain
<1>7. QED
    BY <1>2, <1>3, <1>5, <1>6

\* The filler: one clear pixel, blended.
LEMMA FillerFits ==
    /\ Fits(Rect(0, 0, 1, 1)) /\ Dx(Rect(0, 0, 1, 1)) = 1 /\ Dy(Rect(0, 0, 1, 1)) = 1
    /\ FillerImage \in [Grid(1, 1) -> Pixels]
<1>1. PICK r : r = Rect(0, 0, 1, 1)
    OBVIOUS
<1>2. r.x0 = 0 /\ r.y0 = 0 /\ r.x1 = 1 /\ r.y1 = 1
    BY <1>1 DEF Rect
<1>3. r = Rect(r.x0, r.y0, r.x1, r.y1)
    BY <1>1, <1>2
<1>4. Fits(r) /\ Dx(r) = 1 /\ Dy(r) = 1
    BY <1>2, <1>3, Sizes DEF Fits, Dx, Dy
<1>5. FillerImage \in [Grid(1, 1) -> Pixels]
    BY DEF FillerImage, Transparent, Pixel, Pixels
<1>6. QED
    BY <1>1, <1>4, <1>5

LEMMA FillerDraws ==
    ASSUME NEW c \in Canvases, NEW f, Bounds(f) = Rect(0, 0, 1, 1), f.x = 0, f.y = 0,
           f.img = FillerImage, f.blend
    PROVE  compositeFrame(c, f) = c
<1>1. PICK r : r = Bounds(f)
    OBVIOUS
<1>2. r.x0 = 0 /\ r.y0 = 0 /\ r.x1 = 1 /\ r.y1 = 1 /\ Fits(r)
    BY <1>1, FillerFits DEF Rect
<1>3. Cells(Clip(r)) = Cells(r)
    BY <1>2, InsideIsWhole
<1>4. ASSUME NEW p \in Pos, p \in Cells(r) PROVE f.img[<<p[1] - f.x, p[2] - f.y>>].a = 0
    <2>1. p[1] \in Int /\ p[2] \in Int
        BY Sizes DEF Pos, Grid
    <2>2. p[1] - 0 = 0 /\ p[2] - 0 = 0
        BY <1>2, <1>4, <2>1 DEF Cells
    <2>3. <<0, 0>> \in Grid(1, 1)
        BY DEF Grid
    <2>4. FillerImage[<<0, 0>>].a = 0
        BY <2>3 DEF FillerImage, Transparent, Pixel
    <2>5. QED
        BY <2>2, <2>4
<1>5. \A s, d : s.a = 0 => alphaBlend(s, d) = d
    BY DEF alphaBlend
<1>6. ASSUME NEW p \in Pos PROVE compositeFrame(c, f)[p] = c[p]
    BY <1>1, <1>3, <1>4, <1>5 DEF compositeFrame
<1>7. c = [p \in Pos |-> c[p]]
    BY DEF Canvases
<1>8. QED
    BY <1>6, <1>7 DEF compositeFrame

\* The picture on show, added again.
LEMMA LongerStep ==
    ASSUME IInv, NoRaw, cfg' = cfg, ~closed, frameCount # 0,
           NEW dur \in cfg.Durations, increasePreviousDuration(dur)
    PROVE  /\ IInv'
           /\ NoneFull' /\ ret' = "error" => Timeline(Play(mux')) = Timeline(Play(mux))
<1>1. PICK L : L = Len(mux)
    OBVIOUS
<1>2. PICK d : d = mux[L].dur
    OBVIOUS
<1>3. /\ cfg \in Configurations /\ Follows /\ Shows
      /\ FrameList(mux) /\ countSinceKeyframe \in Nat /\ L \in Nat /\ L # 0
      /\ prevMuxIndex = L /\ prevCanvas \in Canvases /\ (mux[L].disposeBG => MuxFull)
    BY <1>1 DEF IInv, Tracks, FrameList
<1>4. d \in 0 .. maxDuration /\ dur \in 0 .. maxDuration /\ maxDuration \in Nat \ {0}
    <2>1. L \in 1 .. Len(mux)
        BY <1>1, <1>3
    <2>2. d \in 0 .. maxDuration
        BY <1>2, <1>3, <2>1, ListIsFile
    <2>3. QED
        BY <1>3, <2>2, AnimEncoderAssumption
<1>5. ASSUME NEW t \in 0 .. maxDuration
      PROVE  /\ [mux EXCEPT ![prevMuxIndex].dur = clampDuration(t)] = Lasting(mux, t)
             /\ AsBefore(mux, Lasting(mux, t)) /\ Lasting(mux, t)[L].dur = t
             /\ (Lasting(mux, t)[L].disposeBG <=> mux[L].disposeBG)
             /\ FrameList(Lasting(mux, t)) /\ Len(Lasting(mux, t)) = L
    <2>1. clampDuration(t) = t
        BY <1>4 DEF clampDuration
    <2>2. AsBefore(mux, Lasting(mux, t)) /\ Lasting(mux, t)[L].dur = t
          /\ Lasting(mux, t)[L].disposeBG = mux[L].disposeBG
        BY <1>1, <1>3, LastingAsBefore
    <2>3. FrameList(Lasting(mux, t)) /\ Len(Lasting(mux, t)) = L
        BY <1>1, <1>3, <2>2 DEF AsBefore, FrameList
    <2>4. QED
        BY <1>1, <1>3, <2>1, <2>2, <2>3 DEF Lasting
<1>6. ASSUME NEW t \in 0 .. maxDuration
      PROVE  /\ Rendered(Lasting(mux, t))[L] = Rendered(mux)[L]
             /\ Timeline(Play(Lasting(mux, t))) = Longer(Timeline(Play(mux)), t - d)
    <2>1. PICK k : k = Lasting(mux, t)
        OBVIOUS
    <2>2. AsBefore(mux, k) /\ k[L].dur = t /\ FrameList(k) /\ Len(k) = L
        BY <1>5, <2>1
    <2>3. IsFile(mux) /\ IsFile(k) /\ \A i \in 1 .. L : mux[i].dur \in Int
        BY <1>1, <1>3, <2>2, ListIsFile
    <2>4. /\ \A i \in 1 .. L : mux[i].dur \in Int /\ DrawsAlike(mux[i], k[i])
          /\ \A i \in 1 .. L - 1 : mux[i].disposeBG = k[i].disposeBG /\ mux[i].dur = k[i].dur
        BY <1>1, <2>2, <2>3 DEF AsBefore
    <2>5. t - d \in Int /\ k[Len(k)].dur = mux[Len(mux)].dur + (t - d)
        BY <1>1, <1>2, <1>4, <2>2
    <2>6. /\ Rendered(k)[Len(k)] = Rendered(mux)[Len(mux)]
          /\ \A x \in Int : k[Len(k)].dur = mux[Len(mux)].dur + x =>
                             Timeline(Play(k)) = Longer(Timeline(Play(mux)), x)
        <3>1. Len(k) = Len(mux) /\ Len(mux) # 0
            BY <1>1, <1>3, <2>2
        <3>2. /\ \A i \in 1 .. Len(mux) : mux[i].dur \in Int /\ DrawsAlike(mux[i], k[i])
              /\ \A i \in 1 .. Len(mux) - 1 : mux[i].disposeBG = k[i].disposeBG /\ mux[i].dur = k[i].dur
            BY <1>1, <2>4
        <3>3. QED
            BY <2>3, <3>1, <3>2, LastChanged
    <2>7. QED
        BY <1>1, <2>1, <2>2, <2>5, <2>6
<1>7. PICK n : n = d + dur
    OBVIOUS
<1>8. n \in Nat /\ n <= maxDuration + maxDuration /\ mux[prevMuxIndex].dur + dur = n
    BY <1>2, <1>3, <1>4, <1>7
<1>9. PICK T : T = Timeline(added)
    OBVIOUS
<1>9a. PICK seen \in Canvases : seen = Visible(prevCanvas)
    BY <1>3, SeenCanvas
<1>10. /\ Timeline(Append(added, Shot(seen, dur))) = Longer(T, dur)
       /\ T \in Seq(Shots(Canvases)) /\ T # << >> /\ T[Len(T)].canvas = seen
    BY <1>1, <1>3, <1>4, <1>9, <1>9a, AddedAgain
<1>11. Undisturbed => Timeline(Play(mux)) = T /\ Rendered(mux)[L] = Visible(prevCanvas)
    BY <1>1, <1>3, <1>9 DEF Shows
<1>12. ASSUME n < maxDuration, mux' = Lasting(mux, n), Accept(prevCanvas, dur),
              optState' = optState, countSinceKeyframe' = countSinceKeyframe
       PROVE  IInv' /\ ret' # "error"
    <2>1. /\ closed' = closed /\ file' = file /\ ret' = "ok"
          /\ added' = Append(added, Shot(seen, dur))
        BY <1>12, <1>9a DEF Accept, Shot
    <2>2. n \in 0 .. maxDuration
        BY <1>4, <1>8, <1>12
    <2>3. /\ AsBefore(mux, mux') /\ mux'[L].dur = n /\ (mux'[L].disposeBG <=> mux[L].disposeBG)
          /\ d <= n
        BY <1>4, <1>5, <1>7, <1>12, <2>2
    <2>4. Undisturbed => Timeline(Play(mux')) = Timeline(added')
        <3>1. n - d = dur
            BY <1>4, <1>7
        <3>2. QED
            BY <1>6, <1>10, <1>11, <1>12, <2>1, <2>2, <3>1
    <2>5. dur \in Int
        BY <1>4
    <2>6. IInv'
        BY <1>1, <1>2, <1>3, <1>12, <1>9a, <2>1, <2>3, <2>4, <2>5, Keeps
    <2>7. QED
        BY <2>1, <2>6
<1>13. ASSUME mux' = Lasting(mux, maxDuration), MayFail \/ MuxFull, Fail,
              countSinceKeyframe' = countSinceKeyframe
       PROVE  IInv' /\ ~NoneFull'
    <2>1. closed' = closed /\ file' = file /\ optState' = optState /\ added' = added
        BY <1>13 DEF Fail
    <2>2. /\ AsBefore(mux, mux') /\ mux'[L].dur = maxDuration /\ (mux'[L].disposeBG <=> mux[L].disposeBG)
          /\ FrameList(mux') /\ Len(mux') = L /\ d <= maxDuration
        BY <1>4, <1>5, <1>13
    <2>3. ~NoneFull'
        <3>1. L \in DOMAIN mux'
            BY <1>3, <2>2, ListIsFile
        <3>2. ~(mux'[L].dur < maxDuration)
            BY <1>4, <2>2
        <3>3. QED
            BY <3>1, <3>2 DEF NoneFull
    <2>4. ~Undisturbed'
        <3>1. MuxFull' = MuxFull /\ cfg'.Faults = cfg.Faults
            BY <1>1, <2>2 DEF MuxFull
        <3>2. QED
            BY <1>13, <2>3, <3>1 DEF Undisturbed, FillersUnseen, MayFail
    <2>5. IInv'
        BY <1>1, <1>2, <1>3, <1>13, <2>1, <2>2, <2>4, Keeps
    <2>6. QED
        BY <2>3, <2>5
<1>14. ASSUME n >= maxDuration, ~MuxFull, NEW bs \in encodeFrame(FillerImage),
              mux' = Append(Lasting(mux, maxDuration),
                            MuxFrame(Rect(0, 0, 1, 1), bs, TRUE, FALSE, n - maxDuration)),
              prevMuxIndex' = Len(mux) + 1, frameCount' = frameCount + 1,
              countSinceKeyframe' = countSinceKeyframe + 1,
              prevCanvas' = prevCanvas, prevFrameRect' = prevFrameRect, Accept(prevCanvas, dur)
       PROVE  IInv' /\ ret' # "error"
    <2>1. PICK k : k = Lasting(mux, maxDuration)
        OBVIOUS
    <2>2. PICK t : t = n - maxDuration
        OBVIOUS
    <2>3. PICK r : r = Rect(0, 0, 1, 1)
        OBVIOUS
    <2>4. PICK f : f = MuxFrame(r, bs, TRUE, FALSE, t)
        OBVIOUS
    <2>5. /\ closed' = closed /\ file' = file /\ ret' = "ok"
          /\ added' = Append(added, Shot(Visible(prevCanvas'), dur)) /\ mux' = Append(k, f)
        BY <1>14, <2>1, <2>2, <2>3, <2>4 DEF Accept, Shot
    <2>6. t \in 0 .. maxDuration /\ t \in Int /\ clampDuration(t) = t /\ maxDuration \in 0 .. maxDuration
        BY <1>4, <1>8, <1>14, <2>2 DEF clampDuration
    <2>7. /\ Committed(f) /\ Bounds(f) = r /\ f.x = 0 /\ f.y = 0 /\ f.img = bs.img /\ f.blend
          /\ ~f.disposeBG /\ f.dur = t
        <3>1. Fits(r) /\ FillerImage \in [Grid(Dx(r), Dy(r)) -> Pixels]
            BY <2>3, FillerFits
        <3>2. IsMuxFrame(f, r, bs, TRUE, t)
            BY <2>4, <2>6, <3>1, MuxFrameType
        <3>3. r.x0 = 0 /\ r.y0 = 0
            BY <2>3 DEF Rect
        <3>4. QED
            BY <2>6, <3>2, <3>3 DEF IsMuxFrame
    <2>8. bs.img \in [Grid(1, 1) -> Pixels]
        BY FillerFits, Encoded
    <2>9. Entry(f)
        <3>1. DOMAIN f.img = Grid(1, 1) /\ DOMAIN FillerImage = Grid(1, 1)
            BY <2>7, <2>8, FillerFits
        <3>2. QED
            BY <3>1 DEF Entry, Filler
    <2>10. /\ AsBefore(mux, k) /\ k[L].dur = maxDuration /\ ~k[L].disposeBG
           /\ FrameList(k) /\ Len(k) = L
        BY <1>3, <1>5, <1>14, <2>1, <2>6
    <2>11. /\ FrameList(mux') /\ Len(mux') = L + 1 /\ mux'[L] = k[L] /\ mux'[Len(mux')] = f
        <3>1. L \in 1 .. Len(mux)
            BY <1>1, <1>3
        <3>2. QED
            BY <1>1, <1>3, <2>5, <2>7, <2>10, <3>1, Grown
    <2>12. ~NoneFull'
        <3>1. L \in DOMAIN mux'
            BY <1>3, <2>11, ListIsFile
        <3>2. ~(mux'[L].dur < maxDuration)
            BY <1>4, <2>10, <2>11
        <3>3. QED
            BY <3>1, <3>2 DEF NoneFull
    <2>13. ASSUME Undisturbed, Undisturbed'
           PROVE  /\ Rendered(mux')[Len(mux')] = Visible(prevCanvas')
                  /\ Timeline(Play(mux')) = Timeline(added')
                  /\ Splits(mux', Len(mux'))
        <3>1. LosslessOnly
            BY <2>12, <2>13 DEF Undisturbed, FillersUnseen, LosslessOnly
        <3>2. bs.img = FillerImage
            <4>1. bs.img = Visible(FillerImage)
                BY <3>1, FillerFits, Exactly
            <4>2. Visible(FillerImage) = FillerImage
                BY DEF Visible, FillerImage
            <4>3. QED
                BY <4>1, <4>2
        <3>3. /\ Rendered(k)[L] = seen
              /\ Timeline(Play(k)) = Longer(T, maxDuration - d)
            BY <1>6, <1>11, <1>9a, <2>1, <2>6, <2>13
        <3>4. compositeFrame(BaseOf(k, k), f) = seen
            <4>1. BaseOf(k, k) = seen
                BY <1>3, <2>10, <3>3 DEF BaseOf, applyDispose
            <4>2. QED
                BY <2>3, <2>7, <3>2, <4>1, FillerDraws
        <3>5. ShowsNext(k, Append(k, f), compositeFrame(BaseOf(k, k), f), f.dur)
            <4>1. AsBefore(k, k)
                BY <2>10, UnchangedAsBefore
            <4>2. QED
                BY <2>7, <2>10, <4>1, DrawnNext
        <3>6. ShowsNext(k, mux', seen, t)
            BY <2>5, <2>7, <3>4, <3>5
        <3>7. PICK w : w = Longer(T, maxDuration - d)
            OBVIOUS
        <3>8. maxDuration - d \in Int /\ (maxDuration - d) + t = dur
            BY <1>4, <1>7, <2>2
        <3>9. /\ w \in Seq(Shots(Canvases)) /\ w # << >> /\ w[Len(w)].canvas = seen
              /\ Longer(w, t) = Longer(T, dur)
            <4>1. /\ w \in Seq(Shots(Canvases)) /\ w # << >> /\ Len(w) = Len(T)
                  /\ w[Len(T)] = Shot(T[Len(T)].canvas, T[Len(T)].dur + (maxDuration - d))
                BY <1>10, <3>7, <3>8, LongerType
            <4>2. w[Len(w)].canvas = seen
                BY <1>10, <4>1 DEF Shot
            <4>3. Longer(Longer(T, maxDuration - d), t) = Longer(T, (maxDuration - d) + t)
                BY <1>10, <2>6, <3>8, LongerTwice
            <4>4. QED
                BY <3>7, <3>8, <4>1, <4>2, <4>3
        <3>10. Prolonged(w, Shot(seen, t)) = Longer(w, t)
            <4>1. /\ Shot(seen, t) \in Shots(Canvases) /\ Shot(seen, t).canvas = seen
                  /\ Shot(seen, t).dur = t
                BY <1>3, <2>6 DEF Shot, Shots
            <4>2. QED
                BY <3>9, <4>1, ShownAgain
        <3>11. Timeline(Play(mux')) = Longer(T, dur)
            BY <3>3, <3>6, <3>7, <3>9, <3>10 DEF ShowsNext
        <3>12. Rendered(mux')[Len(mux')] = seen
            BY <2>10, <2>11, <3>6 DEF ShowsNext
        <3>13. Splits(mux', Len(mux'))
            <4>1. Len(mux') > 1 /\ mux'[Len(mux') - 1].dur = maxDuration
                BY <1>3, <2>10, <2>11
            <4>2. Filler(mux'[Len(mux')])
                BY <2>7, <2>11, <3>2 DEF Filler
            <4>3. QED
                BY <4>1, <4>2 DEF Splits
        <3>14. QED
            BY <1>10, <1>14, <1>9a, <2>5, <3>11, <3>12, <3>13
    <2>14. GrowsBy(k, f, dur)
        <3>1. /\ mux[Len(mux)].dur <= k[Len(mux)].dur /\ Len(mux) # 0
              /\ mux[Len(mux)].disposeBG => k[Len(mux)].disposeBG
            BY <1>1, <1>2, <1>3, <1>4, <1>14, <2>10
        <3>2. countSinceKeyframe' \in Nat /\ dur \in Int
            BY <1>3, <1>4, <1>14
        <3>3. QED
            BY <1>3, <1>14, <2>5, <2>7, <2>9, <2>10, <2>13, <3>1, <3>2 DEF GrowsBy
    <2>15. IInv'
        BY <2>14, Grows
    <2>16. QED
        BY <2>5, <2>15
<1>15. [mux EXCEPT ![prevMuxIndex].dur = clampDuration(maxDuration)] = Lasting(mux, maxDuration)
    BY <1>4, <1>5
<1>16. n < maxDuration => [mux EXCEPT ![prevMuxIndex].dur = clampDuration(n)] = Lasting(mux, n)
    BY <1>4, <1>5, <1>8
<1>17. QED
    BY <1>8, <1>12, <1>13, <1>14, <1>15, <1>16 DEF increasePreviousDuration

(***************************************************************************)
(* The calls                                                                *)
(***************************************************************************)

shown == <<cfg, mux, optState, countSinceKeyframe, closed, file, added>>

LEMMA Untouched == ASSUME IInv, shown' = shown PROVE IInv'
<1>1. /\ cfg' = cfg /\ mux' = mux /\ countSinceKeyframe' = countSinceKeyframe /\ closed' = closed
      /\ file' = file /\ added' = added /\ prevCanvas' = prevCanvas
      /\ prevFrameRect' = prevFrameRect /\ prevMuxIndex' = prevMuxIndex /\ frameCount' = frameCount
    BY DEF shown, optState
<1>2. NoRaw' = NoRaw /\ Span' = Span
    BY <1>1, SameConfiguration
<1>3. Tracks' = Tracks /\ MuxFull' = MuxFull
    BY <1>1 DEF Tracks, MuxFull
<1>4. Undisturbed' = Undisturbed /\ AlphaKept' = AlphaKept
    BY <1>1 DEF Undisturbed, NoRaw, LosslessOnly, AlphaKept, NoneOverItself, NoneFull, FillersUnseen,
                Splits, Filler, MuxFull
<1>5. Shows' = Shows
    BY <1>1, <1>4 DEF Shows
<1>6. QED
    BY <1>1, <1>2, <1>3, <1>4, <1>5 DEF IInv, Follows, Writes, Opens

LEMMA AddStep ==
    ASSUME IInv, NoRaw, cfg' = cfg, AddSomeFrame
    PROVE  /\ IInv'
           /\ NoneFull' /\ ret' = "error" => Timeline(Play(mux')) = Timeline(Play(mux))
<1>1. PICK img \in cfg.Images, dur \in cfg.Durations : AddFrame(img, dur)
    BY DEF AddSomeFrame
<1>2. PICK c : c = Placed(img)
    OBVIOUS
<1>3. CASE closed
    <2>1. Fail /\ mux' = mux /\ countSinceKeyframe' = countSinceKeyframe
        BY <1>1, <1>3 DEF AddFrame
    <2>2. QED
        BY <2>1, Untouched DEF Fail, shown
<1>4. CASE ~closed /\ EncodeFull(c, dur)
    BY <1>2, <1>4, FullStep
<1>5. CASE ~closed /\ frameCount # 0 /\ increasePreviousDuration(dur)
    BY <1>5, LongerStep
<1>6. CASE ~closed /\ frameCount # 0 /\ prevCanvas = NoCanvas
    BY <1>6, CanvasIsSome DEF IInv, Tracks
<1>7. CASE ~closed /\ frameCount # 0 /\ ~forceKeyframe /\ EncodeSubFrame(c, dur)
    <2> DEFINE none == Candidate(prevCanvas, c)
               bg   == Candidate(Disposed, c)
    <2>1. \/ /\ countSinceKeyframe' = countSinceKeyframe + 1
             /\ Fail /\ mux' = mux
          \/ \E cand \in {none, bg} : EmitSubFrame(cand, cand # none, c, dur)
          \/ EncodeFull(c, dur)
        BY <1>7 DEF EncodeSubFrame
    <2>2. CASE /\ countSinceKeyframe' = countSinceKeyframe + 1
               /\ Fail /\ mux' = mux
        <3>1. AsBefore(mux, mux)
            BY UnchangedAsBefore DEF IInv, Tracks
        <3>2. countSinceKeyframe \in Nat
            BY DEF IInv, Tracks
        <3>3. QED
            BY <1>7, <2>2, <3>1, <3>2, FailsUnseen
    <2>3. CASE EmitSubFrame(none, FALSE, c, dur)
        BY <1>2, <1>7, <2>3, SubStep
    <2>4. CASE EmitSubFrame(bg, TRUE, c, dur)
        BY <1>2, <1>7, <2>4, SubStep
    <2>5. CASE EncodeFull(c, dur)
        BY <1>4, <1>7, <2>5
    <2>6. ASSUME NEW cand \in {none, bg}, EmitSubFrame(cand, cand # none, c, dur)
          PROVE  EmitSubFrame(none, FALSE, c, dur) \/ EmitSubFrame(bg, TRUE, c, dur)
        <3>1. CASE cand = none
            <4>1. (cand # none) = FALSE
                BY <3>1
            <4>2. QED
                BY <2>6, <3>1, <4>1
        <3>2. CASE cand # none
            <4>1. (cand # none) = TRUE /\ cand = bg
                BY <2>6, <3>2
            <4>2. QED
                BY <2>6, <4>1
        <3>3. QED
            BY <3>1, <3>2
    <2>7. QED
        BY <2>1, <2>2, <2>3, <2>4, <2>5, <2>6
<1>8. QED
    BY <1>1, <1>2, <1>3, <1>4, <1>5, <1>6, <1>7 DEF AddFrame

(***************************************************************************)
(* Close                                                                    *)
(***************************************************************************)

\* Even offsets survive being stored in halves.
LEMMA Halved ==
    ASSUME NEW f, Committed(f)
    PROVE  [f EXCEPT !.x = 2 * (@ \div 2), !.y = 2 * (@ \div 2)] = f
<1>1. f \in Frames /\ f.x \in Nat /\ f.y \in Nat /\ f.x % 2 = 0 /\ f.y % 2 = 0
    BY DEF Committed, Frames
<1>2. \A n \in Nat : n % 2 = 0 => 2 * (n \div 2) = n
    OBVIOUS
<1>3. 2 * (f.x \div 2) = f.x /\ 2 * (f.y \div 2) = f.y
    BY <1>1, <1>2
<1>4. QED
    BY <1>1, <1>3 DEF Frames

LEMMA CanvasFrame ==
    ASSUME NEW f, IsFrame(f), Bounds(f) = CanvasRect
    PROVE  f.x = 0 /\ f.y = 0 /\ f.w = width /\ f.h = height /\ DOMAIN f.img = Pos
<1>1. f.x = 0 /\ f.y = 0 /\ f.w = width /\ f.h = height
    BY FullFrame DEF Full
<1>2. QED
    BY <1>1 DEF IsFrame, Pos

\* A still image stores no offset, duration or mode.
LEMMA StillFrame ==
    ASSUME NEW f, Committed(f), Bounds(f) = CanvasRect, NEW g,
           g = [f EXCEPT !.x = 0, !.y = 0, !.dur = 0, !.blend = TRUE, !.disposeBG = FALSE]
    PROVE  IsFrame(g) /\ Bounds(g) = CanvasRect /\ g.blend /\ g.img = f.img /\ g.dur \in Int
<1>1. f \in Frames /\ IsFrame(f) /\ f.x = 0 /\ f.y = 0
    BY CanvasFrame DEF Committed
<1>2. /\ g.x = 0 /\ g.y = 0 /\ g.w = f.w /\ g.h = f.h /\ g.img = f.img
      /\ g.hasAlpha = f.hasAlpha /\ g.blend = TRUE /\ g.disposeBG = FALSE /\ g.dur = 0
    BY <1>1 DEF Frames
<1>3. Bounds(g) = CanvasRect
    <2>1. Bounds(g) = Bounds(f)
        BY <1>1, <1>2 DEF Bounds
    <2>2. QED
        BY <2>1
<1>4. IsFrame(g)
    <2>1. {g.hasAlpha, g.blend, g.disposeBG} \subseteq BOOLEAN
        BY <1>1, <1>2 DEF IsFrame
    <2>2. QED
        BY <1>1, <1>2, <2>1 DEF IsFrame
<1>5. QED
    BY <1>2, <1>3, <1>4

LEMMA SimpleFrame ==
    ASSUME NEW c \in Canvases, NEW g,
           g = MuxFrame(CanvasRect, [hasAlpha |-> TRUE, img |-> c], TRUE, FALSE, 0)
    PROVE  IsFrame(g) /\ Bounds(g) = CanvasRect /\ g.blend /\ g.img = c /\ g.dur \in Int
<1>1. CanvasRect.x0 = 0 /\ CanvasRect.y0 = 0 /\ CanvasRect.x1 = width /\ CanvasRect.y1 = height
    BY DEF CanvasRect, Rect
<1>2. Dx(CanvasRect) = width /\ Dy(CanvasRect) = height
    BY <1>1, Sizes DEF Dx, Dy
<1>3. /\ g.x = 0 /\ g.y = 0 /\ g.w = width /\ g.h = height /\ g.img = c
      /\ g.dur = clampDuration(0)
    <2>1. /\ g.x = 0 /\ g.y = 0 /\ g.w = width /\ g.h = height
        BY <1>1, <1>2 DEF MuxFrame
    <2>2. g.img = c /\ g.dur = clampDuration(0)
        BY DEF MuxFrame
    <2>3. QED
        BY <2>1, <2>2
<1>4. Bounds(g) = CanvasRect
    <2>1. 0 + width = width /\ 0 + height = height
        BY Sizes
    <2>2. QED
        BY <1>3, <2>1 DEF Bounds, CanvasRect
<1>5. DOMAIN g.img = Grid(width, height)
    BY <1>3 DEF Canvases, Pos
<1>6. g.dur \in Int
    <2>1. clampDuration(0) \in 0 .. maxDuration
        BY Clamped
    <2>2. clampDuration(0) \in Int
        BY <2>1, AnimEncoderAssumption
    <2>3. QED
        BY <1>3, <2>2
<1>7. IsFrame(g)
    <2>1. g.hasAlpha \in BOOLEAN /\ g.blend \in BOOLEAN /\ g.disposeBG \in BOOLEAN
        BY DEF MuxFrame
    <2>2. {g.hasAlpha, g.blend, g.disposeBG} \subseteq BOOLEAN
        BY <2>1
    <2>3. g.hasAlpha
        BY DEF MuxFrame
    <2>4. g.x \in Nat /\ g.y \in Nat /\ g.w \in Nat /\ g.h \in Nat
        <3>1. 0 \in Nat /\ width \in Nat /\ height \in Nat
            BY Sizes
        <3>2. QED
            BY <1>3, <3>1, Zenon
    <2>5. Grid(g.w, g.h) = Grid(width, height)
        BY <1>3
    <2>6. DOMAIN g.img = Grid(g.w, g.h)
        BY <1>5, <2>5
    <2>7. QED
        BY <2>2, <2>3, <2>4, <2>6 DEF IsFrame
<1>8. g.blend
    BY DEF MuxFrame
<1>9. QED
    BY <1>3, <1>4, <1>6, <1>7, <1>8

LEMMA CloseStep ==
    ASSUME IInv, NoRaw, cfg' = cfg, Close
    PROVE  IInv'
<1>1. /\ cfg \in Configurations /\ Tracks /\ Follows /\ Keyed(mux, Span, countSinceKeyframe)
      /\ Shows /\ Opens /\ Writes /\ FrameList(mux) /\ frameCount = Len(mux) /\ Len(mux) \in Nat
    BY DEF IInv, Tracks, FrameList
<1>2. /\ mux' = mux /\ countSinceKeyframe' = countSinceKeyframe /\ added' = added
      /\ prevCanvas' = prevCanvas /\ prevFrameRect' = prevFrameRect
      /\ prevMuxIndex' = prevMuxIndex /\ frameCount' = frameCount /\ closed' = TRUE
    BY DEF Close, optState
<1>3. NoRaw' = NoRaw /\ Span' = Span
    BY SameConfiguration
<1>4. Tracks' /\ Follows' /\ Shows'
    <2>1. MuxFull' = MuxFull /\ Undisturbed' = Undisturbed
        BY <1>2 DEF Undisturbed, NoRaw, LosslessOnly, AlphaKept, NoneOverItself, NoneFull,
                    FillersUnseen, Splits, Filler, MuxFull
    <2>2. Tracks'
        BY <1>1, <1>2, <2>1 DEF Tracks
    <2>3. Follows'
        BY <1>1, <1>2 DEF Follows
    <2>4. Shows'
        BY <1>1, <1>2, <2>1 DEF Shows
    <2>5. QED
        BY <2>2, <2>3, <2>4
<1>5. ASSUME Valid PROVE Len(mux) # 0
    <2>1. mux # << >>
        BY <1>5 DEF Valid
    <2>2. mux \in Seq(Frames)
        BY <1>1 DEF FrameList
    <2>3. QED
        BY <2>1, <2>2, EmptySeq
<1>6. Opens'
    BY <1>1, <1>2, <1>3 DEF Opens, AlphaKept, LosslessOnly
<1>7. ASSUME file' = file \/ IsOf(file', mux, Visible(prevCanvas)) PROVE IInv'
    <2>1. Writes'
        BY <1>1, <1>2, <1>7 DEF Writes
    <2>2. QED
        BY <1>1, <1>2, <1>3, <1>4, <1>6, <2>1 DEF IInv
<1>8. CASE file' = file
    BY <1>7, <1>8
<1>9. CASE Valid /\ isAnimated /\ file' = Assembled
    <2>1. /\ file'.kind = "animation"
          /\ file'.frames = [i \in DOMAIN mux |-> [mux[i] EXCEPT !.x = 2 * (@ \div 2), !.y = 2 * (@ \div 2)]]
        BY <1>9 DEF Assembled
    <2>2. ASSUME NEW i \in DOMAIN mux
          PROVE  [mux[i] EXCEPT !.x = 2 * (@ \div 2), !.y = 2 * (@ \div 2)] = mux[i]
        <3>1. Committed(mux[i])
            BY <1>1, ListIsFile DEF FrameList
        <3>2. QED
            BY <3>1, Halved
    <2>3. mux = [i \in DOMAIN mux |-> mux[i]]
        BY <1>1 DEF FrameList
    <2>4. file'.frames = mux
        BY <2>1, <2>2, <2>3
    <2>5. QED
        BY <1>7, <2>1, <2>4 DEF IsOf
<1>10. CASE Valid /\ ~isAnimated /\ file' = Assembled
    <2>1. PICK g : g = [mux[1] EXCEPT !.x = 0, !.y = 0, !.dur = 0, !.blend = TRUE, !.disposeBG = FALSE]
        OBVIOUS
    <2>2. Len(mux) = 1 /\ DOMAIN mux = 1 .. 1
        BY <1>1, <1>5, <1>10, ListIsFile DEF isAnimated
    <2>3. file'.kind = "still" /\ file'.frames = [i \in 1 .. 1 |-> g]
        BY <1>10, <2>1, <2>2 DEF Assembled
    <2>4. Committed(mux[1]) /\ Bounds(mux[1]) = CanvasRect
        BY <1>1, <2>2 DEF FrameList, Opens
    <2>5. IsFrame(g) /\ Bounds(g) = CanvasRect /\ g.blend /\ g.img = mux[1].img /\ g.dur \in Int
        BY <2>1, <2>4, StillFrame
    <2>6. Len(file'.frames) = 1 /\ file'.frames[1] = g
        BY <2>3
    <2>7. StillOf(file'.frames, mux[1].img)
        BY <2>5, <2>6 DEF StillOf, IsFile
    <2>8. QED
        BY <1>7, <2>2, <2>3, <2>7 DEF IsOf
<1>11. CASE Valid /\ SingleFrame(mux) /\ file' = Simple
    <2>1. Len(mux) = 1
        BY <1>1, <1>11 DEF SingleFrame
    <2>2. PICK seen \in Canvases : seen = Visible(prevCanvas)
        BY <1>1, <2>1, SeenCanvas DEF Tracks
    <2>3. LosslessFrame(prevCanvas) = [hasAlpha |-> TRUE, img |-> seen]
        <3>1. cleanupTransparentAreaLossless(prevCanvas) = Visible(prevCanvas)
            BY DEF cleanupTransparentAreaLossless, Visible
        <3>2. QED
            BY <2>2, <3>1 DEF LosslessFrame
    <2>4. PICK g : g = MuxFrame(CanvasRect, [hasAlpha |-> TRUE, img |-> seen], TRUE, FALSE, 0)
        OBVIOUS
    <2>5. file'.kind = "still" /\ file'.frames = <<g>>
        BY <1>11, <2>3, <2>4 DEF Simple
    <2>6. IsFrame(g) /\ Bounds(g) = CanvasRect /\ g.blend /\ g.img = seen /\ g.dur \in Int
        BY <2>4, SimpleFrame
    <2>7. Len(file'.frames) = 1 /\ file'.frames[1] = g
        BY <2>5
    <2>8. StillOf(file'.frames, Visible(prevCanvas))
        BY <2>2, <2>6, <2>7 DEF StillOf, IsFile
    <2>9. QED
        BY <1>7, <2>1, <2>5, <2>8 DEF IsOf
<1>12. \/ file' = file
       \/ Valid /\ file' = Assembled
       \/ Valid /\ SingleFrame(mux) /\ file' = Simple
    BY DEF Close
<1>13. QED
    BY <1>8, <1>9, <1>10, <1>11, <1>12

(***************************************************************************)
(* The theorems                                                             *)
(***************************************************************************)

LEMMA NothingShown == Timeline(Play(<< >>)) = Timeline(<< >>)
<1>1. IsFile(<< >>) /\ Len(<< >>) = 0
    BY DEF IsFile
<1>2. Play(<< >>) = [n \in 1 .. 0 |-> [canvas |-> Rendered(<< >>)[n], dur |-> << >>[n].dur]]
    BY <1>1, PlayedByTheRules
<1>3. Play(<< >>) = << >>
    BY <1>2
<1>4. QED
    BY <1>3

LEMMA Initially == ASSUME Init PROVE IInv
<1>1. /\ cfg \in Configurations /\ mux = << >> /\ added = << >> /\ countSinceKeyframe = 0
      /\ frameCount = 0 /\ file.kind = "none"
    BY DEF Init, NoFile
<1>2. FrameList(mux) /\ Len(mux) = 0
    BY <1>1 DEF FrameList
<1>3. Tracks /\ Follows
    BY <1>1, <1>2 DEF Tracks, Follows
<1>4. Keyed(mux, Span, countSinceKeyframe)
    BY <1>1, <1>2 DEF Keyed
<1>5. Shows
    BY <1>1, <1>2, NothingShown DEF Shows
<1>6. QED
    BY <1>1, <1>2, <1>3, <1>4, <1>5 DEF IInv, Opens, Writes

\* A step keeps the invariant, and one that fails shows nothing.
LEMMA Steps ==
    ASSUME IInv, [Next]_vars
    PROVE  /\ IInv'
           /\ NoRaw /\ NoneFull' /\ ret' = "error"
                => Timeline(Play(mux')) = Timeline(Play(mux))
<1>1. CASE vars' = vars
    <2>1. mux' = mux /\ shown' = shown
        BY <1>1 DEF vars, optState, shown
    <2>2. QED
        BY <2>1, Untouched
<1>2. CASE Next
    <2>1. cfg' = cfg /\ (AddSomeFrame \/ AddSomeRaw \/ SetMetadata \/ Close)
        BY <1>2 DEF Next
    <2>2. CASE ~NoRaw
        <3>1. ~NoRaw' /\ cfg' \in Configurations
            BY <2>1, <2>2, SameConfiguration DEF IInv
        <3>2. QED
            BY <2>2, <3>1 DEF IInv
    <2>3. CASE NoRaw /\ AddSomeFrame
        BY <2>1, <2>3, AddStep
    <2>4. CASE NoRaw /\ AddSomeRaw
        BY <2>4 DEF NoRaw, AddSomeRaw
    <2>5. CASE NoRaw /\ SetMetadata
        <3>1. mux' = mux /\ shown' = shown
            BY <2>1, <2>5 DEF SetMetadata, optState, shown
        <3>2. QED
            BY <3>1, Untouched
    <2>6. CASE NoRaw /\ Close
        <3>1. mux' = mux
            BY <2>6 DEF Close
        <3>2. QED
            BY <2>1, <2>6, <3>1, CloseStep
    <2>7. QED
        BY <2>1, <2>2, <2>3, <2>4, <2>5, <2>6
<1>3. QED
    BY <1>1, <1>2

\* What the encoder commits to is tracked in every reachable state: the frame it
\* may still change, the canvas it compares to, the keyframes it counts.
THEOREM Invariance == Spec => []IInv
<1>1. Init => IInv
    BY Initially
<1>2. IInv /\ [Next]_vars => IInv'
    BY Steps
<1>3. QED
    BY <1>1, <1>2, PTL DEF Spec

\* The frames committed so far show the pictures that were added, in their
\* order, each for the time asked for, whatever was cut down, blended, disposed
\* of after the fact, lengthened or split: in every state that is Undisturbed, of
\* an encoder of any canvas, options, pictures and durations.
THEOREM ShowsAdded == Spec => []ShowsWhatWasAdded
<1>1. IInv => ShowsWhatWasAdded
    BY DEF IInv, Shows, Undisturbed, ShowsWhatWasAdded
<1>2. QED
    BY <1>1, Invariance, PTL

\* Of any Kmax frames in a row one lets a viewer enter, whatever failed or was
\* lengthened between them.
THEOREM EntersEveryKmax == Spec => [](NoRaw => KeyframeEveryKmax)
<1>1. IInv => (NoRaw => KeyframeEveryKmax)
    <2>1. SUFFICES ASSUME IInv, NoRaw PROVE KeyframeEveryKmax
        OBVIOUS
    <2>2. FrameList(mux) /\ Keyed(mux, Span, countSinceKeyframe)
        BY <2>1 DEF IInv, Tracks
    <2>3. DOMAIN mux = 1 .. Len(mux)
        BY <2>2, ListIsFile
    <2>4. QED
        BY <2>2, <2>3 DEF Keyed, Entry, Span, KeyframeEveryKmax
<1>2. QED
    BY <1>1, Invariance, PTL

\* A call that fails is not seen, until a frame lasts maxDuration.
THEOREM FailuresUnseen == Spec => FailuresShowNothing
<1>1. IInv /\ [Next]_vars =>
        [(NoRaw /\ NoneFull') =>
            (ret' = "error" => Timeline(Play(mux')) = Timeline(Play(mux)))]_vars
    BY Steps
<1>2. QED
    BY <1>1, Invariance, PTL DEF Spec, FailuresShowNothing

(***************************************************************************)
(* What was written                                                         *)
(***************************************************************************)

\* A still image, blended onto an empty canvas, shows its picture.
LEMMA StillDraws ==
    ASSUME NEW f, IsFrame(f), Bounds(f) = CanvasRect, f.blend, f.img \in Canvases, Bare(f.img)
    PROVE  compositeFrame(Blank, f) = f.img
<1>1. f.x = 0 /\ f.y = 0 /\ Cells(Clip(Bounds(f))) = Pos
    BY FullFrame DEF Full
<1>2. ASSUME NEW p \in Pos PROVE <<p[1] - 0, p[2] - 0>> = p
    BY Sizes DEF Pos, Grid
<1>3. ASSUME NEW p \in Pos PROVE alphaBlend(f.img[p], Blank[p]) = f.img[p]
    <2>1. Blank[p] = Transparent /\ Transparent.a = 0
        BY DEF Blank, Transparent, Pixel
    <2>2. QED
        BY <2>1 DEF alphaBlend, Bare
<1>4. ASSUME NEW p \in Pos PROVE compositeFrame(Blank, f)[p] = f.img[p]
    BY <1>1, <1>2, <1>3 DEF compositeFrame
<1>5. f.img = [p \in Pos |-> f.img[p]]
    BY DEF Canvases
<1>6. QED
    BY <1>4, <1>5 DEF compositeFrame

LEMMA OneShown ==
    ASSUME NEW frames, IsFile(frames), Len(frames) = 1
    PROVE  Pictures(Timeline(Play(frames))) = [i \in 1 .. 1 |-> compositeFrame(Blank, frames[1])]
<1>1. PICK c : c = compositeFrame(Blank, frames[1])
    OBVIOUS
<1>2. Rendered(frames)[1] = c
    BY <1>1, RenderingRules DEF IsFile
<1>3. PICK s : s = [canvas |-> c, dur |-> frames[1].dur]
    OBVIOUS
<1>4. PICK q : q = Play(frames)
    OBVIOUS
<1>5. q = [n \in 1 .. 1 |-> [canvas |-> Rendered(frames)[n], dur |-> frames[n].dur]]
    BY <1>4, PlayedByTheRules
<1>6. Len(q) = 1 /\ q[1] = s
    BY <1>2, <1>3, <1>5
<1>7. Watched(q)[0] = << >> /\ Watched(q)[1] = Prolonged(Watched(q)[0], q[1])
    BY <1>6, Watching
<1>8. Timeline(q) = Append(<< >>, s)
    BY <1>6, <1>7 DEF Timeline, Prolonged
<1>9. Pictures(Append(<< >>, s)) = [i \in 1 .. 1 |-> c]
    BY <1>3 DEF Pictures
<1>10. QED
    BY <1>1, <1>4, <1>8, <1>9

\* What Close writes shows what the muxer holds: an animation always, and a
\* still image when its one picture kept its alpha.
THEOREM WholeFile == Spec => []FileIsWhole
<1>1. ASSUME IInv, NoRaw, file.kind = "animation" PROVE FileIsWhole
    <2>1. file.frames = mux
        BY <1>1 DEF IInv, Writes, IsOf
    <2>2. QED
        BY <1>1, <2>1 DEF FileIsWhole
<1>2. ASSUME IInv, NoRaw, AlphaKept, file.kind # "none", file.kind # "animation"
      PROVE  FileIsWhole
    <2>1. /\ FrameList(mux) /\ Len(mux) = 1
          /\ Bounds(mux[1]) = CanvasRect /\ ~mux[1].blend /\ Bare(mux[1].img)
          /\ mux[1].img = Visible(prevCanvas) /\ StillOf(file.frames, mux[1].img)
        <3>1. /\ FrameList(mux) /\ Len(mux) = 1 /\ Opens
              /\ StillOf(file.frames, mux[1].img) \/ StillOf(file.frames, Visible(prevCanvas))
            BY <1>2 DEF IInv, Tracks, Writes, IsOf
        <3>2. QED
            BY <1>2, <3>1 DEF Opens
    <2>2. IsFile(mux) /\ Committed(mux[1]) /\ IsFrame(mux[1])
        BY <2>1, ListIsFile DEF FrameList, IsFile
    <2>3. mux[1].img \in Canvases
        <3>1. mux[1].w = width /\ mux[1].h = height
            BY <2>1, <2>2, CanvasFrame
        <3>2. mux[1].img \in [Grid(mux[1].w, mux[1].h) -> Pixels]
            BY <2>2 DEF Committed
        <3>3. QED
            BY <3>1, <3>2 DEF Canvases, Pos
    <2>4. compositeFrame(Blank, mux[1]) = mux[1].img
        BY <2>1, <2>2, <2>3, FullDraws
    <2>5. PICK g : g = file.frames[1]
        OBVIOUS
    <2>6. /\ IsFile(file.frames) /\ Len(file.frames) = 1 /\ IsFrame(g) /\ Bounds(g) = CanvasRect
          /\ g.blend /\ g.img = mux[1].img
        BY <2>1, <2>5 DEF StillOf, IsFile
    <2>7. compositeFrame(Blank, g) = mux[1].img
        BY <2>1, <2>3, <2>6, StillDraws
    <2>8. /\ Pictures(Timeline(Play(mux))) = [i \in 1 .. 1 |-> mux[1].img]
          /\ Pictures(Timeline(Play(file.frames))) = [i \in 1 .. 1 |-> mux[1].img]
        BY <2>1, <2>2, <2>4, <2>5, <2>6, <2>7, OneShown
    <2>9. QED
        BY <1>2, <2>8 DEF FileIsWhole
<1>3. IInv => FileIsWhole
    BY <1>1, <1>2 DEF FileIsWhole
<1>4. QED
    BY <1>3, Invariance, PTL

(***************************************************************************)
(* Frames of the caller's own                                               *)
(***************************************************************************)

IsSeq(m) == \E S : m \in Seq(S)

\* The frame that may still be changed is one of the encoder's: it remembers one
\* as soon as it remembers a canvas, and only then changes any.
Apart ==
    /\ IsSeq(mux)
    /\ \A g \in given : g.at \in 1 .. Len(mux) /\ mux[g.at] = g.frame
    /\ prevCanvas # NoCanvas =>
         prevMuxIndex \in 1 .. Len(mux) /\ \A g \in given : g.at # prevMuxIndex

\* Nothing but one frame differs.
OnlyAt(m, k, i) == IsSeq(k) /\ Len(k) = Len(m) /\ \A j \in 1 .. Len(m) : j # i => k[j] = m[j]

LEMMA OneChanged ==
    ASSUME NEW m, IsSeq(m), NEW i \in 1 .. Len(m), NEW f
    PROVE  OnlyAt(m, [m EXCEPT ![i] = f], i)
<1>1. PICK S : m \in Seq(S)
    BY DEF IsSeq
<1> DEFINE R == S \cup {f}
<1>2. m \in Seq(R)
    BY <1>1, SeqMonotonic
<1>3. f \in R
    OBVIOUS
<1> HIDE DEF R
<1>4. /\ [m EXCEPT ![i] = f] \in Seq(R) /\ Len([m EXCEPT ![i] = f]) = Len(m)
      /\ \A j \in 1 .. Len(m) : j # i => [m EXCEPT ![i] = f][j] = m[j]
    BY <1>2, <1>3, ExceptSeq
<1>5. QED
    BY <1>4 DEF OnlyAt, IsSeq

LEMMA OneMore ==
    ASSUME NEW m, IsSeq(m), NEW f
    PROVE  /\ IsSeq(Append(m, f)) /\ Len(m) \in Nat /\ Len(Append(m, f)) = Len(m) + 1
           /\ Append(m, f)[Len(m) + 1] = f /\ \A j \in 1 .. Len(m) : Append(m, f)[j] = m[j]
<1>1. PICK S : m \in Seq(S)
    BY DEF IsSeq
<1> DEFINE R == S \cup {f}
<1>2. m \in Seq(R)
    BY <1>1, SeqMonotonic
<1>3. f \in R
    OBVIOUS
<1> HIDE DEF R
<1>4. Append(m, f) \in Seq(R)
    BY <1>2, <1>3
<1>5. QED
    BY <1>2, <1>3, <1>4 DEF IsSeq

\* The encoder's steps: it changes at most the frame it remembers, and adds at
\* most one, which it then remembers.
LEMMA KeptApart ==
    ASSUME Apart, given' = given, prevCanvas # NoCanvas, NEW k, OnlyAt(mux, k, prevMuxIndex),
           \/ mux' = k /\ prevMuxIndex' = prevMuxIndex
           \/ \E f : mux' = Append(k, f) /\ prevMuxIndex' = Len(mux) + 1
    PROVE  Apart'
<1>1. /\ IsSeq(k) /\ Len(k) = Len(mux) /\ Len(mux) \in Nat /\ prevMuxIndex \in 1 .. Len(mux)
      /\ \A g \in given : g.at \in 1 .. Len(mux) /\ k[g.at] = g.frame /\ g.at # prevMuxIndex
    BY OneMore DEF Apart, OnlyAt
<1>2. CASE mux' = k /\ prevMuxIndex' = prevMuxIndex
    BY <1>1, <1>2 DEF Apart
<1>3. ASSUME NEW f, mux' = Append(k, f), prevMuxIndex' = Len(mux) + 1
      PROVE  Apart'
    <2>1. IsSeq(mux') /\ Len(mux') = Len(mux) + 1 /\ \A j \in 1 .. Len(mux) : mux'[j] = k[j]
        BY <1>1, <1>3, OneMore
    <2>2. \A g \in given' : g.at \in 1 .. Len(mux') /\ mux'[g.at] = g.frame /\ g.at # prevMuxIndex'
        BY <1>1, <1>3, <2>1
    <2>3. QED
        BY <1>1, <1>3, <2>1, <2>2 DEF Apart
<1>4. QED
    BY <1>2, <1>3

LEMMA FullApart ==
    ASSUME Apart, given' = given, NEW c, NEW dur, EncodeFull(c, dur)
    PROVE  Apart'
<1>1. CASE UNCHANGED <<mux, optState>>
    BY <1>1 DEF Apart, optState
<1>2. ASSUME NEW f, mux' = Append(mux, f), prevMuxIndex' = Len(mux) + 1 PROVE Apart'
    <2>1. /\ IsSeq(mux') /\ Len(mux) \in Nat /\ Len(mux') = Len(mux) + 1
          /\ \A j \in 1 .. Len(mux) : mux'[j] = mux[j]
        BY <1>2, OneMore DEF Apart
    <2>2. \A g \in given' : g.at \in 1 .. Len(mux') /\ mux'[g.at] = g.frame /\ g.at # prevMuxIndex'
        BY <1>2, <2>1 DEF Apart
    <2>3. QED
        BY <1>2, <2>1, <2>2 DEF Apart
<1>3. QED
    BY <1>1, <1>2 DEF EncodeFull, Fail

LEMMA LongerApart ==
    ASSUME Apart, given' = given, prevCanvas # NoCanvas, NEW dur, increasePreviousDuration(dur)
    PROVE  Apart'
<1>1. \A t : OnlyAt(mux, [mux EXCEPT ![prevMuxIndex].dur = clampDuration(t)], prevMuxIndex)
    BY OneChanged DEF Apart
<1>2. \E t : LET k == [mux EXCEPT ![prevMuxIndex].dur = clampDuration(t)]
             IN  \/ mux' = k /\ prevMuxIndex' = prevMuxIndex
                 \/ \E f : mux' = Append(k, f) /\ prevMuxIndex' = Len(mux) + 1
    BY DEF increasePreviousDuration, Fail, optState
<1>3. QED
    BY <1>1, <1>2, KeptApart

LEMMA SubApart ==
    ASSUME Apart, given' = given, prevCanvas # NoCanvas, NEW cand, NEW bg \in BOOLEAN, NEW c, NEW dur,
           EmitSubFrame(cand, bg, c, dur)
    PROVE  Apart'
<1> DEFINE k == IF bg /\ PrevToDispose \in DOMAIN mux
                THEN [mux EXCEPT ![PrevToDispose].disposeBG = TRUE] ELSE mux
<1>1. OnlyAt(mux, k, prevMuxIndex)
    <2>1. OnlyAt(mux, mux, prevMuxIndex)
        BY DEF OnlyAt, Apart
    <2>2. OnlyAt(mux, [mux EXCEPT ![prevMuxIndex].disposeBG = TRUE], prevMuxIndex)
        BY OneChanged DEF Apart
    <2>3. QED
        BY <2>1, <2>2 DEF PrevToDispose
<1>2. \/ mux' = k /\ prevMuxIndex' = prevMuxIndex
      \/ \E f : mux' = Append(k, f) /\ prevMuxIndex' = Len(mux) + 1
    BY DEF EmitSubFrame, Fail, optState
<1> HIDE DEF k
<1>3. QED
    BY <1>1, <1>2, KeptApart

LEMMA AddApart == ASSUME Apart, cfg \in Configurations, AddSomeFrame PROVE Apart'
<1>1. PICK img \in cfg.Images, dur \in cfg.Durations : AddFrame(img, dur) /\ given' = given
    BY DEF AddSomeFrame
<1>2. PICK c : c = Placed(img)
    OBVIOUS
<1>3. c # NoCanvas
    BY <1>2, PlacedType, CanvasIsSome
<1>4. CASE UNCHANGED <<mux, optState>>
    BY <1>1, <1>4 DEF Apart, optState
<1>5. CASE EncodeFull(c, dur)
    BY <1>1, <1>5, FullApart
<1>6. CASE prevCanvas = c /\ increasePreviousDuration(dur)
    BY <1>1, <1>3, <1>6, LongerApart
<1>7. CASE prevCanvas # NoCanvas /\ EncodeSubFrame(c, dur)
    <2>1. \/ UNCHANGED <<mux, optState>> \/ EncodeFull(c, dur)
          \/ \E cand : EmitSubFrame(cand, cand # Candidate(prevCanvas, c), c, dur)
        BY <1>7 DEF EncodeSubFrame, Fail
    <2>2. ASSUME NEW cand, EmitSubFrame(cand, cand # Candidate(prevCanvas, c), c, dur) PROVE Apart'
        <3>1. (cand # Candidate(prevCanvas, c)) \in BOOLEAN
            OBVIOUS
        <3>2. QED
            BY <1>1, <1>7, <2>2, <3>1, SubApart
    <2>3. QED
        BY <1>4, <1>5, <2>1, <2>2
<1>8. QED
    BY <1>1, <1>2, <1>4, <1>5, <1>6, <1>7 DEF AddFrame, Fail, Panic

LEMMA GiveApart ==
    ASSUME Apart, NEW f, Give(f), UNCHANGED <<prevCanvas, prevMuxIndex>>
    PROVE  Apart'
<1>1. PICK h : mux' = Append(mux, h) /\ given' = given \cup {[at |-> Len(mux) + 1, frame |-> h]}
    BY DEF Give
<1>2. /\ IsSeq(mux') /\ Len(mux) \in Nat /\ Len(mux') = Len(mux) + 1
      /\ mux'[Len(mux) + 1] = h /\ \A j \in 1 .. Len(mux) : mux'[j] = mux[j]
    BY <1>1, OneMore DEF Apart
<1>3. \A g \in given' : g.at \in 1 .. Len(mux') /\ mux'[g.at] = g.frame
    BY <1>1, <1>2 DEF Apart
<1>4. ASSUME prevCanvas # NoCanvas, NEW g \in given' PROVE g.at # prevMuxIndex
    BY <1>1, <1>2, <1>4 DEF Apart
<1>5. prevCanvas # NoCanvas => prevMuxIndex \in 1 .. Len(mux')
    BY <1>2 DEF Apart
<1>6. QED
    BY <1>2, <1>3, <1>4, <1>5 DEF Apart

LEMMA RawApart == ASSUME Apart, AddSomeRaw PROVE Apart'
<1>1. PICK f \in cfg.RawFrames : AddRawFrame(f) \/ AddBitstreamFrame(f)
    BY DEF AddSomeRaw
<1>2. UNCHANGED <<prevCanvas, prevMuxIndex>>
    BY <1>1 DEF AddRawFrame, AddBitstreamFrame, Fail, optState
<1>3. UNCHANGED <<mux, given>> \/ \E h : Give(h)
    BY <1>1 DEF AddRawFrame, AddBitstreamFrame
<1>4. CASE UNCHANGED <<mux, given>>
    BY <1>2, <1>4 DEF Apart
<1>5. QED
    BY <1>2, <1>3, <1>4, GiveApart

\* Whatever the caller interleaves, its own frames stay as it gave them.
THEOREM KeepsRawFrames == Spec => []RawFramesUntouched
<1> DEFINE Inv == Apart /\ cfg \in Configurations
<1>1. Init => Inv
    <2>1. ASSUME Init PROVE IsSeq(mux) /\ given = {} /\ prevCanvas = NoCanvas /\ cfg \in Configurations
        BY <2>1, EmptySeq DEF Init, IsSeq
    <2>2. QED
        BY <2>1 DEF Apart
<1>2. Inv /\ [Next]_vars => Inv'
    <2> SUFFICES ASSUME Inv, [Next]_vars PROVE Inv'
        OBVIOUS
    <2>1. cfg' = cfg
        BY DEF Next, vars
    <2>2. CASE AddSomeFrame
        BY <2>1, <2>2, AddApart
    <2>3. CASE AddSomeRaw
        BY <2>1, <2>3, RawApart
    <2>4. CASE SetMetadata \/ Close \/ UNCHANGED vars
        BY <2>1, <2>4 DEF SetMetadata, Close, vars, optState, Apart
    <2>5. QED
        BY <2>2, <2>3, <2>4 DEF Next
<1>3. Inv => RawFramesUntouched
    <2>1. IsSeq(mux) => DOMAIN mux = 1 .. Len(mux)
        BY DEF IsSeq
    <2>2. QED
        BY <2>1 DEF Apart, RawFramesUntouched
<1>4. QED
    BY <1>1, <1>2, <1>3, PTL DEF Spec
================================================================================
