----------------------------- MODULE PlaybackProofs -----------------------------
(* Lemmas about playing a list of frames: what Rendered and the decoder compute, *)
(* that the keyframe shortcut is unseen, what a viewer sees of a list that grew  *)
(* by a frame, and where two pictures differ.                                    *)
EXTENDS Playback, FiniteSetTheorems, SequenceTheorems, TLAPS

(***************************************************************************)
(* Induction over the natural numbers                                       *)
(***************************************************************************)

\* A set that holds 0 and the successor of each of its elements holds every
\* natural number: below one it lacks, the successor would map a finite set
\* one to one into a smaller one.
LEMMA CountUp ==
    ASSUME NEW T \in SUBSET Nat, 0 \in T, \A n \in T : n + 1 \in T, NEW m \in Nat
    PROVE  m \in T
<1> SUFFICES ASSUME m \notin T PROVE FALSE
    OBVIOUS
<1> DEFINE S == T \cap (0 .. m)
           succ == [k \in S |-> k + 1]
<1>1. IsFiniteSet(S)
    <2>1. IsFiniteSet(0 .. m) /\ S \subseteq 0 .. m
        BY FS_Interval
    <2>2. QED
        BY <2>1, FS_Subset
<1>2. 0 \in S /\ succ \in [S -> S \ {0}] /\ \A i, j \in S : succ[i] = succ[j] => i = j
    OBVIOUS
<1> HIDE DEF S, succ
<1>3. IsFiniteSet(S \ {0}) /\ Cardinality(S \ {0}) = Cardinality(S) - 1
    BY <1>1, <1>2, FS_RemoveElement
<1>4. Cardinality(S \ {0}) < Cardinality(S)
    BY <1>1, <1>3, FS_CardinalityType
<1>5. \E i, j \in S : i # j /\ succ[i] = succ[j]
    BY <1>1, <1>2, <1>3, <1>4, FS_PigeonHole
<1>6. QED
    BY <1>2, <1>5

\* What Min and Max of a set of natural numbers are.
LEMMA NatMin ==
    ASSUME NEW T \in SUBSET Nat, T # {}
    PROVE  Min(T) \in T /\ \A t \in T : Min(T) <= t
<1>1. \E x \in T : \A t \in T : x <= t
    <2> SUFFICES ASSUME \A x \in T : \E t \in T : ~(x <= t) PROVE FALSE
        OBVIOUS
    <2> DEFINE Below == {n \in Nat : \A m \in 0 .. n : m \notin T}
    <2>1. 0 \in Below
        OBVIOUS
    <2>2. \A n \in Below : n + 1 \in Below
        OBVIOUS
    <2>3. PICK x \in T : TRUE
        OBVIOUS
    <2>4. Below \in SUBSET Nat /\ x \in Nat
        OBVIOUS
    <2>5. \A n \in Below : n \notin T
        OBVIOUS
    <2> HIDE DEF Below
    <2>6. x \in Below
        BY <2>1, <2>2, <2>4, CountUp
    <2>7. QED
        BY <2>3, <2>5, <2>6
<1>2. QED
    BY <1>1 DEF Min

LEMMA NatMax ==
    ASSUME NEW k \in Nat, NEW T \in SUBSET (0 .. k), T # {}
    PROVE  Max(T) \in T /\ \A t \in T : Max(T) >= t
<1>1. PICK R : R = {n \in 0 .. k : k - n \in T}
    OBVIOUS
<1>2. \A x \in T : k - x \in R
    <2> TAKE x \in T
    <2>1. x \in 0 .. k /\ k - x \in 0 .. k /\ k - (k - x) = x
        OBVIOUS
    <2>2. QED
        BY <1>1, <2>1
<1>3. R # {} /\ R \in SUBSET Nat
    <2>1. PICK x \in T : TRUE
        OBVIOUS
    <2>2. R # {}
        BY <1>2, <2>1
    <2>3. R \subseteq Nat
        BY <1>1
    <2>4. QED
        BY <2>2, <2>3
<1>4. Min(R) \in R /\ \A t \in R : Min(R) <= t
    BY <1>3, NatMin
<1>5. PICK x \in T : Min(R) = k - x
    <2>1. Min(R) \in 0 .. k /\ k - Min(R) \in T
        BY <1>1, <1>4
    <2>2. Min(R) = k - (k - Min(R))
        BY <2>1
    <2>3. QED
        BY <2>1, <2>2
<1>6. \A t \in T : x >= t
    <2> TAKE t \in T
    <2>1. k - x <= k - t
        BY <1>2, <1>4, <1>5
    <2>2. QED
        BY <2>1
<1>7. QED
    BY <1>6 DEF Max

(***************************************************************************)
(* What Rendered computes                                                   *)
(***************************************************************************)

\* The canvas after n frames, if c holds those after fewer.
DrawnAfter(frames, c, n) ==
    IF n = 0 THEN Blank
    ELSE compositeFrame(IF n = 1 THEN Blank ELSE applyDispose(c[n - 1], frames[n - 1]),
                        frames[n])

\* The recursion of Rendered has a solution: one up to m frames extends to one
\* up to m + 1.
LEMMA SomeRendering ==
    ASSUME NEW frames, Len(frames) \in Nat
    PROVE  \E c : c = [n \in 0 .. Len(frames) |-> DrawnAfter(frames, c, n)]
<1> DEFINE P(m) == \E c : c = [n \in 0 .. m |-> DrawnAfter(frames, c, n)]
           T == {m \in Nat : P(m)}
<1>1. 0 \in T
    <2> DEFINE c == [n \in 0 .. 0 |-> Blank]
    <2>1. c = [n \in 0 .. 0 |-> DrawnAfter(frames, c, n)]
        BY DEF DrawnAfter
    <2>2. QED
        BY <2>1
<1>2. ASSUME NEW m \in T PROVE m + 1 \in T
    <2>1. PICK c : c = [n \in 0 .. m |-> DrawnAfter(frames, c, n)]
        OBVIOUS
    <2> DEFINE e == [n \in 0 .. m + 1 |-> IF n <= m THEN c[n] ELSE DrawnAfter(frames, c, n)]
    <2>2. ASSUME NEW n \in 0 .. m + 1 PROVE e[n] = DrawnAfter(frames, e, n)
        <3>1. n # 0 => n - 1 \in 0 .. m /\ e[n - 1] = c[n - 1]
            OBVIOUS
        <3>2. DrawnAfter(frames, e, n) = DrawnAfter(frames, c, n)
            BY <3>1 DEF DrawnAfter
        <3>3. n \in 0 .. m => c[n] = DrawnAfter(frames, c, n)
            BY <2>1
        <3>4. QED
            BY <3>2, <3>3
    <2>3. e = [n \in 0 .. m + 1 |-> DrawnAfter(frames, e, n)]
        BY <2>2
    <2>4. P(m + 1)
        BY <2>3
    <2>5. QED
        BY <2>4
<1> HIDE DEF P
<1>3. Len(frames) \in T
    BY <1>1, <1>2, CountUp
<1>4. QED
    BY <1>3 DEF P

LEMMA RenderedSolves ==
    ASSUME NEW frames, Len(frames) \in Nat
    PROVE  Rendered(frames)
             = [n \in 0 .. Len(frames) |-> DrawnAfter(frames, Rendered(frames), n)]
BY SomeRendering DEF Rendered, DrawnAfter

\* The rules, frame by frame.
LEMMA RenderingRules ==
    ASSUME NEW frames, Len(frames) \in Nat
    PROVE  /\ Rendered(frames)[0] = Blank
           /\ \A n \in 1 .. Len(frames) :
                 Rendered(frames)[n] =
                    compositeFrame(IF n = 1 THEN Blank
                                   ELSE applyDispose(Rendered(frames)[n - 1], frames[n - 1]),
                                   frames[n])
<1> DEFINE R == Rendered(frames)
<1>1. R = [n \in 0 .. Len(frames) |-> DrawnAfter(frames, R, n)]
    BY RenderedSolves
<1> HIDE DEF R
<1>2. /\ R[0] = DrawnAfter(frames, R, 0)
      /\ \A n \in 1 .. Len(frames) : R[n] = DrawnAfter(frames, R, n)
    BY <1>1
<1>3. QED
    BY <1>2 DEF R, DrawnAfter

(***************************************************************************)
(* Frames that hide what was there, and disposals that leave nothing        *)
(***************************************************************************)

LEMMA FullFrame ==
    ASSUME NEW f, IsFrame(f), Full(Bounds(f))
    PROVE  /\ f.x = 0 /\ f.y = 0 /\ f.w = width /\ f.h = height
           /\ Cells(Bounds(f)) = Pos /\ Cells(Clip(Bounds(f))) = Pos
<1>1. /\ f.x \in Nat /\ f.y \in Nat /\ f.w \in Nat /\ f.h \in Nat
      /\ width \in Nat /\ height \in Nat
    BY CanvasAssumption DEF IsFrame
<1>2. Bounds(f) = CanvasRect
    BY DEF Full
<1>3. f.x = 0 /\ f.y = 0 /\ f.w = width /\ f.h = height
    <2>1. /\ Bounds(f).x0 = f.x /\ Bounds(f).y0 = f.y
          /\ Bounds(f).x1 = f.x + f.w /\ Bounds(f).y1 = f.y + f.h
        BY DEF Bounds, Rect
    <2>2. /\ CanvasRect.x0 = 0 /\ CanvasRect.y0 = 0
          /\ CanvasRect.x1 = width /\ CanvasRect.y1 = height
        BY DEF CanvasRect, Rect
    <2>3. QED
        BY <1>1, <1>2, <2>1, <2>2
<1>4. ASSUME NEW r, r.x0 = 0, r.y0 = 0, r.x1 = width, r.y1 = height
      PROVE  Cells(r) = Pos
    <2>1. \A p \in Pos : p[1] \in 0 .. width - 1 /\ p[2] \in 0 .. height - 1
        BY DEF Pos, Grid
    <2>2. QED
        BY <1>1, <1>4, <2>1 DEF Cells
<1>5. /\ CanvasRect.x0 = 0 /\ CanvasRect.y0 = 0
      /\ CanvasRect.x1 = width /\ CanvasRect.y1 = height
    BY DEF CanvasRect, Rect
<1>6. /\ Clip(CanvasRect).x0 = 0 /\ Clip(CanvasRect).y0 = 0
      /\ Clip(CanvasRect).x1 = width /\ Clip(CanvasRect).y1 = height
    BY <1>1 DEF Clip, CanvasRect, Rect
<1>7. Cells(CanvasRect) = Pos /\ Cells(Clip(CanvasRect)) = Pos
    BY <1>4, <1>5, <1>6
<1>8. QED
    BY <1>2, <1>3, <1>7

\* A frame that covers the canvas, and is opaque or not blended, shows nothing
\* of what was there before.
LEMMA CoveringHides ==
    ASSUME NEW f, IsFrame(f), Full(Bounds(f)), ~f.hasAlpha \/ ~f.blend, NEW c
    PROVE  compositeFrame(c, f) = compositeFrame(Blank, f)
<1>1. f.x = 0 /\ f.y = 0 /\ f.w = width /\ f.h = height /\ Cells(Clip(Bounds(f))) = Pos
    BY FullFrame
<1>2. ASSUME NEW p \in Pos
      PROVE  f.blend => f.img[<<p[1] - f.x, p[2] - f.y>>].a = 255
    <2>1. p \in Grid(width, height) /\ <<p[1] - 0, p[2] - 0>> = p
        BY CanvasAssumption DEF Pos, Grid
    <2>2. QED
        BY <1>1, <2>1 DEF IsFrame
<1>3. ASSUME NEW s, s.a = 255, NEW e PROVE alphaBlend(s, e) = s
    BY <1>3 DEF alphaBlend
<1>4. QED
    BY <1>1, <1>2, <1>3 DEF compositeFrame

\* Disposing of a frame that covered the canvas leaves it blank.
LEMMA CoveringClears ==
    ASSUME NEW f, IsFrame(f), Full(Bounds(f)), f.disposeBG, NEW c
    PROVE  applyDispose(c, f) = Blank
<1>1. Cells(Bounds(f)) = Pos
    BY FullFrame
<1>2. QED
    BY <1>1 DEF applyDispose, fillRect, Blank

\* Disposing of the only frame drawn on a blank canvas leaves it blank, also
\* where the frame hangs over the edge.
LEMMA FirstClears ==
    ASSUME NEW f, IsFrame(f), f.disposeBG
    PROVE  applyDispose(compositeFrame(Blank, f), f) = Blank
<1>1. Cells(Clip(Bounds(f))) \subseteq Cells(Bounds(f))
    <2>1. /\ Bounds(f).x0 \in Nat /\ Bounds(f).y0 \in Nat
          /\ Bounds(f).x1 \in Nat /\ Bounds(f).y1 \in Nat
        BY DEF Bounds, Rect, IsFrame
    <2>2. /\ Clip(Bounds(f)).x0 = Bounds(f).x0 /\ Clip(Bounds(f)).y0 = Bounds(f).y0
          /\ Clip(Bounds(f)).x1 \in Nat /\ Clip(Bounds(f)).x1 <= Bounds(f).x1
          /\ Clip(Bounds(f)).y1 \in Nat /\ Clip(Bounds(f)).y1 <= Bounds(f).y1
        BY <2>1, CanvasAssumption DEF Clip, Bounds, Rect
    <2>3. \A p \in Pos : p[1] \in Int /\ p[2] \in Int
        BY CanvasAssumption DEF Pos, Grid
    <2>4. QED
        BY <2>1, <2>2, <2>3 DEF Cells
<1>2. \A p \in Pos : p \notin Cells(Bounds(f)) => compositeFrame(Blank, f)[p] = Transparent
    BY <1>1 DEF compositeFrame, Blank
<1>3. QED
    BY <1>2 DEF applyDispose, fillRect, Blank

(***************************************************************************)
(* The decoder between two frames of a file                                 *)
(***************************************************************************)

\* d has taken frames of a file, shows the canvas of the rules, and remembers of
\* the last frame what isKeyFrame asks for: when it was a keyframe, it was drawn
\* on a blank canvas.
Holds(d, frames) ==
    /\ d.pos \in 1 .. Len(frames) + 1
    /\ d.currFrame = Rendered(frames)[d.pos - 1]
    /\ d.prevFrameDisposed =
         IF d.pos = 1 THEN Blank ELSE applyDispose(d.currFrame, frames[d.pos - 1])
    /\ d.pos > 1 =>
         /\ d.prevDisposeBG = frames[d.pos - 1].disposeBG
         /\ d.prevBounds = Bounds(frames[d.pos - 1])
         /\ d.prevFrameWasKeyframe => d.currFrame = compositeFrame(Blank, frames[d.pos - 1])

\* A list of frames that keep their promises.
IsFile(frames) == Len(frames) \in Nat /\ \A i \in 1 .. Len(frames) : IsFrame(frames[i])

LEMMA FreshHolds ==
    ASSUME NEW frames, IsFile(frames), NEW d, d = NewAnimDecoder \/ (\E e : d = Rewound(e))
    PROVE  Holds(d, frames) /\ d.pos = 1
<1>1. d.pos = 1 /\ d.currFrame = Blank /\ d.prevFrameDisposed = Blank
    BY DEF NewAnimDecoder, Rewound
<1>2. Len(frames) \in Nat
    BY DEF IsFile
<1>3. QED
    BY <1>1, <1>2, RenderingRules DEF Holds

\* A keyframe drawn on a blank canvas shows what it shows on the canvas the
\* previous frame left.
LEMMA ShortcutIsUnseen ==
    ASSUME NEW frames, IsFile(frames), NEW d, Holds(d, frames),
           NEW i \in 1 .. Len(frames), i = d.pos, isKeyFrame(d, i, frames[i])
    PROVE  compositeFrame(Blank, frames[i]) = compositeFrame(d.prevFrameDisposed, frames[i])
<1>1. IsFrame(frames[i]) /\ Len(frames) \in Nat
    BY DEF IsFile
<1>2. CASE i = 1
    BY <1>2 DEF Holds
<1>3. CASE Full(Bounds(frames[i])) /\ (~frames[i].hasAlpha \/ ~frames[i].blend)
    BY <1>1, <1>3, CoveringHides
<1>4. CASE i # 1 /\ d.prevDisposeBG /\ (Full(d.prevBounds) \/ d.prevFrameWasKeyframe)
    <2> DEFINE f == frames[i - 1]
    <2>1. i - 1 \in 1 .. Len(frames) /\ d.pos > 1
        BY <1>1, <1>4
    <2>2. IsFrame(f) /\ f.disposeBG /\ d.prevFrameDisposed = applyDispose(d.currFrame, f)
        BY <1>4, <2>1 DEF Holds, IsFile
    <2>3. CASE Full(d.prevBounds)
        <3>1. Full(Bounds(f))
            BY <2>1, <2>3 DEF Holds
        <3>2. QED
            BY <2>2, <3>1, CoveringClears
    <2>4. CASE d.prevFrameWasKeyframe
        <3>1. d.currFrame = compositeFrame(Blank, f)
            BY <2>1, <2>4 DEF Holds
        <3>2. QED
            BY <2>2, <3>1, FirstClears
    <2>5. QED
        BY <1>4, <2>3, <2>4
<1>5. QED
    BY <1>2, <1>3, <1>4 DEF isKeyFrame

\* The next frame is drawn as the rules say.
LEMMA AdvancedHolds ==
    ASSUME NEW frames, IsFile(frames), NEW d, Holds(d, frames), d.pos \in 1 .. Len(frames),
           NEW e, e = Advanced(d, frames[d.pos])
    PROVE  Holds(e, frames) /\ e.pos = d.pos + 1
<1>1. PICK i \in 1 .. Len(frames) : i = d.pos
    OBVIOUS
<1>2. PICK f : f = frames[i]
    OBVIOUS
<1>3. PICK k \in BOOLEAN : k = isKeyFrame(d, i, f)
    BY DEF isKeyFrame
<1>4. PICK c : c = compositeFrame(IF k THEN Blank ELSE d.prevFrameDisposed, f)
    OBVIOUS
<1>5. /\ e.pos = i + 1 /\ e.currFrame = c /\ e.prevFrameDisposed = applyDispose(c, f)
      /\ e.prevFrameWasKeyframe = k /\ e.prevDisposeBG = f.disposeBG
      /\ e.prevBounds = Bounds(f)
    BY <1>1, <1>2, <1>3, <1>4 DEF Advanced
<1>6. /\ Len(frames) \in Nat
      /\ i + 1 > 1 /\ (i + 1) - 1 = i /\ i + 1 # 1 /\ i + 1 \in 1 .. Len(frames) + 1
    BY DEF IsFile
<1>7. c = compositeFrame(d.prevFrameDisposed, f)
    BY <1>1, <1>2, <1>3, <1>4, ShortcutIsUnseen
<1>8. d.prevFrameDisposed =
        IF i = 1 THEN Blank ELSE applyDispose(Rendered(frames)[i - 1], frames[i - 1])
    BY <1>1 DEF Holds
<1>9. c = Rendered(frames)[i]
    BY <1>2, <1>6, <1>7, <1>8, RenderingRules
<1>10. QED
    BY <1>1, <1>2, <1>4, <1>5, <1>6, <1>9 DEF Holds

(***************************************************************************)
(* Playing a whole file                                                     *)
(***************************************************************************)

DecoderAfter(frames, d, n) ==
    IF n = 0 THEN NewAnimDecoder ELSE Advanced(d[n - 1], frames[n])

LEMMA SomeDecoders ==
    ASSUME NEW frames, Len(frames) \in Nat
    PROVE  \E d : d = [n \in 0 .. Len(frames) |-> DecoderAfter(frames, d, n)]
<1> DEFINE P(m) == \E d : d = [n \in 0 .. m |-> DecoderAfter(frames, d, n)]
           T == {m \in Nat : P(m)}
<1>1. 0 \in T
    <2> DEFINE d == [n \in 0 .. 0 |-> NewAnimDecoder]
    <2>1. d = [n \in 0 .. 0 |-> DecoderAfter(frames, d, n)]
        BY DEF DecoderAfter
    <2>2. QED
        BY <2>1
<1>2. ASSUME NEW m \in T PROVE m + 1 \in T
    <2>1. PICK d : d = [n \in 0 .. m |-> DecoderAfter(frames, d, n)]
        OBVIOUS
    <2> DEFINE e == [n \in 0 .. m + 1 |-> IF n <= m THEN d[n] ELSE DecoderAfter(frames, d, n)]
    <2>2. ASSUME NEW n \in 0 .. m + 1 PROVE e[n] = DecoderAfter(frames, e, n)
        <3>1. n # 0 => n - 1 \in 0 .. m /\ e[n - 1] = d[n - 1]
            OBVIOUS
        <3>2. DecoderAfter(frames, e, n) = DecoderAfter(frames, d, n)
            BY <3>1 DEF DecoderAfter
        <3>3. n \in 0 .. m => d[n] = DecoderAfter(frames, d, n)
            BY <2>1
        <3>4. QED
            BY <3>2, <3>3
    <2>3. e = [n \in 0 .. m + 1 |-> DecoderAfter(frames, e, n)]
        BY <2>2
    <2>4. P(m + 1)
        BY <2>3
    <2>5. QED
        BY <2>4
<1> HIDE DEF P
<1>3. Len(frames) \in T
    BY <1>1, <1>2, CountUp
<1>4. QED
    BY <1>3 DEF P

LEMMA DecodersSolve ==
    ASSUME NEW frames, Len(frames) \in Nat
    PROVE  /\ Decoders(frames)[0] = NewAnimDecoder
           /\ \A n \in 1 .. Len(frames) :
                 Decoders(frames)[n] = Advanced(Decoders(frames)[n - 1], frames[n])
<1> DEFINE D == Decoders(frames)
<1>1. D = [n \in 0 .. Len(frames) |-> DecoderAfter(frames, D, n)]
    BY SomeDecoders DEF Decoders, DecoderAfter
<1> HIDE DEF D
<1>2. D[0] = DecoderAfter(frames, D, 0) /\ \A n \in 1 .. Len(frames) : D[n] = DecoderAfter(frames, D, n)
    BY <1>1
<1>3. QED
    BY <1>2 DEF D, DecoderAfter

LEMMA DecodersHold ==
    ASSUME NEW frames, IsFile(frames), NEW n \in 0 .. Len(frames)
    PROVE  Holds(Decoders(frames)[n], frames) /\ Decoders(frames)[n].pos = n + 1
<1> DEFINE D == Decoders(frames)
           T == {m \in Nat : m <= Len(frames) => Holds(D[m], frames) /\ D[m].pos = m + 1}
<1>1. Len(frames) \in Nat
    BY DEF IsFile
<1>2. /\ D[0] = NewAnimDecoder
      /\ \A m \in 1 .. Len(frames) : D[m] = Advanced(D[m - 1], frames[m])
    BY <1>1, DecodersSolve
<1> HIDE DEF D
<1>3. 0 \in T
    BY <1>2, FreshHolds
<1>4. ASSUME NEW m \in T PROVE m + 1 \in T
    <2>1. CASE m + 1 <= Len(frames)
        <3>1. Holds(D[m], frames) /\ D[m].pos = m + 1 /\ m + 1 \in 1 .. Len(frames)
            BY <1>1, <2>1
        <3>2. (m + 1) - 1 = m
            OBVIOUS
        <3>3. D[m + 1] = Advanced(D[m], frames[m + 1])
            BY <1>2, <3>1, <3>2
        <3>4. Holds(D[m + 1], frames) /\ D[m + 1].pos = (m + 1) + 1
            BY <3>1, <3>3, AdvancedHolds
        <3>5. QED
            BY <3>4
    <2>2. QED
        BY <1>1, <2>1
<1>5. T \subseteq Nat /\ n \in Nat
    BY <1>1
<1> HIDE DEF T
<1>6. n \in T
    BY <1>3, <1>4, <1>5, CountUp
<1>7. QED
    BY <1>1, <1>6 DEF T, D

\* What NextFrame shows of a file is what the rules say, picture by picture.
LEMMA PlayedByTheRules ==
    ASSUME NEW frames, IsFile(frames)
    PROVE  Play(frames) = [n \in 1 .. Len(frames) |->
                              [canvas |-> Rendered(frames)[n], dur |-> frames[n].dur]]
<1>1. ASSUME NEW n \in 1 .. Len(frames)
      PROVE  Decoders(frames)[n].currFrame = Rendered(frames)[n]
    <2>1. Holds(Decoders(frames)[n], frames) /\ Decoders(frames)[n].pos = n + 1
        BY DecodersHold DEF IsFile
    <2>2. (n + 1) - 1 = n
        BY DEF IsFile
    <2>3. QED
        BY <2>1, <2>2 DEF Holds
<1>2. QED
    BY <1>1 DEF Play

(***************************************************************************)
(* Lists that agree                                                         *)
(***************************************************************************)

\* A canvas is made of what its frames draw, and of how those before the last
\* were disposed of: durations do not matter, nor what the last one leaves.
DrawsAlike(f, g) ==
    /\ f.x = g.x /\ f.y = g.y /\ f.w = g.w /\ f.h = g.h
    /\ f.img = g.img /\ f.blend = g.blend

LEMMA RenderedAgree ==
    ASSUME NEW a, NEW b, Len(a) \in Nat, Len(b) \in Nat,
           NEW n \in Nat, n <= Len(a), n <= Len(b),
           \A i \in 1 .. n : DrawsAlike(a[i], b[i]),
           \A i \in 1 .. n - 1 : a[i].disposeBG = b[i].disposeBG
    PROVE  Rendered(a)[n] = Rendered(b)[n]
<1> DEFINE T == {m \in Nat : m <= n => Rendered(a)[m] = Rendered(b)[m]}
<1>1. 0 \in T
    BY RenderingRules
<1>2. ASSUME NEW m \in T PROVE m + 1 \in T
    <2>1. CASE m + 1 <= n
        <3>1. /\ m + 1 \in 1 .. Len(a) /\ m + 1 \in 1 .. Len(b) /\ m + 1 \in 1 .. n
              /\ (m + 1) - 1 = m /\ Rendered(a)[m] = Rendered(b)[m]
              /\ m # 0 => m \in 1 .. n /\ m \in 1 .. n - 1
              /\ m + 1 = 1 <=> m = 0
            BY <2>1
        <3>2. DrawsAlike(a[m + 1], b[m + 1])
            BY <3>1
        <3>3. m # 0 => DrawsAlike(a[m], b[m]) /\ a[m].disposeBG = b[m].disposeBG
            BY <3>1
        <3> DEFINE base(f) == IF m = 0 THEN Blank ELSE applyDispose(Rendered(f)[m], f[m])
        <3>4. base(a) = base(b)
            BY <3>1, <3>3 DEF applyDispose, Bounds, DrawsAlike
        <3>5. /\ Rendered(a)[m + 1] = compositeFrame(base(a), a[m + 1])
              /\ Rendered(b)[m + 1] = compositeFrame(base(b), b[m + 1])
            BY <3>1, RenderingRules
        <3> HIDE DEF base
        <3>6. compositeFrame(base(a), a[m + 1]) = compositeFrame(base(b), b[m + 1])
            BY <3>2, <3>4 DEF compositeFrame, Bounds, DrawsAlike
        <3>7. QED
            BY <3>5, <3>6
    <2>2. QED
        BY <2>1
<1> HIDE DEF T
<1>3. n \in T
    BY <1>1, <1>2, CountUp DEF T
<1>4. QED
    BY <1>3 DEF T

(***************************************************************************)
(* What a viewer sees                                                       *)
(***************************************************************************)

WatchedAfter(shown, line, n) ==
    IF n = 0 THEN << >> ELSE Prolonged(line[n - 1], shown[n])

LEMMA SomeLines ==
    ASSUME NEW shown, Len(shown) \in Nat
    PROVE  \E line : line = [n \in 0 .. Len(shown) |-> WatchedAfter(shown, line, n)]
<1> DEFINE P(m) == \E line : line = [n \in 0 .. m |-> WatchedAfter(shown, line, n)]
           T == {m \in Nat : P(m)}
<1>1. 0 \in T
    <2> DEFINE line == [n \in 0 .. 0 |-> << >>]
    <2>1. line = [n \in 0 .. 0 |-> WatchedAfter(shown, line, n)]
        BY DEF WatchedAfter
    <2>2. QED
        BY <2>1
<1>2. ASSUME NEW m \in T PROVE m + 1 \in T
    <2>1. PICK line : line = [n \in 0 .. m |-> WatchedAfter(shown, line, n)]
        OBVIOUS
    <2> DEFINE e == [n \in 0 .. m + 1 |->
                        IF n <= m THEN line[n] ELSE WatchedAfter(shown, line, n)]
    <2>2. ASSUME NEW n \in 0 .. m + 1 PROVE e[n] = WatchedAfter(shown, e, n)
        <3>1. n # 0 => n - 1 \in 0 .. m /\ e[n - 1] = line[n - 1]
            OBVIOUS
        <3>2. WatchedAfter(shown, e, n) = WatchedAfter(shown, line, n)
            BY <3>1 DEF WatchedAfter
        <3>3. n \in 0 .. m => line[n] = WatchedAfter(shown, line, n)
            BY <2>1
        <3>4. QED
            BY <3>2, <3>3
    <2>3. e = [n \in 0 .. m + 1 |-> WatchedAfter(shown, e, n)]
        BY <2>2
    <2>4. P(m + 1)
        BY <2>3
    <2>5. QED
        BY <2>4
<1> HIDE DEF P
<1>3. Len(shown) \in T
    BY <1>1, <1>2, CountUp
<1>4. QED
    BY <1>3 DEF P

LEMMA Watching ==
    ASSUME NEW shown, Len(shown) \in Nat
    PROVE  /\ Watched(shown)[0] = << >>
           /\ \A n \in 1 .. Len(shown) :
                 Watched(shown)[n] = Prolonged(Watched(shown)[n - 1], shown[n])
<1> DEFINE W == Watched(shown)
<1>1. W = [n \in 0 .. Len(shown) |-> WatchedAfter(shown, W, n)]
    BY SomeLines DEF Watched, WatchedAfter
<1> HIDE DEF W
<1>2. W[0] = WatchedAfter(shown, W, 0) /\ \A n \in 1 .. Len(shown) : W[n] = WatchedAfter(shown, W, n)
    BY <1>1
<1>3. QED
    BY <1>2 DEF W, WatchedAfter

LEMMA WatchedAgree ==
    ASSUME NEW a, NEW b, Len(a) \in Nat, Len(b) \in Nat,
           NEW n \in Nat, n <= Len(a), n <= Len(b), \A i \in 1 .. n : a[i] = b[i]
    PROVE  Watched(a)[n] = Watched(b)[n]
<1> DEFINE T == {m \in Nat : m <= n => Watched(a)[m] = Watched(b)[m]}
<1>1. 0 \in T
    BY Watching
<1>2. ASSUME NEW m \in T PROVE m + 1 \in T
    <2>1. CASE m + 1 <= n
        <3>1. /\ m + 1 \in 1 .. Len(a) /\ m + 1 \in 1 .. Len(b) /\ m + 1 \in 1 .. n
              /\ (m + 1) - 1 = m /\ Watched(a)[m] = Watched(b)[m]
            BY <2>1
        <3>2. /\ Watched(a)[m + 1] = Prolonged(Watched(a)[m], a[m + 1])
              /\ Watched(b)[m + 1] = Prolonged(Watched(b)[m], b[m + 1])
            BY <3>1, Watching
        <3>3. QED
            BY <3>1, <3>2
    <2>2. QED
        BY <2>1
<1> HIDE DEF T
<1>3. n \in T
    BY <1>1, <1>2, CountUp DEF T
<1>4. QED
    BY <1>3 DEF T

\* One picture more.
LEMMA TimelineAppend ==
    ASSUME NEW a, NEW b, Len(a) \in Nat, Len(b) = Len(a) + 1, \A i \in 1 .. Len(a) : a[i] = b[i]
    PROVE  Timeline(b) = Prolonged(Timeline(a), b[Len(b)])
<1>1. Watched(a)[Len(a)] = Watched(b)[Len(a)]
    <2> DEFINE n == Len(a)
    <2>1. /\ Len(a) \in Nat /\ Len(b) \in Nat /\ n \in Nat /\ n <= Len(a) /\ n <= Len(b)
          /\ \A i \in 1 .. n : a[i] = b[i]
        OBVIOUS
    <2> HIDE DEF n
    <2>2. Watched(a)[n] = Watched(b)[n]
        BY <2>1, WatchedAgree
    <2>3. QED
        BY <2>2 DEF n
<1>2. Len(b) \in 1 .. Len(b) /\ Len(b) \in Nat /\ Len(b) - 1 = Len(a)
    OBVIOUS
<1>3. Watched(b)[Len(b)] = Prolonged(Watched(b)[Len(b) - 1], b[Len(b)])
    BY <1>2, Watching
<1>4. QED
    BY <1>1, <1>2, <1>3 DEF Timeline

\* Pictures of a set C, each shown for some time.
Shots(C) == [canvas : C, dur : Int]

Shot(c, t) == [canvas |-> c, dur |-> t]

\* The last picture, shown longer.
Longer(line, t) == [line EXCEPT ![Len(line)] = Shot(@.canvas, @.dur + t)]

LEMMA ShotParts ==
    ASSUME NEW C, NEW e \in Shots(C)
    PROVE  e.canvas \in C /\ e.dur \in Int /\ e = Shot(e.canvas, e.dur)
BY DEF Shots, Shot

LEMMA ShotGrows ==
    ASSUME NEW C, NEW e \in Shots(C), NEW t \in Int
    PROVE  [e EXCEPT !.dur = @ + t] = Shot(e.canvas, e.dur + t)
BY DEF Shots, Shot

LEMMA LongerType ==
    ASSUME NEW C, NEW line \in Seq(Shots(C)), line # << >>, NEW t \in Int
    PROVE  /\ Longer(line, t) \in Seq(Shots(C)) /\ Longer(line, t) # << >>
           /\ Len(Longer(line, t)) = Len(line)
           /\ Longer(line, t)[Len(line)] = Shot(line[Len(line)].canvas, line[Len(line)].dur + t)
<1>1. Len(line) \in Nat /\ Len(line) \in 1 .. Len(line) /\ line[Len(line)] \in Shots(C)
    OBVIOUS
<1> DEFINE e == Shot(line[Len(line)].canvas, line[Len(line)].dur + t)
<1>2. e \in Shots(C)
    <2>1. line[Len(line)].canvas \in C /\ line[Len(line)].dur \in Int
        BY <1>1, ShotParts
    <2>2. QED
        BY <2>1 DEF Shots, Shot
<1>3. Longer(line, t) = [line EXCEPT ![Len(line)] = e]
    BY DEF Longer
<1> HIDE DEF e
<1>4. /\ [line EXCEPT ![Len(line)] = e] \in Seq(Shots(C))
      /\ Len([line EXCEPT ![Len(line)] = e]) = Len(line)
      /\ [line EXCEPT ![Len(line)] = e][Len(line)] = e
    BY <1>1, <1>2, ExceptSeq
<1>5. \A l \in Seq(Shots(C)) : Len(l) # 0 => l # << >>
    OBVIOUS
<1>6. QED
    BY <1>1, <1>3, <1>4, <1>5 DEF e

LEMMA LongerTwice ==
    ASSUME NEW C, NEW line \in Seq(Shots(C)), line # << >>, NEW s \in Int, NEW t \in Int
    PROVE  Longer(Longer(line, s), t) = Longer(line, s + t)
<1> DEFINE k == Len(line)
           e == line[k]
           l == Longer(line, s)
<1>1. k \in Nat /\ k \in 1 .. k /\ e \in Shots(C)
    OBVIOUS
<1>2. e.canvas \in C /\ e.dur \in Int
    BY <1>1, ShotParts
<1>3. /\ l \in Seq(Shots(C)) /\ Len(l) = k /\ l[k] = Shot(e.canvas, e.dur + s)
    BY LongerType
<1>4. l[k].canvas = e.canvas /\ l[k].dur = e.dur + s
    BY <1>3 DEF Shot
<1>5. Longer(l, t) = [l EXCEPT ![k] = Shot(e.canvas, (e.dur + s) + t)]
    BY <1>3, <1>4 DEF Longer
<1>6. (e.dur + s) + t = e.dur + (s + t)
    BY <1>2
<1>7. l = [line EXCEPT ![k] = Shot(e.canvas, e.dur + s)]
    BY DEF Longer
<1> DEFINE u == Shot(e.canvas, e.dur + s)
           v == Shot(e.canvas, e.dur + (s + t))
<1>8. l = [line EXCEPT ![k] = u] /\ Longer(l, t) = [l EXCEPT ![k] = v]
      /\ Longer(line, s + t) = [line EXCEPT ![k] = v]
    BY <1>5, <1>6, <1>7 DEF Longer
<1> HIDE DEF u, v, l
<1>9. [l EXCEPT ![k] = v] = [line EXCEPT ![k] = v]
    BY <1>8
<1>10. QED
    BY <1>8, <1>9 DEF l

\* The picture on show, shown again, is shown longer; any other one is new.
LEMMA ShownAgain ==
    ASSUME NEW C, NEW line \in Seq(Shots(C)), NEW s \in Shots(C)
    PROVE  Prolonged(line, s) =
             IF line # << >> /\ line[Len(line)].canvas = s.canvas
             THEN Longer(line, s.dur) ELSE Append(line, s)
<1>1. CASE line # << >> /\ line[Len(line)].canvas = s.canvas
    <2>1. Len(line) \in Nat /\ Len(line) \in 1 .. Len(line) /\ line[Len(line)] \in Shots(C)
        BY <1>1
    <2>2. [line[Len(line)] EXCEPT !.dur = @ + s.dur]
            = Shot(line[Len(line)].canvas, line[Len(line)].dur + s.dur)
        BY <2>1, ShotParts, ShotGrows
    <2>3. QED
        BY <1>1, <2>2 DEF Prolonged, Longer
<1>2. CASE ~(line # << >> /\ line[Len(line)].canvas = s.canvas)
    BY <1>2 DEF Prolonged
<1>3. QED
    BY <1>1, <1>2

LEMMA ProlongedType ==
    ASSUME NEW C, NEW line \in Seq(Shots(C)), NEW s \in Shots(C)
    PROVE  /\ Prolonged(line, s) \in Seq(Shots(C)) /\ Prolonged(line, s) # << >>
           /\ Prolonged(line, s)[Len(Prolonged(line, s))].canvas = s.canvas
<1>1. CASE line # << >> /\ line[Len(line)].canvas = s.canvas
    <2> DEFINE l == Longer(line, s.dur)
    <2>1. s.dur \in Int
        BY ShotParts
    <2>2. /\ l \in Seq(Shots(C)) /\ l # << >>
          /\ l[Len(l)] = Shot(line[Len(line)].canvas, line[Len(line)].dur + s.dur)
        BY <1>1, <2>1, LongerType
    <2>3. Prolonged(line, s) = l
        BY <1>1, ShownAgain
    <2>4. l[Len(l)].canvas = s.canvas
        BY <1>1, <2>2 DEF Shot
    <2>5. QED
        BY <2>2, <2>3, <2>4
<1>2. CASE ~(line # << >> /\ line[Len(line)].canvas = s.canvas)
    <2>1. Prolonged(line, s) = Append(line, s)
        BY <1>2, ShownAgain
    <2>2. /\ Append(line, s) \in Seq(Shots(C)) /\ Len(Append(line, s)) = Len(line) + 1
          /\ Append(line, s)[Len(line) + 1] = s /\ Len(line) + 1 # 0
        OBVIOUS
    <2>3. \A l \in Seq(Shots(C)) : Len(l) # 0 => l # << >>
        OBVIOUS
    <2>4. QED
        BY <2>1, <2>2, <2>3
<1>3. QED
    BY <1>1, <1>2

\* Typed pictures make a typed line, which ends with the last of them.
LEMMA WatchedType ==
    ASSUME NEW C, NEW shown, Len(shown) \in Nat, \A i \in 1 .. Len(shown) : shown[i] \in Shots(C),
           NEW n \in 0 .. Len(shown)
    PROVE  /\ Watched(shown)[n] \in Seq(Shots(C))
           /\ n # 0 => /\ Watched(shown)[n] # << >>
                        /\ Watched(shown)[n][Len(Watched(shown)[n])].canvas = shown[n].canvas
<1> DEFINE W(m) == Watched(shown)[m]
           Typed(m) == /\ W(m) \in Seq(Shots(C))
                       /\ m # 0 => W(m) # << >> /\ W(m)[Len(W(m))].canvas = shown[m].canvas
           T == {m \in Nat : m <= Len(shown) => Typed(m)}
<1>1. W(0) = << >> /\ \A m \in 1 .. Len(shown) : W(m) = Prolonged(W(m - 1), shown[m])
    BY Watching
<1> HIDE DEF W
<1>2. 0 \in T
    <2>1. << >> \in Seq(Shots(C))
        OBVIOUS
    <2>2. QED
        BY <1>1, <2>1
<1>3. ASSUME NEW m \in T PROVE m + 1 \in T
    <2>1. CASE m + 1 <= Len(shown)
        <3>1. W(m) \in Seq(Shots(C)) /\ m + 1 \in 1 .. Len(shown) /\ (m + 1) - 1 = m
            BY <2>1
        <3>2. W(m + 1) = Prolonged(W(m), shown[m + 1]) /\ shown[m + 1] \in Shots(C)
            BY <1>1, <3>1
        <3>3. /\ Prolonged(W(m), shown[m + 1]) \in Seq(Shots(C))
              /\ Prolonged(W(m), shown[m + 1]) # << >>
              /\ Prolonged(W(m), shown[m + 1])[Len(Prolonged(W(m), shown[m + 1]))].canvas
                    = shown[m + 1].canvas
            BY <3>1, <3>2, ProlongedType
        <3>4. QED
            BY <3>2, <3>3
    <2>2. QED
        BY <2>1
<1>4. T \subseteq Nat /\ n \in Nat
    OBVIOUS
<1> HIDE DEF T
<1>5. n \in T
    BY <1>2, <1>3, <1>4, CountUp
<1>6. QED
    BY <1>5 DEF T, W

LEMMA LastReplaced ==
    ASSUME NEW S, NEW w \in Seq(S), NEW e \in S, NEW f \in S
    PROVE  [Append(w, e) EXCEPT ![Len(w) + 1] = f] = Append(w, f)
<1>1. PICK s : s = Append(w, e)
    OBVIOUS
<1>2. PICK k : k = Len(w) + 1
    OBVIOUS
<1>3. PICK l : l = [s EXCEPT ![k] = f]
    OBVIOUS
<1>4. PICK g : g = Append(w, f)
    OBVIOUS
<1>5. s \in Seq(S) /\ Len(s) = k /\ k \in 1 .. Len(s) /\ \A j \in 1 .. Len(w) : s[j] = w[j]
    BY <1>1, <1>2, AppendProperties
<1>6. l \in Seq(S) /\ Len(l) = k /\ \A j \in 1 .. k : l[j] = IF j = k THEN f ELSE s[j]
    BY <1>3, <1>5, ExceptSeq
<1>7. g \in Seq(S) /\ Len(g) = k /\ g[k] = f /\ \A j \in 1 .. Len(w) : g[j] = w[j]
    BY <1>2, <1>4, AppendProperties
<1>8. \A j \in 1 .. Len(l) : l[j] = g[j]
    BY <1>2, <1>5, <1>6, <1>7
<1>9. l = g
    BY <1>6, <1>7, <1>8, SeqEqual
<1>10. QED
    BY <1>1, <1>2, <1>3, <1>4, <1>9

\* The last picture of a list, shown longer, is shown longer to the viewer.
LEMMA TimelineLonger ==
    ASSUME NEW C, NEW a, NEW b, Len(a) \in Nat, Len(a) # 0, Len(b) = Len(a),
           \A i \in 1 .. Len(a) : a[i] \in Shots(C),
           \A i \in 1 .. Len(a) - 1 : a[i] = b[i],
           NEW t \in Int, b[Len(b)] = Shot(a[Len(a)].canvas, a[Len(a)].dur + t)
    PROVE  Timeline(b) = Longer(Timeline(a), t)
<1> DEFINE L == Len(a)
           w == Watched(a)[L - 1]
           e == a[L]
           f == b[L]
<1>1. /\ L \in 1 .. L /\ L - 1 \in Nat /\ L - 1 \in 0 .. L /\ L - 1 <= L /\ L \in 1 .. Len(b)
      /\ e \in Shots(C)
    OBVIOUS
<1>2. w \in Seq(Shots(C))
    BY <1>1, WatchedType
<1>3. w = Watched(b)[L - 1]
    BY <1>1, WatchedAgree
<1>4. Timeline(a) = Prolonged(w, e) /\ Timeline(b) = Prolonged(w, f)
    BY <1>1, <1>3, Watching DEF Timeline
<1>5. /\ f = Shot(e.canvas, e.dur + t) /\ e.dur \in Int /\ e.canvas \in C
      /\ f \in Shots(C) /\ f.canvas = e.canvas /\ f.dur = e.dur + t
    BY <1>1, ShotParts DEF Shots, Shot
<1> HIDE DEF w, e, f, L
<1>6. CASE w # << >> /\ w[Len(w)].canvas = e.canvas
    <2>1. Prolonged(w, e) = Longer(w, e.dur) /\ Prolonged(w, f) = Longer(w, e.dur + t)
        BY <1>1, <1>2, <1>5, <1>6, ShownAgain
    <2>2. Longer(Longer(w, e.dur), t) = Longer(w, e.dur + t)
        BY <1>2, <1>5, <1>6, LongerTwice
    <2>3. QED
        BY <1>4, <2>1, <2>2
<1>7. CASE ~(w # << >> /\ w[Len(w)].canvas = e.canvas)
    <2>1. Prolonged(w, e) = Append(w, e) /\ Prolonged(w, f) = Append(w, f)
        BY <1>1, <1>2, <1>5, <1>7, ShownAgain
    <2>2. /\ Append(w, e) \in Seq(Shots(C)) /\ Append(w, e)[Len(Append(w, e))] = e
          /\ Len(Append(w, e)) = Len(w) + 1
        BY <1>1, <1>2
    <2>3. Longer(Append(w, e), t) = [Append(w, e) EXCEPT ![Len(w) + 1] = f]
        BY <1>5, <2>2 DEF Longer
    <2>4. [Append(w, e) EXCEPT ![Len(w) + 1] = f] = Append(w, f)
        <3>1. w \in Seq(Shots(C)) /\ e \in Shots(C) /\ f \in Shots(C)
            BY <1>1, <1>2, <1>5
        <3>2. QED
            BY <3>1, LastReplaced
    <2>5. QED
        BY <1>4, <2>1, <2>3, <2>4
<1>8. QED
    BY <1>6, <1>7

(***************************************************************************)
(* Where two pictures differ                                                *)
(***************************************************************************)

\* The changed rectangle lies on the canvas and has every change inside.
LEMMA ChangedRect ==
    ASSUME NEW prev, NEW curr, NEW r, r = findChangedRect(prev, curr),
           \E p \in Pos : prev[p] # curr[p]
    PROVE  /\ r.x0 \in Nat /\ r.y0 \in Nat /\ r.x1 \in Nat /\ r.y1 \in Nat
           /\ r.x0 < r.x1 /\ r.x1 <= width /\ r.y0 < r.y1 /\ r.y1 <= height
           /\ \A p \in Pos : prev[p] # curr[p] => p \in Cells(r)
<1> DEFINE changed == {p \in Pos : prev[p] # curr[p]}
           xs == {p[1] : p \in changed}
           ys == {p[2] : p \in changed}
<1>1. width - 1 \in Nat /\ height - 1 \in Nat /\ width \in Nat /\ height \in Nat
    BY CanvasAssumption
<1>2. \A p \in Pos : p[1] \in 0 .. width - 1 /\ p[2] \in 0 .. height - 1
    BY DEF Pos, Grid
<1>3. xs \in SUBSET (0 .. width - 1) /\ xs # {} /\ ys \in SUBSET (0 .. height - 1) /\ ys # {}
    BY <1>2
<1>4. /\ \A p \in changed : p[1] \in xs /\ p[2] \in ys
      /\ \A p \in Pos : prev[p] # curr[p] <=> p \in changed
      /\ changed # {}
    OBVIOUS
<1>5. r = Rect(Min(xs), Min(ys), Max(xs) + 1, Max(ys) + 1)
    BY <1>4 DEF findChangedRect
<1> HIDE DEF changed, xs, ys
<1>6. xs \in SUBSET Nat /\ ys \in SUBSET Nat
    BY <1>3
<1>7. Min(xs) \in xs /\ (\A y \in xs : Min(xs) <= y) /\ Min(ys) \in ys /\ (\A y \in ys : Min(ys) <= y)
    BY <1>3, <1>6, NatMin
<1>8. Max(xs) \in xs /\ (\A y \in xs : Max(xs) >= y)
    BY <1>1, <1>3, NatMax
<1>9. Max(ys) \in ys /\ (\A y \in ys : Max(ys) >= y)
    BY <1>1, <1>3, NatMax
<1>10. r.x0 = Min(xs) /\ r.y0 = Min(ys) /\ r.x1 = Max(xs) + 1 /\ r.y1 = Max(ys) + 1
    BY <1>5 DEF Rect
<1>11. PICK x0, y0, x1, y1 \in Nat :
            /\ r.x0 = x0 /\ r.y0 = y0 /\ r.x1 = x1 + 1 /\ r.y1 = y1 + 1
            /\ x0 \in xs /\ x1 \in xs /\ y0 \in ys /\ y1 \in ys
            /\ \A x \in xs : x0 <= x /\ x <= x1
            /\ \A y \in ys : y0 <= y /\ y <= y1
    <2>1. (\A y \in xs : Max(xs) >= y <=> y <= Max(xs)) /\ (\A y \in ys : Max(ys) >= y <=> y <= Max(ys))
        BY <1>6, <1>8, <1>9
    <2>2. Min(xs) \in Nat /\ Min(ys) \in Nat /\ Max(xs) \in Nat /\ Max(ys) \in Nat
        BY <1>6, <1>7, <1>8, <1>9
    <2>3. QED
        BY <1>7, <1>8, <1>9, <1>10, <2>1, <2>2
<1>12. ASSUME NEW p \in changed PROVE p \in Cells(r)
    <2>1. p \in Pos /\ p[1] \in xs /\ p[2] \in ys /\ p[1] \in Nat /\ p[2] \in Nat
        BY <1>6 DEF changed, xs, ys
    <2>2. x0 <= p[1] /\ p[1] < x1 + 1 /\ y0 <= p[2] /\ p[2] < y1 + 1
        BY <1>11, <2>1
    <2>3. QED
        BY <1>11, <2>1, <2>2 DEF Cells
<1>13. x0 <= x1 /\ y0 <= y1 /\ x1 <= width - 1 /\ y1 <= height - 1
    BY <1>1, <1>3, <1>11
<1>14. \A p \in Pos : prev[p] # curr[p] => p \in Cells(r)
    BY <1>4, <1>12
<1>15. QED
    BY <1>1, <1>11, <1>13, <1>14

(***************************************************************************)
(* A file that grew, or whose last frame was changed                        *)
(***************************************************************************)

\* One frame more, drawn on what the last one leaves, whatever it was told to
\* leave in the meantime.
LEMMA FrameAppended ==
    ASSUME NEW a, NEW b, IsFile(a), IsFile(b), Len(b) = Len(a) + 1,
           \A i \in 1 .. Len(b) : b[i].dur \in Int,
           \A i \in 1 .. Len(a) : DrawsAlike(a[i], b[i]) /\ a[i].dur = b[i].dur,
           \A i \in 1 .. Len(a) - 1 : a[i].disposeBG = b[i].disposeBG
    PROVE  /\ Rendered(b)[Len(a)] = Rendered(a)[Len(a)]
           /\ Rendered(b)[Len(b)] =
                compositeFrame(IF Len(a) = 0 THEN Blank
                               ELSE applyDispose(Rendered(a)[Len(a)], b[Len(a)]), b[Len(b)])
           /\ Timeline(Play(b))
                = Prolonged(Timeline(Play(a)), Shot(Rendered(b)[Len(b)], b[Len(b)].dur))
<1> DEFINE L == Len(a)
<1>1. L \in Nat /\ Len(b) = L + 1 /\ Len(b) \in Nat /\ Len(b) \in 1 .. Len(b) /\ Len(b) - 1 = L
    BY DEF IsFile
<1>2. ASSUME NEW n \in 0 .. L PROVE Rendered(a)[n] = Rendered(b)[n]
    <2>1. n \in Nat /\ n <= L /\ n <= Len(b)
        BY <1>1
    <2>2. \A i \in 1 .. n : DrawsAlike(a[i], b[i])
        BY <1>1, <2>1
    <2>3. \A i \in 1 .. n - 1 : a[i].disposeBG = b[i].disposeBG
        BY <1>1, <2>1
    <2>4. QED
        BY <1>1, <2>1, <2>2, <2>3, RenderedAgree
<1>3. Rendered(b)[Len(b)] =
        compositeFrame(IF L = 0 THEN Blank ELSE applyDispose(Rendered(a)[L], b[L]), b[Len(b)])
    <2>1. Rendered(b)[Len(b)] =
            compositeFrame(IF Len(b) = 1 THEN Blank
                           ELSE applyDispose(Rendered(b)[Len(b) - 1], b[Len(b) - 1]), b[Len(b)])
        BY <1>1, RenderingRules
    <2>2. Rendered(a)[L] = Rendered(b)[L] /\ (Len(b) = 1 <=> L = 0)
        BY <1>1, <1>2
    <2>3. QED
        BY <1>1, <2>1, <2>2
<1> DEFINE p == Play(a)
           q == Play(b)
<1>4. /\ p = [n \in 1 .. L |-> Shot(Rendered(a)[n], a[n].dur)]
      /\ q = [n \in 1 .. Len(b) |-> Shot(Rendered(b)[n], b[n].dur)]
    BY PlayedByTheRules DEF Shot
<1> HIDE DEF p, q
<1>5. Len(p) = L /\ Len(q) = Len(p) + 1
    BY <1>1, <1>4
<1>6. \A i \in 1 .. Len(p) : p[i] = q[i]
    BY <1>1, <1>2, <1>4, <1>5
<1>7. Timeline(q) = Prolonged(Timeline(p), q[Len(q)])
    BY <1>1, <1>5, <1>6, TimelineAppend
<1>8. q[Len(q)] = Shot(Rendered(b)[Len(b)], b[Len(b)].dur)
    BY <1>1, <1>4, <1>5
<1>9. QED
    BY <1>1, <1>2, <1>3, <1>7, <1>8 DEF p, q

\* The last frame told to dispose of itself, or given another duration.
LEMMA LastChanged ==
    ASSUME NEW a, NEW b, IsFile(a), IsFile(b), Len(b) = Len(a), Len(a) # 0,
           \A i \in 1 .. Len(a) : a[i].dur \in Int /\ DrawsAlike(a[i], b[i]),
           \A i \in 1 .. Len(a) - 1 : a[i].disposeBG = b[i].disposeBG /\ a[i].dur = b[i].dur
    PROVE  /\ Rendered(b)[Len(b)] = Rendered(a)[Len(a)]
           /\ b[Len(b)].dur = a[Len(a)].dur => Timeline(Play(b)) = Timeline(Play(a))
           /\ \A t \in Int : b[Len(b)].dur = a[Len(a)].dur + t =>
                                Timeline(Play(b)) = Longer(Timeline(Play(a)), t)
<1> DEFINE L == Len(a)
<1>1. L \in Nat /\ L \in 1 .. L /\ Len(b) = L
    BY DEF IsFile
<1>2. ASSUME NEW n \in 1 .. L PROVE Rendered(a)[n] = Rendered(b)[n]
    <2>1. n \in Nat /\ n <= L /\ n <= Len(b)
        BY <1>1
    <2>2. \A i \in 1 .. n : DrawsAlike(a[i], b[i])
        BY <1>1, <2>1
    <2>3. \A i \in 1 .. n - 1 : a[i].disposeBG = b[i].disposeBG
        BY <1>1, <2>1
    <2>4. QED
        BY <1>1, <2>1, <2>2, <2>3, RenderedAgree
<1> DEFINE p == Play(a)
           q == Play(b)
<1>3. /\ p = [n \in 1 .. L |-> Shot(Rendered(a)[n], a[n].dur)]
      /\ q = [n \in 1 .. L |-> Shot(Rendered(b)[n], b[n].dur)]
    BY <1>1, PlayedByTheRules DEF Shot
<1>4. ASSUME b[L].dur = a[L].dur PROVE p = q
    <2>1. \A n \in 1 .. L : n = L \/ n \in 1 .. L - 1
        BY <1>1
    <2>2. \A n \in 1 .. L : a[n].dur = b[n].dur
        BY <1>1, <1>4, <2>1
    <2> HIDE DEF p, q
    <2>3. QED
        BY <1>2, <1>3, <2>2
<1>5. ASSUME NEW t \in Int, b[L].dur = a[L].dur + t PROVE Timeline(q) = Longer(Timeline(p), t)
    <2> DEFINE C == {Rendered(a)[n] : n \in 1 .. L}
    <2> HIDE DEF p, q
    <2>1. Len(p) = L /\ Len(q) = L
        BY <1>1, <1>3
    <2>2. \A i \in 1 .. L : p[i] = Shot(Rendered(a)[i], a[i].dur) /\ Rendered(a)[i] \in C /\ a[i].dur \in Int
        BY <1>3
    <2> HIDE DEF C
    <2>3. ASSUME NEW i \in 1 .. L PROVE p[i] \in Shots(C)
        <3>1. \A c \in C, d \in Int : Shot(c, d) \in Shots(C)
            BY DEF Shots, Shot
        <3>2. QED
            BY <2>2, <3>1
    <2>4. \A i \in 1 .. L - 1 : p[i] = q[i]
        BY <1>1, <1>2, <1>3
    <2>5. q[L] = Shot(p[L].canvas, p[L].dur + t)
        <3>1. p[L] = Shot(Rendered(a)[L], a[L].dur) /\ q[L] = Shot(Rendered(b)[L], b[L].dur)
            BY <1>1, <1>3
        <3>2. p[L].canvas = Rendered(a)[L] /\ p[L].dur = a[L].dur
            BY <3>1 DEF Shot
        <3>3. QED
            BY <1>1, <1>2, <1>5, <3>1, <3>2
    <2>6. /\ Len(p) \in Nat /\ Len(p) # 0 /\ Len(q) = Len(p)
          /\ \A i \in 1 .. Len(p) : p[i] \in Shots(C)
          /\ \A i \in 1 .. Len(p) - 1 : p[i] = q[i]
          /\ q[Len(q)] = Shot(p[Len(p)].canvas, p[Len(p)].dur + t)
        BY <1>1, <2>1, <2>3, <2>4, <2>5
    <2>7. QED
        BY <1>5, <2>6, TimelineLonger
<1>6. QED
    BY <1>1, <1>2, <1>4, <1>5
=================================================================================
