----------------------------- MODULE MCAnimDecoder -----------------------------
(* Small instances of AnimDecoder for TLC. *)
EXTENDS AnimDecoder

CONSTANT Frames     \* how many frames an animation has

Semi == Pixel(200, 128)
Solid == Pixel(90, 255)
Opaque(img) == \A p \in DOMAIN img : img[p].a = 255

\* Full-canvas frames, with and without the alpha flag (never without it when
\* there is alpha), and smaller ones, for which the flag does not matter.
FramesAt(x, w, imgs, flags) ==
    {f \in [x : {x}, y : {0}, w : {w}, h : {1}, img : imgs, hasAlpha : flags,
            blend : BOOLEAN, disposeBG : BOOLEAN, dur : {1}] :
        ~f.hasAlpha => Opaque(f.img)}
Pair(l, r) == [p \in Grid(2, 1) |-> IF p[1] = 0 THEN l ELSE r]
FullFrames == FramesAt(0, 2, {Pair(l, r) : l \in {Semi, Solid}, r \in {Transparent, Solid}}, BOOLEAN)
PartFrames == FramesAt(0, 1, [Grid(1, 1) -> {Transparent, Semi, Solid}], {TRUE})
LateFrames == FramesAt(1, 2, {Pair(Semi, Semi)}, {TRUE})  \* hang over the right edge

AllAnimations == UNION {[1 .. n -> FullFrames \cup PartFrames \cup LateFrames] : n \in 1 .. Frames}
===============================================================================
