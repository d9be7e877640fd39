----------------------------- MODULE MCAnimEncoder -----------------------------
(* Small instances of AnimEncoder for TLC. *)
EXTENDS AnimEncoder

O == Transparent
H == Pixel(77, 0)     \* clear, with a colour nobody sees
A == Pixel(90, 255)
B == Pixel(30, 255)
C == Pixel(10, 255)
S == Pixel(200, 128)

\* A row of the canvas that begins with s and goes on with r.
Line(s, r) == [p \in Pos |-> IF p[1] < Len(s) THEN s[p[1] + 1] ELSE r]
Short(s) == [p \in Grid(Len(s), 1) |-> s[p[1] + 1]]

\* Pictures that differ in an even or an odd cell, at both ends, in all cells
\* or in all but one of them, in colours nobody sees, or that are smaller than
\* the canvas.
ClearRows == {Line(<<A>>, A), Line(<<A, B>>, A), Line(<<O, H, B>>, O), Line(<<O>>, O), Short(<<A>>)}
LongRows  == {Line(<<A>>, A), Line(<<B>>, A), Line(<<B>>, B), Line(<<H, A>>, B)}
SemiRows  == {Line(<<S, A, S>>, A), Line(<<S, B, S>>, A), Line(<<A>>, A)}
DotRows   == {Line(<<A, S>>, O), Line(<<A, S, B>>, O), Line(<<B, S, B>>, O)}
OpaqueRows == {Line(<<A>>, A), Line(<<A, B>>, A)}

RawFrame(x, s) == [x |-> x, y |-> 0, w |-> Len(s), h |-> 1, img |-> Short(s), hasAlpha |-> TRUE,
                   blend |-> FALSE, disposeBG |-> FALSE, dur |-> 1]

Lossless(images, times) ==
    [Images |-> images, Durations |-> times, RawFrames |-> {}, Lossless |-> TRUE, AllowMixed |-> FALSE,
     Kmin |-> 0, Kmax |-> 0, MaxDiff |-> 1, MaxFrames |-> 9, Faults |-> FALSE]

\* Sub-frames with failing encodes and a muxer that fills up.
Failing == [Lossless(ClearRows, {1}) EXCEPT !.Kmax = 4, !.MaxFrames = 3, !.Faults = TRUE]
\* Lossy and lossless frames side by side, with forced keyframes; a picture
\* with alpha may lose it, and so may a filler.
Mixed == [Lossless(LongRows, {1}) EXCEPT !.Lossless = FALSE, !.AllowMixed = TRUE, !.Kmin = 1, !.Kmax = 3]
Filled == [Mixed EXCEPT !.Images = OpaqueRows, !.Durations = {1, 6}]
\* Overlong durations, and semi-transparent pictures: every picture a keyframe,
\* or cut down, where a pixel may be blended over itself and a filler may be
\* disposed of.
Keyframes == [Lossless(SemiRows, {0, 1, 5, 6}) EXCEPT !.Kmax = 1]
Split == Lossless(DotRows, {1, 6})
\* Pictures and frames the caller encoded.
Raw == [Lossless(OpaqueRows, {1, 6}) EXCEPT !.RawFrames = {RawFrame(2, <<C>>)}]

AllConfigurations == {Failing, Mixed, Filled, Keyframes, Split, Raw}

===============================================================================
