------------------------------ MODULE MCMuxer ------------------------------
(***************************************************************************)
(* Small instances of Muxer: image data of even and odd length, lossy,     *)
(* lossless, and lossy with an ALPH chunk in front; offsets even and odd.  *)
(***************************************************************************)
EXTENDS Muxer

Image(alph, codec, w, h, alpha, n) ==
    [alph |-> alph, codec |-> codec, w |-> w, h |-> h, alpha |-> alpha, n |-> n]

Opaque == Image(Nil, "VP8", 2, 1, FALSE, 11)
Lossless == Image(Nil, "VP8L", 3, 2, TRUE, 6)
WithPlane == Image(5, "VP8", 2, 2, FALSE, 12)

SmallImages == {Opaque, Lossless, WithPlane}

Option(duration, x, y, dispose, blend) ==
    [duration |-> duration, x |-> x, y |-> y, dispose |-> dispose, blend |-> blend]

SmallOptions == {Option(0, 0, 0, FALSE, TRUE), Option(maxDuration + 1, 3, 2, TRUE, FALSE)}

SmallDurations == {-1, 40}
SmallLoopCounts == {-1, 3, maxLoopCount + 1}
SmallColors == {7}
SmallCanvasSizes == {<<0, 9>>, <<9, 9>>, <<4, 3>>}
SmallMetadata == {Nil, 0, 3}

=============================================================================
