------------------------------ MODULE AnimDecoder ------------------------------
(***************************************************************************)
(* The AnimDecoder as a caller uses it (src/animation/animation.go): frames *)
(* are taken in order, the decoder may be rewound at any time, and a frame  *)
(* that has not been decoded stops it.                                      *)
(***************************************************************************)
EXTENDS PlaybackProofs

CONSTANTS Animations    \* the frame sequences a file may hold

ASSUME AnimDecoderAssumption ==
    \A a \in Animations : Len(a) \in Nat /\ \A i \in 1 .. Len(a) : IsFrame(a[i])

VARIABLES anim,     \* Animation.Frames
          decoded,  \* the frames whose Image is set
          d,        \* the decoder
          ret       \* what the last call returned

vars == <<anim, decoded, d, ret>>

Init ==
    /\ anim \in Animations
    /\ decoded = {}
    /\ d = NewAnimDecoder
    /\ ret = "none"

HasNext == d.pos <= Len(anim)

NextFrame ==
    /\ IF d.pos \in decoded
       THEN /\ d' = Advanced(d, anim[d.pos])
            /\ ret' = "frame"
       ELSE /\ ret' = IF HasNext THEN "ErrNilImage" ELSE "ErrNoFrames"
            /\ UNCHANGED d
    /\ UNCHANGED <<anim, decoded>>

\* DecodeFrames: the caller decodes what is missing, up to the first frame
\* that cannot be decoded.
DecodeFrames ==
    /\ \E n \in 0 .. Len(anim) : decoded' = decoded \cup (1 .. n)
    /\ UNCHANGED <<anim, d, ret>>

Reset ==
    /\ d' = Rewound(d)
    /\ ret' = "none"
    /\ UNCHANGED <<anim, decoded>>

Next == NextFrame \/ DecodeFrames \/ Reset
Spec == Init /\ [][Next]_vars

(***************************************************************************)
(* Properties                                                               *)
(***************************************************************************)

\* The keyframe shortcut shows nothing else than the rendering rules: where
\* NextFrame starts from a blank canvas instead of the disposed one, nothing
\* of the earlier frames would have been seen, whichever calls failed or
\* rewound the decoder before (isKeyFrame, NextFrame, Reset).
RendersByTheRules == d.currFrame = Rendered(anim)[d.pos - 1]

(***************************************************************************)
(* NextFrame shows what the rendering rules say, for every canvas, every   *)
(* animation and every order of calls.                                      *)
(***************************************************************************)

\* Only frames of the file are decoded, and the decoder stands between two of
\* them with the canvas of the rules.
IInv ==
    /\ anim \in Animations
    /\ decoded \subseteq 1 .. Len(anim)
    /\ Holds(d, anim)

LEMMA AnimationsAreFiles == anim \in Animations => IsFile(anim)
BY AnimDecoderAssumption DEF IsFile

LEMMA InitInv == Init => IInv
BY AnimationsAreFiles, FreshHolds DEF Init, IInv

LEMMA NextFrameInv == IInv /\ NextFrame => IInv'
<1> SUFFICES ASSUME IInv, NextFrame PROVE IInv'
    OBVIOUS
<1>1. UNCHANGED <<anim, decoded>> /\ IsFile(anim)
    BY AnimationsAreFiles DEF NextFrame, IInv
<1>2. CASE d.pos \notin decoded
    BY <1>1, <1>2 DEF NextFrame, IInv
<1>3. CASE d.pos \in decoded
    <2>1. d' = Advanced(d, anim[d.pos])
        BY <1>3 DEF NextFrame
    <2>2. Holds(d', anim)
        BY <1>1, <1>3, <2>1, AdvancedHolds DEF IInv
    <2>3. QED
        BY <1>1, <2>2 DEF IInv
<1>4. QED
    BY <1>2, <1>3

LEMMA ResetInv == IInv /\ Reset => IInv'
<1> SUFFICES ASSUME IInv, Reset PROVE IInv'
    OBVIOUS
<1>1. d' = Rewound(d) /\ UNCHANGED <<anim, decoded>> /\ IsFile(anim)
    BY AnimationsAreFiles DEF Reset, IInv
<1>2. Holds(d', anim)
    BY <1>1, FreshHolds
<1>3. QED
    BY <1>1, <1>2 DEF IInv

LEMMA DecodeFramesInv == IInv /\ DecodeFrames => IInv'
<1> SUFFICES ASSUME IInv, DecodeFrames PROVE IInv'
    OBVIOUS
<1>1. UNCHANGED <<anim, d>> /\ Len(anim) \in Nat
    BY AnimationsAreFiles DEF DecodeFrames, IInv, IsFile
<1>2. decoded' \subseteq 1 .. Len(anim)
    BY <1>1 DEF DecodeFrames, IInv
<1>3. QED
    BY <1>1, <1>2 DEF IInv

\* The inductive invariant holds in every reachable state.
THEOREM Invariance == Spec => []IInv
<1>1. IInv /\ UNCHANGED vars => IInv'
    BY DEF vars, IInv
<1>2. IInv /\ [Next]_vars => IInv'
    BY <1>1, NextFrameInv, ResetInv, DecodeFramesInv DEF Next
<1>3. QED
    BY <1>2, InitInv, PTL DEF Spec

\* The keyframe shortcut is never seen: after every call the decoder shows the
\* canvas that drawing each frame on what the one before it left gives,
\* whatever calls failed or rewound it before (RendersByTheRules).
THEOREM ShowsTheRules == Spec => []RendersByTheRules
<1>1. IInv => RendersByTheRules
    BY DEF IInv, Holds, RendersByTheRules
<1>2. QED
    BY <1>1, Invariance, PTL
=============================================================================
