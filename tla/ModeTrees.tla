------------------------------ MODULE ModeTrees ------------------------------
(***************************************************************************)
(* Segments and prediction modes of macroblocks in the first partition:     *)
(* writeMBModes (encode_syntax.go) and parseIntraModeRow (decode_tree.go).  *)
(* The probabilities of a 4x4 mode depend on the modes above and to the     *)
(* left, which writer and reader each carry along.                          *)
(***************************************************************************)
EXTENDS BoolSymbols

BDCPred == 0
NumBModes == 10
DCPred == 0
TMPred == 1
VPred == 2
HPred == 3

\* DC prediction knows which borders are missing.
checkMode(x, y, mode) ==
    IF mode # DCPred THEN <<mode>>
    ELSE IF x = 0 THEN IF y = 0 THEN <<mode, "NoTopLeft">> ELSE <<mode, "NoLeft">>
    ELSE IF y = 0 THEN <<mode, "NoTop">> ELSE <<mode>>

\* Nodes of the tree of 4x4 modes; zero and less are leaves.
KYModesIntra4 ==
    <<0, 1, -1, 2, -2, 3, 4, 6, -3, 5, -4, -5, -6, 7, -7, 8, -8, -9>>
Child(i, bit) == KYModesIntra4[2 * i + bit + 1]

RECURSIVE i4SubtreeContains(_, _)
i4SubtreeContains(node, mode) ==
    IF node <= 0 THEN - node = mode
    ELSE \E bit \in {0, 1} : i4SubtreeContains(Child(node, bit), mode)

RECURSIVE I4ModeBits(_, _, _, _)
I4ModeBits(mode, top, left, i) ==
    LET bit == IF i4SubtreeContains(Child(i, 0), mode) THEN 0 ELSE 1
    IN PutBit(bit, KBModesProba(top, left, i)) \o
       IF Child(i, bit) > 0 THEN I4ModeBits(mode, top, left, Child(i, bit)) ELSE <<>>

writeI4ModeBits(mode, top, left) == I4ModeBits(mode, top, left, 0)

writeI16Mode(mode) ==
    IF mode \in {DCPred, VPred}
    THEN PutBit(0, 156) \o PutBit(Flag(mode = VPred), 163)
    ELSE PutBit(1, 156) \o PutBit(Flag(mode = TMPred), 128)

writeUVMode(mode) ==
    PutBit(Flag(mode # DCPred), 142) \o
    IF mode = DCPred THEN <<>>
    ELSE PutBit(Flag(mode # VPred), 114) \o
         IF mode = VPred THEN <<>> ELSE PutBit(Flag(mode = TMPred), 183)

writeSegmentID(id, segments) ==
    PutBit(id \div 2, segments[1]) \o PutBit(id % 2, segments[IF id >= 2 THEN 3 ELSE 2])

\* The sixteen modes of a macroblock, with the contexts top and left.
RECURSIVE I4Modes(_, _, _, _)
I4Modes(modes, top, left, n) ==
    IF n = 16 THEN <<>>
    ELSE writeI4ModeBits(modes[n], top[n % 4], left[n \div 4])
             \o I4Modes(modes, [top EXCEPT ![n % 4] = modes[n]],
                        [left EXCEPT ![n \div 4] = modes[n]], n + 1)

(***************************************************************************)
(* Reading                                                                  *)
(***************************************************************************)

RECURSIVE ReadI4Mode(_, _, _, _)
ReadI4Mode(br, top, left, i) ==
    LET bit == GetBit(br, KBModesProba(top, left, i))
        next == Child(i, bit.val)
    IN IF next > 0 THEN ReadI4Mode(bit.br, top, left, next)
       ELSE [br |-> bit.br, val |-> - next]

RECURSIVE ReadI4Modes(_, _, _, _, _)
ReadI4Modes(br, top, left, modes, n) ==
    LET mode == ReadI4Mode(br, top[n % 4], left[n \div 4], 0)
    IN IF n = 16 THEN [br |-> br, top |-> top, left |-> left, modes |-> modes]
       ELSE ReadI4Modes(mode.br, [top EXCEPT ![n % 4] = mode.val],
                        [left EXCEPT ![n \div 4] = mode.val],
                        [modes EXCEPT ![n] = mode.val], n + 1)

ReadI16Mode(br) ==
    GetTree(br, << <<156, 2, 3>>, <<163, - DCPred, - VPred>>, <<128, - HPred, - TMPred>> >>, 1)

ReadUVMode(br) ==
    GetTree(br, << <<142, - DCPred, 2>>, <<114, - VPred, 3>>, <<183, - HPred, - TMPred>> >>, 1)

ReadSegment(br, segments) ==
    GetTree(br, << <<segments[1], 2, 3>>, <<segments[2], 0, -1>>, <<segments[3], -2, -3>> >>, 1)
=============================================================================
