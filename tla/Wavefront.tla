------------------------------ MODULE Wavefront ------------------------------
(***************************************************************************)
(* What the row-pipelined encoder promises, whatever its goroutines do:     *)
(* frame after frame, every macroblock is encoded exactly once, after the   *)
(* macroblocks whose reconstruction it predicts from, and the tokens of the *)
(* frame are the encoded macroblocks in raster order.                       *)
(***************************************************************************)
EXTENDS Integers

CONSTANT Dims         \* the frame sizes, records [w, h] in macroblocks

VARIABLES busy,       \* a frame is being encoded
          dim,        \* its size
          encoded,    \* the macroblocks <<y, x>> encoded so far
          recorded    \* how many macroblocks, in raster order, are recorded

vars == <<busy, dim, encoded, recorded>>

MBs(d) == (0 .. d.h - 1) \X (0 .. d.w - 1)

\* The macroblocks whose reconstruction or modes (y, x) reads.
Neighbours(d, y, x) ==
    {m \in MBs(d) : \/ m[1] = y /\ m[2] = x - 1
                    \/ m[1] = y - 1 /\ m[2] \in x - 1 .. x + 1}

Init ==
    /\ busy = FALSE
    /\ dim \in Dims
    /\ encoded = {}
    /\ recorded = 0

Start(d) ==
    /\ ~busy
    /\ busy' = TRUE
    /\ dim' = d
    /\ encoded' = {}
    /\ recorded' = 0

Encode(y, x) ==
    /\ busy
    /\ <<y, x>> \in MBs(dim) \ encoded
    /\ Neighbours(dim, y, x) \subseteq encoded
    /\ encoded' = encoded \cup {<<y, x>>}
    /\ UNCHANGED <<busy, dim, recorded>>

Record ==
    /\ busy
    /\ recorded < dim.w * dim.h
    /\ <<recorded \div dim.w, recorded % dim.w>> \in encoded
    /\ recorded' = recorded + 1
    /\ UNCHANGED <<busy, dim, encoded>>

Finish ==
    /\ busy
    /\ encoded = MBs(dim)
    /\ recorded = dim.w * dim.h
    /\ busy' = FALSE
    /\ UNCHANGED <<dim, encoded, recorded>>

Next ==
    \/ \E d \in Dims : Start(d)
    \/ \E mb \in MBs(dim) : Encode(mb[1], mb[2])
    \/ Record
    \/ Finish

Spec == Init /\ [][Next]_vars
=============================================================================
