-------------------------- MODULE MCEncodeParallel --------------------------
(* A small instance of EncodeParallel for TLC. *)
EXTENDS EncodeParallel

CONSTANTS w1, w2, main

TwoWorkers == {main, w1, w2}

\* Two frames of different widths: a narrow one after a wide one reuses its
\* state, a wide one after a narrow one cannot.  Three columns have a first,
\* a middle and a last macroblock, and four rows keep two workers apart.
TwoSizes == {[w |-> 1, h |-> 4], [w |-> 3, h |-> 4]}
=============================================================================
