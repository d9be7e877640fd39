----------------------------- MODULE MCFrameLoop -----------------------------
(* Small instances of FrameLoop for TLC. *)
EXTENDS FrameLoop

Config(m, c, s, p, n, k) ==
    [method3 |-> m, cpus |-> c, search |-> s, pass |-> p, numParts |-> n, skips |-> k]

\* Quality mode, either method, one or two statistics passes.
QualityMode == {Config(m, FALSE, "none", p, 1, TRUE) : m \in BOOLEAN, p \in {1, 2}}
SearchMode == {Config(m, FALSE, s, 1, 1, TRUE) : m \in BOOLEAN, s \in {"size", "psnr"}}
SerialMode == QualityMode \cup SearchMode
\* The parallel path, with flat parts in one partition and without any in
\* one, two and four.
ParallelMode == {Config(TRUE, TRUE, "none", 1, 1, TRUE)}
                    \cup {Config(TRUE, TRUE, "none", 1, n, FALSE) : n \in {1, 2, 4}}

AllModes == SerialMode \cup ParallelMode

=============================================================================
