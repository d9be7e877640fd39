----------------------------- MODULE MCTransforms -----------------------------
(***************************************************************************)
(* Small pictures of every kind of colours, alone and one after the other   *)
(* through the same encoder and decoder.                                    *)
(***************************************************************************)
EXTENDS Transforms

MCPackLimits == <<2, 3, 4>>

Job(picture, w, h, quality, method, loss, modes, multipliers) ==
    [argb |-> [i \in 0..w * h - 1 |-> picture[i + 1]], width |-> w, height |-> h, quality |-> quality,
     method |-> method, near |-> loss, modes |-> modes, multipliers |-> multipliers]

\* Pixels with all values, all different, near each other, or of few colours.
Any == [seed \in 0..4 |-> [i \in 1..40 |-> <<(i * 41 + seed * 17) % 256, (i * i * 7 + seed * 90) % 256, (i * 113 + seed) % 256, (i * i * i + 5 * seed) % 256>>]]
Edges == [seed \in 0..4 |-> [i \in 1..40 |-> <<255 * ((i + seed) % 2), 127 + ((i * seed) % 3), 255 - ((i * i) % 3), (i * (128 + seed)) % 256>>]]
Smooth == [seed \in 0..4 |-> [i \in 1..40 |-> <<255, 100 + i + seed, 80 + (i \div 3), 200 - 2 * i>>]]
Few(n, seed) == [i \in 1..40 |-> LET c == (i + seed * (i \div 3)) % n IN <<255, c * 50, 9, c>>]

AllModes == 0..13
AllMultipliers == {<<0, 0, 0>>, <<-128, 127, -1>>, <<5, -33, 127>>}
One == {<<7, -128, 64>>}
Large == {Any, Edges}

\* Each predictor, and each pair of them in two tiles.
Single == {<<Job(p[s], 5, 4, q, 6, 100, AllModes, One)>> : p \in Large, s \in 1..2, q \in {20, 40, 49}}
Colored == {<<Job(p[s], 5, 5, q, m, 100, {1, 11}, AllMultipliers)>> : p \in Large, s \in 1..3, q \in {60, 100}, m \in {3}}
             \cup {<<Job(p[4], w, 6 , 90, 6, 100, {3, 10, 13}, {<<5, -33, 127>>})>> : p \in Large, w \in {1, 2, 4, 5}}
\* Three, four and five rows of tiles.
Tall == {<<Job(p[s], 24 \div h + 1, h, 90, 6, 100, {3, 12}, One)>> : p \in Large, s \in 1..2, h \in {9, 13, 17}}
\* Palettes of each width of numbers.
Palettes == {<<Job(Few(n, s), w, h, q, m, 100, {1, 11}, One)>> : n \in 1..6, s \in 0..2, w \in {1, 5, 9}, h \in {1, 3}, q \in {70, 80}, m \in {4, 6}}
Fading == {<<Job(p[s], w, h, 0, 4, loss, {1}, One)>> : p \in {Any, Smooth, Edges}, s \in 1..4, w \in {3, 5}, h \in {4, 7}, loss \in {0, 39, 50, 60, 80, 99}}
            \cup {<<Job(Any[1], w, 3, 0, 4, loss, {1}, One)>> : w \in {3, 4}, loss \in {0, 80}}
Kinds == {Job(Any[1], 5, 4, 95, 6, 100, {3, 11}, One), Job(Edges[2], 3, 3, 30, 2, 100, {5, 6}, One),
          Job(Any[3], 4, 6, 5, 4, 100, {1}, One), Job(Few(6, 1), 5, 4, 80, 6, 100, {2, 7}, One),
          Job(Few(2, 2), 7, 2, 50, 4, 100, {1}, One), Job(Any[2], 4, 4, 60, 5, 60, {0, 4}, One)}
InTurn == {<<j, k>> : j \in Kinds, k \in Kinds} \cup {<<j, k, j>> : j, k \in Kinds}

MCJobs == Single \cup Colored \cup Tall \cup Palettes \cup Fading \cup InTurn
=============================================================================
