------------------------------ MODULE MCHuffman ------------------------------
(***************************************************************************)
(* Groups of codes: every small population of green, and populations with  *)
(* long gaps, long runs of equal lengths and counts that grow too fast.     *)
(***************************************************************************)
EXTENDS HuffmanCodes

Sizes == <<280, 256, 256, 256, 40>>
Only(s) == [t \in {s} |-> 9]
Without(f) == [s \in {t \in DOMAIN f : f[t] > 0} |-> f[s]]
Every(S) == [s \in S |-> 5]
\* Each count the sum of all before it: a code as long as it has symbols.
Steep(S) == [s \in S |-> 2^Cardinality({t \in S : t < s})]
Group(green, red, blue, alpha, distance, bit) ==
    [pops |-> <<green, red, blue, alpha, distance>>, sizes |-> Sizes, tail |-> [i \in 1..24 |-> bit]]

Small == {Without(f) : f \in [{0, 1, 7, 9, 258} -> {0, 1, 3}]}
Odd == {Every(0..15), Every(0..5), Every(1..7), Every({3, 4, 5, 6}), Every(20..26), Every(235..279), Every({0, 139}), Every({0, 140, 141}),
        Every({0, 138, 256}), Every({0, 150, 279}), Every({0, 4, 8, 15, 20, 31, 200, 259}), Every({3, 270}), Every({12, 150}), Only(260), Only(279),
        Steep(0..9), Steep({2, 5, 6, 7, 10, 30, 31, 32, 90}), Steep({0, 40, 41, 42, 43, 120, 260, 261}),
        Every({2 * i : i \in 0..40}), Every({7 * i : i \in 0..39}), Steep(100..107)}
Few == {Only(0), Only(255), Every({0, 1}), Every({1, 200}), Every({3, 7, 9})}

MCGroups ==
    {Group(g, r, b, Only(255), d, 1) : g \in Small, r \in {Only(0)}, b \in {Every({0, 1})}, d \in {<<>>}}
      \cup {Group(g, Only(7), Only(0), Only(255), Every({0, 39}), bit) : g \in Odd, bit \in {0, 1}}
      \cup {Group(Every({3, 4, 258}), r, b, a, Only(3), 1) : r \in Few, b \in Few, a \in {Only(0), Every({254, 255})}}
=============================================================================
