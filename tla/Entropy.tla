------------------------------- MODULE Entropy -------------------------------
(***************************************************************************)
(* What a group of codes is estimated to cost.  A population is a function *)
(* from the symbols that occur to how often they do.  Costs are in 64ths   *)
(* of a bit, where the empirical weights of the code are whole numbers.    *)
(***************************************************************************)
EXTENDS PlaneCodes, FiniteSetsExt

Channels == {"literal", "red", "blue", "alpha", "distance"}

NumLiteralCodes == 256
NumLengthCodes == 24
NumDistanceCodes == 40

\* histogramNumCodes: green, the lengths, and the indices of the cache.
HistogramNumCodes(cacheBits) ==
    NumLiteralCodes + NumLengthCodes + (IF cacheBits > 0 THEN 2^cacheBits ELSE 0)
NumCodes(channel, cacheBits) ==
    CASE channel = "literal" -> HistogramNumCodes(cacheBits)
      [] channel = "distance" -> NumDistanceCodes
      [] OTHER -> NumLiteralCodes

None == -1
Empty == <<>>
CountOf(p, symbol) == IF symbol \in DOMAIN p THEN p[symbol] ELSE 0
AddPopulations(p, q) == [s \in DOMAIN p \cup DOMAIN q |-> CountOf(p, s) + CountOf(q, s)]
SumOver(S, f(_)) == MapThenSumSet(f, S)

\* v log v, with a logarithm of fourteen binary digits.
NextDigit(d) ==
    LET square == (d.m * d.m) \div 16384
    IN  IF square >= 32768 THEN [m |-> square \div 2, log |-> 2 * d.log + 1]
        ELSE [m |-> square, log |-> 2 * d.log]
FastSLog2(v) ==
    LET whole == BitsLog2Floor(v)
        digits[k \in 0..14] ==
            IF k = 0 THEN [m |-> (v * 16384) \div 2^whole, log |-> whole] ELSE NextDigit(digits[k - 1])
    IN  IF v = 0 THEN 0 ELSE (v * (digits[14].log \div 4)) \div 64

\* The entropy of a population, not refined yet.
Entropy(p) ==
    [sum |-> SumOver(DOMAIN p, LAMBDA s : p[s]), nonzeros |-> Cardinality(DOMAIN p),
     max |-> IF p = Empty THEN 0 ELSE Max({p[s] : s \in DOMAIN p}),
     bits |-> FastSLog2(SumOver(DOMAIN p, LAMBDA s : p[s]))
                - SumOver(DOMAIN p, LAMBDA s : FastSLog2(p[s]))]

PerMille(x, n) == (x \div 1000) * n + ((x % 1000) * n) \div 1000

\* bitsEntropyRefine: few symbols compress less well than their entropy.
Refined(e) ==
    LET mix == CASE e.nonzeros = 3 -> 950 [] e.nonzeros = 4 -> 700 [] OTHER -> 627
        least == PerMille(64 * (2 * e.sum - e.max), mix) + PerMille(e.bits, 1000 - mix)
    IN  CASE e.nonzeros <= 1 -> 0
          [] e.nonzeros = 2 -> PerMille(64 * e.sum, 990) + PerMille(e.bits, 10)
          [] OTHER -> IF e.bits < least THEN least ELSE e.bits

\* The streaks of equal counts an alphabet of n symbols has: where they start,
\* and how long the one from s is.
Starts(p, n) ==
    {0} \cup {s \in UNION {{t, t + 1} : t \in DOMAIN p} :
                 s > 0 /\ s < n /\ CountOf(p, s) # CountOf(p, s - 1)}
StreaksOf(p, n) ==
    LET starts == Starts(p, n)
    IN  {<<s, Min({t \in starts \cup {n} : t > s}) - s>> : s \in starts}

\* finalHuffmanCost: what writing the lengths of the codes costs.
HuffmanCost(p, n) ==
    3066 + SumOver(StreaksOf(p, n), LAMBDA k :
                CASE k[2] > 3 /\ CountOf(p, k[1]) = 0 -> 100 + 15 * k[2]
                  [] k[2] > 3 /\ CountOf(p, k[1]) # 0 -> 165 + 45 * k[2]
                  [] k[2] <= 3 /\ CountOf(p, k[1]) = 0 -> 115 * k[2]
                  [] OTHER -> 210 * k[2])

PopulationCost(p, n) == Refined(Entropy(p)) + HuffmanCost(p, n)
\* Two populations are gone over side by side, as if they were one.
CombinedPopulationCost(p, q, n) == PopulationCost(AddPopulations(p, q), n)
TrivialSymbol(p) == IF Cardinality(DOMAIN p) = 1 THEN CHOOSE s \in DOMAIN p : TRUE ELSE None

BitCost(costs) ==
    costs["literal"] + costs["red"] + costs["blue"] + costs["alpha"] + costs["distance"]

\* A histogram as computeHistogramCost leaves it.
ComputeCost(h, cacheBits) ==
    LET costs == [c \in Channels |-> PopulationCost(h.pop[c], NumCodes(c, cacheBits))]
    IN  [h EXCEPT !.costs = costs, !.bitCost = BitCost(costs),
                  !.trivial = [c \in Channels |-> TrivialSymbol(h.pop[c])],
                  !.used = [c \in Channels |-> h.pop[c] # Empty]]

\* getCombinedEntropy: a channel that one of the two does not use, or in which
\* both have the same one symbol, costs what it costs already.
CombinedCost(a, b, c, cacheBits) ==
    IF (a.trivial[c] # None /\ a.trivial[c] = b.trivial[c]) \/ ~a.used[c] \/ ~b.used[c]
    THEN IF a.used[c] THEN a.costs[c] ELSE b.costs[c]
    ELSE CombinedPopulationCost(a.pop[c], b.pop[c], NumCodes(c, cacheBits))
CombinedCosts(a, b, cacheBits) == [c \in Channels |-> CombinedCost(a, b, c, cacheBits)]

\* getCombinedHistogramEntropy answers when the sum stays below the threshold.
\* It gives up after the first channels that reach it, which for costs that
\* are not negative is the same.
Below(costs, threshold) == threshold > 0 /\ BitCost(costs) < threshold

\* histogramAdd, which leaves the costs to its callers.
HistogramAdd(a, b, out) ==
    [out EXCEPT !.pop = [c \in Channels |-> AddPopulations(a.pop[c], b.pop[c])],
                !.trivial = [c \in Channels |-> IF a.trivial[c] = b.trivial[c] THEN a.trivial[c] ELSE None],
                !.used = [c \in Channels |-> a.used[c] \/ b.used[c]]]

\* A histogram as resetStats and Clear leave it: without a symbol, and used.
NewHistogram ==
    [pop |-> [c \in Channels |-> Empty], costs |-> [c \in Channels |-> 0], bitCost |-> 0,
     trivial |-> [c \in Channels |-> None], used |-> [c \in Channels |-> TRUE], bin |-> 0]

\* Clear leaves the bin of the histogram as it was.
Clear(h) == [NewHistogram EXCEPT !.bin = h.bin]

=============================================================================
