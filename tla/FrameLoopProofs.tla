---------------------------- MODULE FrameLoopProofs ----------------------------
(* TokensComplete and HeaderExact for every frame size, set of configurations  *)
(* and of qualities.  Both speak of the end of a frame; IInv says what holds   *)
(* after each macroblock of each pass.                                         *)
EXTENDS FrameLoop, FiniteSetTheorems, SequenceTheorems, TLAPS

(***************************************************************************)
(* Induction over the natural numbers                                       *)
(***************************************************************************)

\* A set that holds 0 and the successor of each of its elements holds every
\* natural number: below one it lacks, the successor would map a finite set
\* one to one into a smaller one.
LEMMA CountUp ==
    ASSUME NEW T \in SUBSET Nat, 0 \in T, \A n \in T : n + 1 \in T, NEW m \in Nat
    PROVE  m \in T
<1> SUFFICES ASSUME m \notin T PROVE FALSE
    OBVIOUS
<1> DEFINE S == T \cap (0 .. m)
           succ == [k \in S |-> k + 1]
<1>1. IsFiniteSet(S)
    <2>1. IsFiniteSet(0 .. m) /\ S \subseteq 0 .. m
        BY FS_Interval
    <2>2. QED
        BY <2>1, FS_Subset
<1>2. 0 \in S /\ succ \in [S -> S \ {0}] /\ \A i, j \in S : succ[i] = succ[j] => i = j
    OBVIOUS
<1> HIDE DEF S, succ
<1>3. IsFiniteSet(S \ {0}) /\ Cardinality(S \ {0}) = Cardinality(S) - 1
    BY <1>1, <1>2, FS_RemoveElement
<1>4. Cardinality(S \ {0}) < Cardinality(S)
    BY <1>1, <1>3, FS_CardinalityType
<1>5. \E i, j \in S : i # j /\ succ[i] = succ[j]
    BY <1>1, <1>2, <1>3, <1>4, FS_PigeonHole
<1>6. QED
    BY <1>2, <1>5

LEMMA Totals == totalMB \in Nat \ {0} /\ maxCount \in Nat
<1>1. mbW * mbH \in Nat /\ mbW * mbH >= 1
    BY FrameLoopAssumption
<1>2. QED
    BY <1>1, FrameLoopAssumption DEF totalMB, maxCount, Max2

(***************************************************************************)
(* Raster order                                                             *)
(***************************************************************************)

Rank(S, i) == Cardinality(Before(S, i))

\* Of two members the later one has more members before it.
LEMMA Ranks ==
    ASSUME NEW S \in SUBSET MBs
    PROVE  /\ IsFiniteSet(S) /\ Cardinality(S) \in Nat
           /\ \A i \in S : Rank(S, i) \in 0 .. Cardinality(S) - 1
           /\ \A i, j \in S : i < j => Rank(S, i) < Rank(S, j)
<1>1. IsFiniteSet(MBs)
    BY Totals, FS_Interval DEF MBs
<1>2. IsFiniteSet(S) /\ Cardinality(S) \in Nat
    BY <1>1, FS_Subset, FS_CardinalityType
<1>0. \A i \in S : i \in Int
    BY Totals DEF MBs
<1>3. ASSUME NEW i \in S, NEW B \in SUBSET S, Before(S, i) \subseteq B, i \in B
      PROVE  Rank(S, i) \in Nat /\ Rank(S, i) < Cardinality(B)
    <2>1. IsFiniteSet(B) /\ i \notin Before(S, i)
        <3>1. IsFiniteSet(B)
            BY <1>2, FS_Subset
        <3>2. i \notin Before(S, i)
            BY <1>0 DEF Before
        <3>3. QED
            BY <3>1, <3>2
    <2>2. IsFiniteSet(B \ {i}) /\ Cardinality(B \ {i}) = Cardinality(B) - 1
        BY <1>3, <2>1, FS_RemoveElement
    <2>3. Before(S, i) \subseteq B \ {i}
        BY <1>3, <2>1
    <2>4. IsFiniteSet(Before(S, i)) /\ Rank(S, i) <= Cardinality(B \ {i})
        BY <2>2, <2>3, FS_Subset DEF Rank
    <2>5. QED
        BY <2>1, <2>2, <2>4, FS_CardinalityType DEF Rank
<1>4. ASSUME NEW i \in S PROVE Rank(S, i) \in 0 .. Cardinality(S) - 1
    <2>1. Before(S, i) \subseteq S
        BY DEF Before
    <2>2. Rank(S, i) \in Nat /\ Rank(S, i) < Cardinality(S)
        BY <1>3, <2>1
    <2>3. QED
        BY <1>2, <2>2
<1>5. ASSUME NEW i \in S, NEW j \in S, i < j PROVE Rank(S, i) < Rank(S, j)
    <2>1. Before(S, j) \subseteq S /\ Before(S, i) \subseteq Before(S, j) /\ i \in Before(S, j)
        BY <1>0, <1>5 DEF Before
    <2>2. Rank(S, i) < Cardinality(Before(S, j))
        BY <1>3, <2>1
    <2>3. QED
        BY <2>2 DEF Rank
<1>6. QED
    BY <1>2, <1>4, <1>5

IsOrdered(r, S) ==
    /\ DOMAIN r = 1 .. Cardinality(S) /\ Len(r) = Cardinality(S) /\ Cardinality(S) \in Nat
    /\ \A n \in DOMAIN r : r[n] \in S
    /\ \A i \in S : \E n \in DOMAIN r : r[n] = i
    /\ \A m, n \in DOMAIN r : m < n => r[m] < r[n]

\* InRasterOrder names every member once, in ascending order.
LEMMA Ordered ==
    ASSUME NEW S \in SUBSET MBs
    PROVE  IsOrdered(InRasterOrder(S), S)
<1> DEFINE c == Cardinality(S)
           rank == [i \in S |-> Rank(S, i) + 1]
<1>1. /\ IsFiniteSet(S) /\ c \in Nat
      /\ \A i \in S : Rank(S, i) \in 0 .. c - 1
      /\ \A i, j \in S : i < j => Rank(S, i) < Rank(S, j)
    BY Ranks
<1>2. \A i \in S : i \in Int
    BY Totals DEF MBs
<1>3. \A i, j \in S : Rank(S, i) = Rank(S, j) => i = j
    BY <1>1, <1>2
<1>4. rank \in [S -> 1 .. c] /\ \A i, j \in S : rank[i] = rank[j] => i = j
    BY <1>1, <1>3
<1>5. IsFiniteSet(1 .. c) /\ Cardinality(1 .. c) = c
    BY <1>1, FS_Interval
<1>6. \A n \in 1 .. c : \E i \in S : rank[i] = n
    <2> DEFINE hit == {rank[i] : i \in S}
    <2>1. hit \subseteq 1 .. c /\ rank \in [S -> hit] /\ \A n \in hit : \E i \in S : rank[i] = n
        BY <1>4
    <2>2. IsFiniteSet(hit) /\ Cardinality(hit) <= c
        BY <1>5, <2>1, FS_Subset
    <2>3. ASSUME NEW n \in 1 .. c, n \notin hit PROVE FALSE
        <3>1. IsFiniteSet((1 .. c) \ {n}) /\ Cardinality((1 .. c) \ {n}) = c - 1
            BY <1>5, FS_RemoveElement
        <3>2. rank \in [S -> (1 .. c) \ {n}]
            BY <2>1, <2>3
        <3>3. Cardinality((1 .. c) \ {n}) < Cardinality(S)
            BY <1>1, <3>1
        <3> DEFINE room == (1 .. c) \ {n}
        <3> HIDE DEF room, rank, c
        <3>4. \E i, j \in S : i # j /\ rank[i] = rank[j]
            BY <1>1, <3>1, <3>2, <3>3, FS_PigeonHole DEF room
        <3>5. QED
            BY <1>4, <3>4
    <2>4. QED
        BY <2>1, <2>3
<1>7. \A n \in 1 .. c : \E i \in S : Rank(S, i) = n - 1
    BY <1>1, <1>6
<1> DEFINE r == InRasterOrder(S)
<1>8. DOMAIN r = 1 .. c /\ \A n \in 1 .. c : r[n] = CHOOSE i \in S : Rank(S, i) = n - 1
    BY DEF InRasterOrder, Rank
<1>9. \A n \in 1 .. c : r[n] \in S /\ Rank(S, r[n]) = n - 1
    BY <1>7, <1>8
<1>10. Len(r) = c
    BY <1>1 DEF InRasterOrder
<1> HIDE DEF r, rank, c
<1>11. \A i \in S : i = r[Rank(S, i) + 1] /\ Rank(S, i) + 1 \in 1 .. c
    <2>1. SUFFICES ASSUME NEW i \in S
                   PROVE  i = r[Rank(S, i) + 1] /\ Rank(S, i) + 1 \in 1 .. c
        OBVIOUS
    <2>2. Rank(S, i) + 1 \in 1 .. c /\ (Rank(S, i) + 1) - 1 = Rank(S, i)
        BY <1>1
    <2>3. r[Rank(S, i) + 1] \in S /\ Rank(S, r[Rank(S, i) + 1]) = Rank(S, i)
        BY <1>9, <2>2
    <2>4. QED
        BY <1>3, <2>2, <2>3
<1>12. \A m, n \in 1 .. c : m < n => r[m] < r[n]
    <2>1. SUFFICES ASSUME NEW m \in 1 .. c, NEW n \in 1 .. c, m < n, ~(r[m] < r[n]) PROVE FALSE
        OBVIOUS
    <2>2. r[m] \in S /\ r[n] \in S /\ Rank(S, r[m]) = m - 1 /\ Rank(S, r[n]) = n - 1
        BY <1>9
    <2>3. r[n] < r[m] \/ r[n] = r[m]
        BY <1>2, <2>1, <2>2
    <2>4. Rank(S, r[n]) < Rank(S, r[m]) \/ Rank(S, r[n]) = Rank(S, r[m])
        BY <1>1, <2>2, <2>3
    <2>5. QED
        BY <2>1, <2>2, <2>4
<1>13. QED
    <2>1. DOMAIN r = 1 .. Cardinality(S) /\ Len(r) = Cardinality(S) /\ Cardinality(S) \in Nat
        BY <1>1, <1>8, <1>10 DEF c
    <2>2. \A i \in S : \E n \in DOMAIN r : r[n] = i
        BY <1>8, <1>11
    <2>3. IsOrdered(r, S)
        BY <1>8, <1>9, <1>12, <2>1, <2>2 DEF IsOrdered, c
    <2>4. QED
        BY <2>3 DEF r

\* All macroblocks in raster order are the macroblocks themselves.
LEMMA AllOrdered ==
    /\ IsOrdered(InRasterOrder(MBs), MBs)
    /\ Cardinality(MBs) = totalMB
    /\ \A i \in MBs : Cardinality(Before(MBs, i)) = i
    /\ \A n \in 1 .. totalMB : InRasterOrder(MBs)[n] = n - 1
<1>1. Cardinality(MBs) = totalMB
    BY Totals, FS_Interval DEF MBs
<1>2. ASSUME NEW i \in MBs PROVE Cardinality(Before(MBs, i)) = i
    <2>1. Before(MBs, i) = 0 .. i - 1 /\ i \in Nat
        BY Totals DEF Before, MBs
    <2>2. QED
        BY <2>1, FS_Interval
<1>3. ASSUME NEW n \in 1 .. totalMB PROVE InRasterOrder(MBs)[n] = n - 1
    <2>1. InRasterOrder(MBs)[n] = CHOOSE i \in MBs : Cardinality(Before(MBs, i)) = n - 1
        BY <1>1, <1>3 DEF InRasterOrder
    <2>2. n - 1 \in MBs /\ Cardinality(Before(MBs, n - 1)) = n - 1
        BY <1>2, Totals DEF MBs
    <2>3. InRasterOrder(MBs)[n] \in MBs /\ Cardinality(Before(MBs, InRasterOrder(MBs)[n])) = n - 1
        BY <2>1, <2>2
    <2>4. QED
        BY <1>2, <2>3
<1>4. QED
    BY <1>1, <1>2, <1>3, Ordered

(***************************************************************************)
(* Partitions                                                               *)
(***************************************************************************)

\* What EmitTokensPartitioned writes for macroblocks of one token each.
LEMMA Flattened ==
    ASSUME NEW n \in Nat, NEW E, NEW e \in [1 .. n -> E]
    PROVE  FlattenSeq([j \in 1 .. n |-> <<e[j]>>]) = e
<1> DEFINE s == [j \in 1 .. n |-> <<e[j]>>]
           Next1(f, i) == IF i = 1 THEN s[i] ELSE f[i - 1] \o s[i]
           Solves(f) == f = [i \in 1 .. n |-> Next1(f, i)]
           flatten == CHOOSE f : Solves(f)
           w == [i \in 1 .. n |-> [j \in 1 .. i |-> e[j]]]
<1>1. s \in Seq(Seq(E)) /\ Len(s) = n /\ \A i \in 1 .. n : s[i] = <<e[i]>>
    OBVIOUS
<1>2. FlattenSeq(s) = IF n = 0 THEN s ELSE flatten[n]
    BY <1>1 DEF FlattenSeq
<1> HIDE DEF s
<1>3. ASSUME NEW i \in 1 .. n, i # 1 PROVE [j \in 1 .. i - 1 |-> e[j]] \o s[i] = [j \in 1 .. i |-> e[j]]
    <2> DEFINE a == [j \in 1 .. i - 1 |-> e[j]]
               b == <<e[i]>>
    <2>1. a \in Seq(E) /\ Len(a) = i - 1 /\ \A j \in 1 .. i - 1 : a[j] = e[j]
        OBVIOUS
    <2>2. b \in Seq(E) /\ Len(b) = 1 /\ b[1] = e[i]
        OBVIOUS
    <2> HIDE DEF a, b
    <2>3. a \o b \in Seq(E) /\ Len(a \o b) = i
        <3>1. a \o b \in Seq(E) /\ Len(a \o b) = Len(a) + Len(b)
            BY <2>1, <2>2, ConcatProperties
        <3>2. QED
            BY <2>1, <2>2, <3>1
    <2>4. \A j \in 1 .. i : (a \o b)[j] = e[j]
        BY <2>1, <2>2, <2>3, ConcatProperties
    <2> DEFINE c == a \o b
    <2>5. c = [j \in 1 .. i |-> e[j]]
        <3>1. c \in Seq(E) /\ Len(c) = i /\ \A j \in 1 .. i : c[j] = e[j]
            BY <2>3, <2>4
        <3> HIDE DEF c
        <3>2. c \in [1 .. i -> E]
            BY <3>1
        <3>3. QED
            BY <3>1, <3>2
    <2>6. QED
        BY <1>1, <2>5 DEF a, b
<1>4. ASSUME n # 0 PROVE s[1] = [j \in 1 .. 1 |-> e[j]]
    <2>1. s[1] = <<e[1]>>
        BY <1>1, <1>4
    <2>2. <<e[1]>> = [j \in 1 .. 1 |-> e[j]]
        OBVIOUS
    <2>3. QED
        BY <2>1, <2>2
<1>5. Solves(w)
    <2>1. ASSUME NEW i \in 1 .. n PROVE w[i] = Next1(w, i)
        <3>1. CASE i = 1
            BY <3>1, <1>4
        <3>2. CASE i # 1
            <4>1. w[i - 1] = [j \in 1 .. i - 1 |-> e[j]]
                BY <3>2
            <4>2. QED
                BY <3>2, <4>1, <1>3
        <3>3. QED
            BY <3>1, <3>2
    <2> HIDE DEF Next1
    <2>2. QED
        BY <2>1
<1>6. Solves(flatten)
    BY <1>5
<1> HIDE DEF flatten, w
<1>7. \A i \in 1 .. n : flatten[i] = Next1(flatten, i)
    BY <1>6
<1> DEFINE T == {m \in Nat : m + 1 \in 1 .. n => flatten[m + 1] = [j \in 1 .. m + 1 |-> e[j]]}
<1>8. 0 \in T
    BY <1>4, <1>7
<1>9. ASSUME NEW m \in T PROVE m + 1 \in T
    <2>1. SUFFICES ASSUME (m + 1) + 1 \in 1 .. n
                   PROVE  flatten[(m + 1) + 1] = [j \in 1 .. (m + 1) + 1 |-> e[j]]
        OBVIOUS
    <2>2. flatten[m + 1] = [j \in 1 .. m + 1 |-> e[j]] /\ m \in Nat
        BY <2>1
    <2>3. (m + 1) + 1 # 1 /\ ((m + 1) + 1) - 1 = m + 1
        BY <2>2
    <2>4. flatten[(m + 1) + 1] = flatten[m + 1] \o s[(m + 1) + 1]
        BY <1>7, <2>1, <2>3
    <2>5. QED
        BY <1>3, <2>1, <2>2, <2>3, <2>4
<1>10. n # 0 => n - 1 \in T
    <2>1. SUFFICES ASSUME n # 0 PROVE n - 1 \in T
        OBVIOUS
    <2>2. n - 1 \in Nat /\ T \in SUBSET Nat
        BY <2>1
    <2> HIDE DEF T
    <2>3. QED
        BY <1>8, <1>9, <2>2, CountUp
<1>11. n # 0 => flatten[n] = [j \in 1 .. n |-> e[j]]
    BY <1>10
<1>12. n = 0 => s = e
    BY DEF s
<1>13. e = [j \in 1 .. n |-> e[j]]
    OBVIOUS
<1>14. QED
    BY <1>2, <1>11, <1>12, <1>13 DEF s

(***************************************************************************)
(* The invariant                                                            *)
(***************************************************************************)

Info == [q : Qualities \cup {0}, pass : Nat, skip : BOOLEAN,
         from : {"source", "reconstruction"}, Disto : {0}]
Token == [mb : MBs, pass : Nat, proba : Nat]

TypeOK ==
    /\ cfg \in Configs /\ quality \in Qualities
    /\ phase \in {"stat", "encode", "adjust", "optimize", "emit", "done"}
    /\ pass \in Nat
    /\ mbIdx \in 0 .. totalMB /\ refreshCnt \in Nat
    /\ info \in [MBs -> Info] /\ numSkip \in Nat
    /\ proba \in Nat
    /\ tokens \in Seq(Token) /\ mbStart \in [0 .. totalMB -> Nat]

Ended == phase \in {"adjust", "optimize", "emit", "done"}
Walked == 0 .. mbIdx - 1

\* Which phases a configuration reaches, and that passes are not left early.
Phases ==
    /\ Ended => mbIdx = totalMB
    /\ phase = "stat" => ~cfg.method3
    /\ phase = "adjust" => cfg.search # "none"
    /\ ~cfg.skips => \A i \in MBs : ~info[i].skip

\* What this pass has left in mbInfo, whatever the passes before it did: made
\* with the current quantizers, until a search that is out of passes changes
\* them.
ThisPass ==
    /\ \A i \in Walked : info[i].pass = pass /\ info[i].from = "source"
    /\ phase \in {"stat", "encode", "adjust"} \/ Converged => \A i \in Walked : info[i].q = quality

Skipped == {i \in Walked : info[i].skip}
SkipsCounted == numSkip = Cardinality(Skipped)

\* Which planes hold reconstructed pixels: of this pass only, so that each
\* macroblock still to come is read from the source.
Planes ==
    /\ phase = "stat" => recon = {}
    /\ phase = "encode" => recon = Walked
    /\ phase \in {"encode", "adjust"} /\ cfg.search # "none" => saved = {}

\* The tokens recorded so far: one for each macroblock walked that has some.
Recording ==
    phase # "stat" =>
        /\ TokensOf(tokens, {i \in Walked : ~info[i].skip})
        /\ \A j \in DOMAIN tokens : tokens[j].pass = pass

\* The parallel path records with the tables it emits.
Tables == useParallel => \A j \in DOMAIN tokens : tokens[j].proba = proba

\* Where nothing is skipped every macroblock walked has its mark.
Marks ==
    phase # "stat" /\ ~cfg.skips =>
        /\ Len(tokens) = mbIdx
        /\ \A i \in Walked : mbStart[i] = i /\ tokens[i + 1].mb = i

Emitted ==
    phase = "done" =>
        /\ out.q = quality /\ out.proba = proba /\ out.numSkip = numSkip
        /\ cfg.numParts = 1 \/ ~cfg.skips => PartitionsExact

IInv ==
    /\ TypeOK /\ Phases /\ ThisPass /\ SkipsCounted /\ Planes /\ Recording /\ Tables
    /\ Marks /\ Emitted

LEMMA Initial == Init => IInv
<1> SUFFICES ASSUME Init PROVE IInv
    OBVIOUS
<1>1. Walked = {} /\ Skipped = {} /\ {i \in Walked : ~info[i].skip} = {}
    BY DEF Init, Walked, Skipped
<1>2. TypeOK
    <2>1. info \in [MBs -> Info]
        BY DEF Init, FreshInfo, Info
    <2>2. tokens \in Seq(Token) /\ mbIdx \in 0 .. totalMB /\ refreshCnt \in Nat
        BY Totals DEF Init
    <2>3. QED
        BY <2>1, <2>2 DEF Init, TypeOK
<1>3. Phases
    BY DEF Init, Phases, Ended, FreshInfo
<1>4. ThisPass /\ Planes
    BY <1>1 DEF Init, ThisPass, Planes, NoPlanes
<1>5. SkipsCounted
    BY <1>1, FS_EmptySet DEF Init, SkipsCounted
<1>6. Recording /\ Tables /\ Marks
    BY <1>1 DEF Init, Recording, Tables, Marks, TokensOf
<1>7. Emitted
    BY DEF Init, Emitted
<1>8. QED
    BY <1>2, <1>3, <1>4, <1>5, <1>6, <1>7 DEF IInv

\* What is true of a pass that has not walked anything.
LEMMA Rewound ==
    ASSUME TypeOK', Phases', ResetPass, Planes', phase' \in {"stat", "encode"},
           phase' = "encode" => tokens' = << >>, useParallel' => tokens' = << >>
    PROVE  IInv'
<1>1. Walked' = {} /\ Skipped' = {} /\ {i \in Walked' : ~info'[i].skip} = {}
    BY DEF ResetPass, Walked, Skipped
<1>2. ThisPass'
    BY <1>1 DEF ThisPass
<1>3. SkipsCounted'
    BY <1>1, FS_EmptySet DEF ResetPass, SkipsCounted
<1>4. Recording' /\ Tables' /\ Marks' /\ Emitted'
    BY <1>1 DEF ResetPass, Recording, Tables, Marks, TokensOf, Emitted
<1>5. QED
    BY <1>2, <1>3, <1>4 DEF IInv

\* optimizeProba and refreshProbas leave the tables' type, and the tables
\* themselves while goroutines read them.
LEMMA Refreshed ==
    ASSUME TypeOK, Refresh
    PROVE  proba' \in Nat /\ refreshCnt' \in Nat /\ (useParallel => proba' = proba)
<1>1. CASE refreshCnt = 0 /\ ~useParallel
    BY <1>1, Totals DEF Refresh, optimizeProba, TypeOK
<1>2. CASE ~(refreshCnt = 0 /\ ~useParallel)
    BY <1>2 DEF Refresh, TypeOK
<1>3. QED
    BY <1>1, <1>2

LEMMA Encoding == ASSUME IInv, NEW skip \in BOOLEAN, EncodeMB(skip) PROVE IInv'
<1> DEFINE i == mbIdx
           entry == [q |-> quality, pass |-> pass, skip |-> skip, Disto |-> info[i].Disto,
                     from |-> IF i \in recon THEN "reconstruction" ELSE "source"]
           token == [mb |-> i, pass |-> pass, proba |-> proba']
           kept == phase # "stat" /\ ~skip
<1>1. /\ TypeOK /\ Phases /\ ThisPass /\ SkipsCounted /\ Planes /\ Recording /\ Tables /\ Marks
      /\ phase \in {"stat", "encode"} /\ i \in MBs /\ i \in Nat /\ i < totalMB /\ (skip => cfg.skips)
    BY Totals DEF IInv, EncodeMB, TypeOK, MBs
<1>2. /\ info' = [info EXCEPT ![i] = entry]
      /\ numSkip' = numSkip + (IF skip THEN 1 ELSE 0)
      /\ recon' = IF phase = "stat" THEN recon ELSE recon \cup {i}
      /\ mbIdx' = i + 1
      /\ UNCHANGED <<cfg, quality, phase, pass, saved, rateCtrl, out>>
    BY DEF EncodeMB, Export, encVars
<1>3. IF kept THEN tokens' = Append(tokens, token) /\ mbStart' = [mbStart EXCEPT ![i] = Len(tokens)]
              ELSE UNCHANGED <<tokens, mbStart>>
    BY DEF EncodeMB, Recorded, tokenVars
<1>4. proba' \in Nat /\ refreshCnt' \in Nat /\ (useParallel => proba' = proba)
    BY <1>1, Refreshed DEF EncodeMB
<1>5. /\ Walked' = Walked \cup {i} /\ i \notin Walked /\ Walked \subseteq MBs
      /\ \A k \in Walked : k \in Nat /\ k < i
    BY <1>1, <1>2, Totals DEF Walked, MBs
<1>6. info'[i] = entry /\ \A k \in Walked : info'[k] = info[k]
    BY <1>1, <1>2, <1>5 DEF TypeOK
<1>7. entry \in Info /\ entry.skip = skip /\ entry.pass = pass /\ entry.q = quality
      /\ entry.from = IF i \in recon THEN "reconstruction" ELSE "source"
    BY <1>1 DEF TypeOK, Info
<1>8. token \in Token /\ token.mb = i /\ token.pass = pass /\ token.proba = proba'
    BY <1>1, <1>4 DEF TypeOK, Token
<1>9. useParallel' = useParallel /\ Converged' = Converged
    BY <1>2 DEF useParallel, Converged, maxPasses
<1> HIDE DEF entry, token, kept
<1>10. TypeOK'
    <2>1. info' \in [MBs -> Info]
        <3>1. info \in [MBs -> Info]
            BY <1>1 DEF TypeOK
        <3>2. QED
            BY <1>1, <1>2, <1>7, <3>1
    <2>2. tokens' \in Seq(Token) /\ mbStart' \in [0 .. totalMB -> Nat]
        <3>1. tokens \in Seq(Token) /\ mbStart \in [0 .. totalMB -> Nat] /\ Len(tokens) \in Nat
            BY <1>1 DEF TypeOK
        <3>2. CASE kept
            BY <1>1, <1>3, <1>8, <3>1, <3>2
        <3>3. CASE ~kept
            BY <1>3, <3>1, <3>3
        <3>4. QED
            BY <3>2, <3>3
    <2>3. mbIdx' \in 0 .. totalMB /\ numSkip' \in Nat
        <3>1. numSkip \in Nat
            BY <1>1 DEF TypeOK
        <3>2. QED
            BY <1>1, <1>2, <3>1, Totals
    <2>4. QED
        BY <1>1, <1>2, <1>4, <2>1, <2>2, <2>3 DEF TypeOK
<1>11. Phases'
    <2>1. ~cfg.skips => \A k \in MBs : ~info'[k].skip
        BY <1>1, <1>2, <1>7 DEF Phases, TypeOK
    <2>2. QED
        BY <1>1, <1>2, <2>1 DEF Phases, Ended
<1>12. ThisPass'
    <2>1. i \notin recon
        BY <1>1, <1>5 DEF Planes
    <2>2. \A k \in Walked' : info'[k].pass = pass /\ info'[k].from = "source" /\ info'[k].q = quality
        BY <1>1, <1>5, <1>6, <1>7, <2>1 DEF ThisPass
    <2>3. QED
        BY <1>2, <2>2 DEF ThisPass
<1>13. SkipsCounted'
    <2>1. Skipped' = IF skip THEN Skipped \cup {i} ELSE Skipped
        BY <1>5, <1>6, <1>7 DEF Skipped
    <2>2. IsFiniteSet(Skipped) /\ i \notin Skipped /\ Cardinality(Skipped) \in Nat
        <3>1. Skipped \subseteq MBs
            BY <1>5 DEF Skipped
        <3>2. QED
            BY <1>5, <3>1, Ranks DEF Skipped
    <2>3. Cardinality(Skipped \cup {i}) = Cardinality(Skipped) + 1
        BY <2>2, FS_AddElement
    <2>4. QED
        BY <1>1, <1>2, <2>1, <2>2, <2>3 DEF SkipsCounted
<1>14. Planes'
    BY <1>1, <1>2, <1>5 DEF Planes
<1>15. Recording'
    <2>1. SUFFICES ASSUME phase # "stat"
                   PROVE  /\ TokensOf(tokens', {k \in Walked' : ~info'[k].skip})
                          /\ \A j \in DOMAIN tokens' : tokens'[j].pass = pass
        BY <1>2 DEF Recording
    <2> DEFINE coded == {k \in Walked : ~info[k].skip}
    <2>2. {k \in Walked' : ~info'[k].skip} = IF skip THEN coded ELSE coded \cup {i}
        BY <1>5, <1>6, <1>7
    <2>3. /\ TokensOf(tokens, coded) /\ \A j \in DOMAIN tokens : tokens[j].pass = pass
          /\ \A k \in coded : k < i
        BY <1>1, <1>5, <2>1 DEF Recording
    <2> HIDE DEF coded
    <2>4. CASE skip
        BY <1>3, <2>2, <2>3, <2>4 DEF kept
    <2>5. CASE ~skip
        <3>1. /\ tokens' = Append(tokens, token) /\ tokens \in Seq(Token)
              /\ DOMAIN tokens = 1 .. Len(tokens) /\ Len(tokens) \in Nat
            BY <1>1, <1>3, <2>1, <2>5 DEF kept, TypeOK
        <3>2. /\ DOMAIN tokens' = DOMAIN tokens \cup {Len(tokens) + 1}
              /\ tokens'[Len(tokens) + 1] = token
              /\ \A j \in DOMAIN tokens : tokens'[j] = tokens[j] /\ j < Len(tokens) + 1 /\ j \in Nat
            BY <3>1, <1>8
        <3>3. {tokens'[j].mb : j \in DOMAIN tokens'} = coded \cup {i}
            BY <1>8, <2>3, <3>2 DEF TokensOf
        <3>4. \A j, k \in DOMAIN tokens' : j < k => tokens'[j].mb < tokens'[k].mb
            <4>1. \A j \in DOMAIN tokens : tokens[j].mb \in coded
                BY <2>3 DEF TokensOf
            <4>2. SUFFICES ASSUME NEW j \in DOMAIN tokens', NEW k \in DOMAIN tokens', j < k
                           PROVE  tokens'[j].mb < tokens'[k].mb
                OBVIOUS
            <4>3. j \in DOMAIN tokens
                BY <3>1, <3>2, <4>2
            <4>4. CASE k \in DOMAIN tokens
                BY <2>3, <3>2, <4>2, <4>3, <4>4 DEF TokensOf
            <4>5. CASE k = Len(tokens) + 1
                BY <1>8, <2>3, <3>2, <4>1, <4>3, <4>5
            <4>6. QED
                BY <3>2, <4>4, <4>5
        <3>5. \A j \in DOMAIN tokens' : tokens'[j].pass = pass
            BY <1>8, <2>3, <3>2
        <3>6. QED
            BY <2>2, <2>5, <3>3, <3>4, <3>5 DEF TokensOf
    <2>6. QED
        BY <2>4, <2>5
<1>16. Tables'
    <2>1. SUFFICES ASSUME useParallel PROVE \A j \in DOMAIN tokens' : tokens'[j].proba = proba'
        BY <1>9 DEF Tables
    <2>2. proba' = proba /\ \A j \in DOMAIN tokens : tokens[j].proba = proba
        BY <1>1, <1>4, <2>1 DEF Tables
    <2>3. CASE kept
        BY <1>1, <1>3, <1>8, <2>2, <2>3 DEF TypeOK
    <2>4. CASE ~kept
        BY <1>3, <2>2, <2>4
    <2>5. QED
        BY <2>3, <2>4
<1>17. Marks'
    <2>1. SUFFICES ASSUME phase # "stat", ~cfg.skips
                   PROVE  /\ Len(tokens') = i + 1
                          /\ \A k \in Walked' : mbStart'[k] = k /\ tokens'[k + 1].mb = k
        BY <1>2 DEF Marks
    <2>2. /\ tokens' = Append(tokens, token) /\ mbStart' = [mbStart EXCEPT ![i] = Len(tokens)]
          /\ Len(tokens) = i /\ tokens \in Seq(Token) /\ mbStart \in [0 .. totalMB -> Nat]
          /\ \A k \in Walked : mbStart[k] = k /\ tokens[k + 1].mb = k
        <3>1. tokens \in Seq(Token) /\ mbStart \in [0 .. totalMB -> Nat] /\ cfg.skips \in BOOLEAN
            BY <1>1, FrameLoopAssumption DEF TypeOK
        <3>2. kept
            BY <1>1, <2>1 DEF kept
        <3>3. QED
            BY <1>1, <1>3, <2>1, <3>1, <3>2 DEF Marks
    <2>3. Len(tokens') = i + 1 /\ tokens'[i + 1] = token /\ mbStart'[i] = i
        <3>1. i \in 0 .. totalMB
            BY <1>1, Totals
        <3>2. QED
            BY <1>1, <1>8, <2>2, <3>1
    <2>4. \A k \in Walked : tokens'[k + 1] = tokens[k + 1] /\ mbStart'[k] = mbStart[k]
        BY <1>1, <1>5, <1>8, <2>2
    <2>5. QED
        BY <1>5, <1>8, <2>2, <2>3, <2>4
<1>18. Emitted'
    BY <1>1, <1>2 DEF Emitted
<1>19. QED
    BY <1>10, <1>11, <1>12, <1>13, <1>14, <1>15, <1>16, <1>17, <1>18 DEF IInv

LEMMA NewTables == ASSUME TypeOK, NEW k, optimizeProba(k) PROVE proba' \in Nat /\ k \in {0, 1} /\ (k = 0 => proba' = proba)
BY DEF TypeOK, optimizeProba

LEMMA StatPassEnded == ASSUME IInv, EndStatPass PROVE IInv'
<1>1. /\ TypeOK /\ Phases /\ Planes /\ phase = "stat" /\ ~cfg.method3 /\ recon = {}
      /\ UNCHANGED <<cfg, quality, info, mbStart, recon, rateCtrl, out>> /\ ResetPass
      /\ proba' \in Nat /\ pass' = pass + 1
    BY NewTables DEF IInv, EndStatPass, StartMainLoop, Phases, Planes
<1>2. \/ phase' = "encode" /\ tokens' = << >> /\ (cfg.search # "none" => saved' = recon)
      \/ phase' = "stat" /\ tokens' = tokens
    BY <1>1 DEF EndStatPass, StartMainLoop
<1>3. TypeOK'
    <2>1. tokens' \in Seq(Token)
        <3>1. tokens \in Seq(Token) /\ << >> \in Seq(Token) /\ (tokens' = << >> \/ tokens' = tokens)
            BY <1>1, <1>2, EmptySeq DEF TypeOK
        <3>2. QED
            BY <3>1
    <2>2. mbIdx' \in 0 .. totalMB /\ refreshCnt' \in Nat /\ numSkip' \in Nat /\ pass' \in Nat
        BY <1>1, Totals DEF TypeOK, ResetPass
    <2>3. QED
        BY <1>1, <1>2, <2>1, <2>2 DEF TypeOK
<1>4. Phases'
    BY <1>1, <1>2 DEF Phases, Ended
<1>5. Planes'
    BY <1>1, <1>2, Totals DEF Planes, Walked, ResetPass
<1>6. ~useParallel'
    BY <1>1 DEF useParallel
<1>7. QED
    BY <1>1, <1>2, <1>3, <1>4, <1>5, <1>6, Rewound

LEMMA PassEnded == ASSUME IInv, EndPass PROVE IInv'
<1>1. /\ phase = "encode" /\ mbIdx = totalMB /\ phase' \in {"optimize", "adjust"}
      /\ (phase' = "adjust" <=> cfg.search # "none")
      /\ UNCHANGED <<cfg, quality, pass, mbIdx, refreshCnt, info, numSkip, proba, tokens, mbStart,
                     recon, saved, rateCtrl, out>>
    BY DEF EndPass, mbVars, tokenVars, planeVars
<1>2. /\ Walked' = Walked /\ Skipped' = Skipped /\ useParallel' = useParallel
      /\ Converged' = Converged
    BY <1>1 DEF Walked, Skipped, useParallel, Converged, maxPasses
<1>3. TypeOK' /\ Phases' /\ SkipsCounted' /\ Planes' /\ Emitted'
    BY <1>1, <1>2 DEF IInv, TypeOK, Phases, Ended, SkipsCounted, Planes, Emitted
<1>4. ThisPass' /\ Recording' /\ Tables' /\ Marks'
    BY <1>1, <1>2 DEF IInv, ThisPass, Recording, Tables, Marks, TokensOf
<1>5. QED
    BY <1>3, <1>4 DEF IInv

LEMMA Adjusted == ASSUME IInv, adjustQuantForTarget PROVE IInv'
<1>1. /\ TypeOK /\ Phases /\ ThisPass /\ SkipsCounted /\ Planes /\ Recording /\ Tables /\ Marks
      /\ phase = "adjust" /\ cfg.search # "none" /\ mbIdx = totalMB /\ saved = {} /\ ~useParallel
    BY DEF IInv, adjustQuantForTarget, Phases, Ended, Planes, useParallel
<1>2. /\ UNCHANGED <<cfg, info, proba, saved, out>> /\ useParallel' = useParallel
      /\ mbStart' \in [0 .. totalMB -> Nat]
      /\ \A i \in MBs : mbStart'[i] = mbStart[i]
    <2>1. UNCHANGED <<cfg, info, proba, saved, out>>
        BY DEF adjustQuantForTarget
    <2>2. /\ mbStart' = mbStart \/ mbStart' = [mbStart EXCEPT ![totalMB] = Len(tokens)]
          /\ mbStart \in [0 .. totalMB -> Nat] /\ Len(tokens) \in Nat
        BY <1>1 DEF adjustQuantForTarget, TypeOK
    <2>3. \A i \in MBs : i \in 0 .. totalMB /\ i # totalMB
        BY Totals DEF MBs
    <2>4. mbStart' \in [0 .. totalMB -> Nat] /\ \A i \in MBs : mbStart'[i] = mbStart[i]
        BY <2>2, <2>3
    <2>5. QED
        BY <2>1, <2>4 DEF useParallel
<1>3. \/ Settle
      \/ /\ restoreSourcePixels /\ quality' \in Qualities
         /\ \/ phase' = "encode" /\ pass' = pass + 1 /\ tokens' = << >> /\ ResetPass
            \/ /\ phase' = "optimize" /\ ~(rateCtrl'.passes < maxPasses)
               /\ UNCHANGED <<pass, tokens, mbIdx, refreshCnt, numSkip>>
    BY <1>1 DEF adjustQuantForTarget, computeNextQ, TypeOK
<1>4. ASSUME restoreSourcePixels, quality' \in Qualities, phase' = "encode", pass' = pass + 1,
             tokens' = << >>, ResetPass
      PROVE  IInv'
    <2>1. recon' = {}
        BY <1>1, <1>4 DEF restoreSourcePixels, NoPlanes
    <2>2. TypeOK'
        BY <1>1, <1>2, <1>4, Totals DEF TypeOK, ResetPass
    <2>3. Phases'
        BY <1>1, <1>2, <1>4 DEF Phases, Ended
    <2>4. Planes'
        BY <1>1, <1>2, <1>4, <2>1, Totals DEF Planes, Walked, ResetPass
    <2>5. QED
        BY <1>4, <2>2, <2>3, <2>4, Rewound
<1>5. ASSUME phase' = "optimize", quality' \in Qualities, quality' # quality => ~Converged',
             Converged' => Converged \/ quality' = quality,
             UNCHANGED <<pass, tokens, mbIdx, refreshCnt, numSkip>>
      PROVE  IInv'
    <2>1. Walked' = Walked /\ Skipped' = Skipped /\ Walked \subseteq MBs
        BY <1>1, <1>2, <1>5 DEF Walked, Skipped, MBs
    <2>2. TypeOK' /\ Phases' /\ SkipsCounted' /\ Planes' /\ Emitted'
        BY <1>1, <1>2, <1>5, <2>1 DEF TypeOK, Phases, Ended, SkipsCounted, Planes, Emitted
    <2>3. ThisPass'
        BY <1>1, <1>2, <1>5, <2>1 DEF ThisPass
    <2>4. Recording' /\ Tables' /\ Marks'
        BY <1>1, <1>2, <1>5, <2>1 DEF Recording, Tables, Marks, TokensOf
    <2>5. QED
        BY <2>2, <2>3, <2>4 DEF IInv
<1>6. maxPasses' = maxPasses
    BY <1>2 DEF maxPasses
<1>7. CASE Settle
    BY <1>1, <1>5, <1>7 DEF Settle, TypeOK
<1>8. QED
    BY <1>3, <1>4, <1>5, <1>6, <1>7 DEF Converged

\* Recording again leaves one token for each macroblock that is not skipped.
LEMMA RecordedAgain ==
    ASSUME TypeOK, \A i \in MBs : info[i].pass = pass, NEW p \in Nat
    PROVE  /\ Rerecorded(p) \in Seq(Token) /\ TokensOf(Rerecorded(p), Coded)
           /\ \A j \in DOMAIN Rerecorded(p) : Rerecorded(p)[j].pass = pass /\ Rerecorded(p)[j].proba = p
           /\ RerecordedStart \in [0 .. totalMB -> Nat]
<1> DEFINE kept == InRasterOrder(Coded)
           c == Cardinality(Coded)
<1>1. Coded \in SUBSET MBs
    BY DEF Coded
<1>2. /\ DOMAIN kept = 1 .. c /\ c \in Nat /\ \A n \in 1 .. c : kept[n] \in Coded
      /\ \A i \in Coded : \E n \in 1 .. c : kept[n] = i
      /\ \A m, n \in 1 .. c : m < n => kept[m] < kept[n]
    BY <1>1, Ordered DEF IsOrdered
<1> DEFINE ts == [j \in 1 .. c |-> [mb |-> kept[j], pass |-> info[kept[j]].pass, proba |-> p]]
<1>3. Rerecorded(p) = ts
    BY <1>2 DEF Rerecorded
<1> HIDE DEF c, kept
<1>4. \A j \in 1 .. c : /\ ts[j] = [mb |-> kept[j], pass |-> pass, proba |-> p]
                        /\ ts[j].mb = kept[j] /\ ts[j].pass = pass /\ ts[j].proba = p
                        /\ ts[j] \in Token
    BY <1>1, <1>2 DEF TypeOK, Token
<1>5. ts \in Seq(Token) /\ DOMAIN ts = 1 .. c
    <2>1. ts \in [1 .. c -> Token]
        BY <1>4
    <2>2. QED
        BY <1>2, <2>1, SeqDef
<1> HIDE DEF ts
<1>6. TokensOf(ts, Coded)
    BY <1>2, <1>4, <1>5 DEF TokensOf
<1>7. RerecordedStart \in [0 .. totalMB -> Nat]
    <2>1. \A i \in Coded : Cardinality(Before(Coded, i)) \in Nat
        BY <1>1, Ranks DEF Rank
    <2>2. QED
        BY <2>1 DEF RerecordedStart, TypeOK
<1>8. QED
    BY <1>3, <1>4, <1>5, <1>6, <1>7

\* Where nothing is skipped the marks are the macroblocks' numbers again.
LEMMA MarkedAgain ==
    ASSUME \A i \in MBs : ~info[i].skip, NEW p
    PROVE  /\ Len(Rerecorded(p)) = totalMB
           /\ \A i \in MBs : RerecordedStart[i] = i /\ Rerecorded(p)[i + 1].mb = i
<1>1. Coded = MBs
    BY DEF Coded
<1>2. DOMAIN InRasterOrder(MBs) = 1 .. totalMB /\ totalMB \in Nat
    BY AllOrdered, Totals DEF IsOrdered
<1>3. Rerecorded(p) = [j \in 1 .. totalMB |-> [mb |-> InRasterOrder(MBs)[j],
                                               pass |-> info[InRasterOrder(MBs)[j]].pass, proba |-> p]]
    BY <1>1, <1>2 DEF Rerecorded
<1>4. Len(Rerecorded(p)) = totalMB
    BY <1>2, <1>3
<1>5. ASSUME NEW i \in MBs PROVE RerecordedStart[i] = i /\ Rerecorded(p)[i + 1].mb = i
    <2>1. i + 1 \in 1 .. totalMB /\ (i + 1) - 1 = i /\ i \in 0 .. totalMB
        BY Totals DEF MBs
    <2>2. InRasterOrder(MBs)[i + 1] = i
        BY <2>1, AllOrdered
    <2>3. RerecordedStart[i] = i
        BY <1>1, <2>1, AllOrdered DEF RerecordedStart
    <2>4. QED
        BY <1>3, <2>1, <2>2, <2>3
<1>6. QED
    BY <1>4, <1>5

LEMMA Optimized == ASSUME IInv, Optimize PROVE IInv'
<1>1. /\ TypeOK /\ Phases /\ ThisPass /\ SkipsCounted /\ Planes /\ Recording /\ Tables /\ Marks
      /\ phase = "optimize" /\ phase' = "emit" /\ mbIdx = totalMB
      /\ UNCHANGED <<cfg, quality, pass, mbIdx, refreshCnt, info, numSkip, recon, saved, rateCtrl, out>>
    BY DEF IInv, Optimize, Phases, Ended, mbVars, planeVars
<1>2. /\ proba' \in Nat
      /\ \/ proba' = proba /\ tokens' = tokens /\ mbStart' = mbStart
         \/ tokens' = Rerecorded(proba') /\ mbStart' = RerecordedStart
    BY <1>1, NewTables DEF Optimize, tokenVars
<1>3. /\ Walked' = MBs /\ Walked = MBs /\ Skipped' = Skipped /\ useParallel' = useParallel
      /\ Converged' = Converged /\ {i \in Walked' : ~info'[i].skip} = Coded
      /\ {i \in Walked : ~info[i].skip} = Coded
    BY <1>1 DEF Walked, MBs, Skipped, useParallel, Converged, maxPasses, Coded
<1>4. \A i \in MBs : info[i].pass = pass
    BY <1>1, <1>3 DEF ThisPass
<1>5. TypeOK'
    BY <1>1, <1>2, <1>4, RecordedAgain DEF TypeOK
<1>6. Phases' /\ SkipsCounted' /\ Planes' /\ Emitted'
    BY <1>1, <1>3 DEF Phases, Ended, SkipsCounted, Planes, Emitted
<1>7. ThisPass'
    BY <1>1, <1>3 DEF ThisPass
<1>8. Recording' /\ Tables'
    <2>1. CASE proba' = proba /\ tokens' = tokens
        BY <1>1, <1>3, <2>1 DEF Recording, Tables
    <2>2. CASE tokens' = Rerecorded(proba')
        BY <1>1, <1>2, <1>3, <1>4, <2>2, RecordedAgain DEF Recording, Tables
    <2>3. QED
        BY <1>2, <2>1, <2>2
<1>9. Marks'
    <2>1. CASE tokens' = tokens /\ mbStart' = mbStart
        BY <1>1, <1>3, <2>1 DEF Marks
    <2>2. CASE tokens' = Rerecorded(proba') /\ mbStart' = RerecordedStart
        BY <1>1, <1>3, <2>2, MarkedAgain DEF Marks, Phases
    <2>3. QED
        BY <1>2, <2>1, <2>2
<1>10. QED
    BY <1>5, <1>6, <1>7, <1>8, <1>9 DEF IInv

\* A partition gets the tokens of its rows, where each macroblock has one and
\* its mark.
LEMMA Partitioned ==
    ASSUME TypeOK, Len(tokens) = totalMB, \A i \in MBs : mbStart[i] = i /\ tokens[i + 1].mb = i,
           NEW k
    PROVE  /\ TokensOf(PartTokens(k), {i \in MBs : Y(i) % cfg.numParts = k})
           /\ Range(PartTokens(k)) \subseteq Range(tokens)
<1> DEFINE start == [mbStart EXCEPT ![totalMB] = Len(tokens)]
           S == {i \in MBs : Y(i) % cfg.numParts = k}
           rows == InRasterOrder(S)
           n == Cardinality(S)
           e == [j \in 1 .. n |-> tokens[rows[j] + 1]]
<1>1. \A i \in 0 .. totalMB : start[i] = i
    BY Totals DEF TypeOK, MBs
<1>2. /\ DOMAIN rows = 1 .. n /\ n \in Nat /\ \A j \in 1 .. n : rows[j] \in S
      /\ \A i \in S : \E j \in 1 .. n : rows[j] = i
      /\ \A i, j \in 1 .. n : i < j => rows[i] < rows[j]
    <2>1. S \in SUBSET MBs
        OBVIOUS
    <2>2. IsOrdered(rows, S)
        BY <2>1, Ordered
    <2>3. QED
        BY <2>2 DEF IsOrdered
<1>3. PartTokens(k) = FlattenSeq([j \in 1 .. n |-> SubSeq(tokens, start[rows[j]] + 1, start[rows[j] + 1])])
    BY <1>2 DEF PartTokens
<1> HIDE DEF start, rows, n
<1>4. ASSUME NEW j \in 1 .. n
      PROVE  /\ SubSeq(tokens, start[rows[j]] + 1, start[rows[j] + 1]) = <<tokens[rows[j] + 1]>>
             /\ tokens[rows[j] + 1] \in Token /\ tokens[rows[j] + 1].mb = rows[j]
             /\ rows[j] + 1 \in DOMAIN tokens
    <2>1. PICK r : r = rows[j]
        OBVIOUS
    <2>2. r \in MBs /\ r \in Int /\ r \in 0 .. totalMB /\ r + 1 \in 0 .. totalMB /\ r + 1 \in 1 .. totalMB
        BY <1>2, <2>1, Totals DEF MBs
    <2>3. start[r] = r /\ start[r + 1] = r + 1
        BY <1>1, <2>2
    <2>4. tokens \in Seq(Token)
        BY DEF TypeOK
    <2>5. SubSeq(tokens, r + 1, r + 1) = <<tokens[r + 1]>> /\ tokens[r + 1] \in Token
          /\ r + 1 \in DOMAIN tokens
        <3>1. r + 1 \in 1 .. Len(tokens) /\ r + 1 \in Int
            BY <2>2
        <3>2. tokens[r + 1] \in Token /\ r + 1 \in DOMAIN tokens
            BY <2>4, <3>1
        <3>3. SubSeq(tokens, r + 1, r + 1) = <<tokens[r + 1]>>
            <4> DEFINE a == SubSeq(tokens, r + 1, r + 1)
                       b == <<tokens[r + 1]>>
            <4>1. a \in Seq(Token) /\ Len(a) = 1 /\ a[1] = tokens[r + 1]
                BY <2>4, <3>1, SubSeqProperties
            <4>2. b \in Seq(Token) /\ Len(b) = 1 /\ b[1] = tokens[r + 1]
                BY <3>2
            <4> HIDE DEF a, b
            <4>3. \A j1 \in 1 .. Len(a) : a[j1] = b[j1]
                BY <4>1, <4>2
            <4>4. a = b
                BY <4>1, <4>2, <4>3, SeqEqual
            <4>5. QED
                BY <4>4 DEF a, b
        <3>4. QED
            BY <3>2, <3>3
    <2>6. tokens[r + 1].mb = r
        BY <2>2
    <2>7. QED
        BY <2>1, <2>3, <2>5, <2>6
<1>5. e \in [1 .. n -> Token] /\ \A j \in 1 .. n : e[j] = tokens[rows[j] + 1] /\ e[j].mb = rows[j]
    BY <1>4
<1> HIDE DEF e
<1>6. [j \in 1 .. n |-> SubSeq(tokens, start[rows[j]] + 1, start[rows[j] + 1])]
        = [j \in 1 .. n |-> <<e[j]>>]
    BY <1>4, <1>5
<1>7. PartTokens(k) = e
    BY <1>2, <1>3, <1>5, <1>6, Flattened
<1>8. DOMAIN e = 1 .. n
    BY <1>5
<1>9. Range(e) \subseteq Range(tokens)
    BY <1>4, <1>5, <1>8 DEF Range
<1>10. {e[j].mb : j \in DOMAIN e} = S
    BY <1>2, <1>5, <1>8
<1> HIDE DEF S
<1>11. TokensOf(e, S)
    <2>1. \A i, j \in DOMAIN e : i < j => e[i].mb < e[j].mb
        BY <1>2, <1>5, <1>8
    <2>2. QED
        BY <1>10, <2>1 DEF TokensOf
<1>12. QED
    BY <1>7, <1>9, <1>11 DEF S

LEMMA EmittedOnce == ASSUME IInv, Emit PROVE IInv'
<1>1. /\ TypeOK /\ Phases /\ ThisPass /\ SkipsCounted /\ Planes /\ Recording /\ Tables /\ Marks
      /\ phase = "emit" /\ phase' = "done" /\ mbIdx = totalMB
      /\ UNCHANGED <<cfg, quality, pass, mbIdx, refreshCnt, info, numSkip, proba, tokens, mbStart,
                     recon, saved, rateCtrl>>
      /\ out' = [q |-> quality, proba |-> proba, numSkip |-> numSkip, parts |-> emitTokenPartitions]
    BY DEF IInv, Emit, Phases, Ended, mbVars, planeVars, tokenVars
<1>2. /\ Walked' = MBs /\ Walked = MBs /\ Skipped' = Skipped /\ useParallel' = useParallel
      /\ Converged' = Converged /\ {i \in Walked' : ~info'[i].skip} = Coded
      /\ {i \in Walked : ~info[i].skip} = Coded /\ Coded' = Coded
    BY <1>1 DEF Walked, MBs, Skipped, useParallel, Converged, maxPasses, Coded
<1>3. TypeOK' /\ Phases' /\ SkipsCounted' /\ Planes'
    BY <1>1, <1>2 DEF TypeOK, Phases, Ended, SkipsCounted, Planes
<1>4. ThisPass' /\ Recording' /\ Tables' /\ Marks'
    BY <1>1, <1>2 DEF ThisPass, Recording, Tables, Marks
<1>5. ASSUME cfg.numParts = 1 \/ ~cfg.skips, NEW k \in 1 .. cfg.numParts
      PROVE  /\ TokensOf(emitTokenPartitions[k], {i \in Coded : Y(i) % cfg.numParts = k - 1})
             /\ Range(emitTokenPartitions[k]) \subseteq Range(tokens)
    <2>1. CASE cfg.numParts = 1
        <3>1. emitTokenPartitions[k] = tokens /\ k = 1
            BY <2>1, <1>5 DEF emitTokenPartitions
        <3>2. {i \in Coded : Y(i) % cfg.numParts = k - 1} = Coded
            <4>1. \A i \in MBs : Y(i) \in Int
                BY FrameLoopAssumption, Totals DEF Y, MBs
            <4>2. \A i \in MBs : Y(i) % 1 = 0
                BY <4>1
            <4>3. QED
                BY <2>1, <3>1, <4>2 DEF Coded
        <3>3. QED
            BY <1>1, <1>2, <3>1, <3>2 DEF Recording
    <2>2. CASE cfg.numParts # 1
        <3>1. Coded = MBs
            BY <1>1, <1>5, <2>2 DEF Phases, Coded
        <3>2. cfg.numParts \in Nat
            BY <1>1, FrameLoopAssumption DEF TypeOK
        <3>3. emitTokenPartitions[k] = PartTokens(k - 1)
            BY <1>5, <2>2 DEF emitTokenPartitions
        <3>4. Len(tokens) = totalMB /\ \A i \in MBs : mbStart[i] = i /\ tokens[i + 1].mb = i
            BY <1>1, <1>2, <1>5, <2>2 DEF Marks
        <3>5. QED
            BY <1>1, <3>1, <3>3, <3>4, Partitioned
    <2>3. QED
        BY <2>1, <2>2
<1>6. Emitted'
    <2>1. out'.q = quality /\ out'.proba = proba /\ out'.numSkip = numSkip /\ out'.parts = emitTokenPartitions
        BY <1>1
    <2>2. cfg.numParts = 1 \/ ~cfg.skips => PartitionsExact'
        BY <1>1, <1>2, <1>5, <2>1 DEF PartitionsExact, TokensOf
    <2>3. QED
        BY <1>1, <2>1, <2>2 DEF Emitted
<1>7. QED
    BY <1>3, <1>4, <1>6 DEF IInv

LEMMA Stuttering == ASSUME IInv, UNCHANGED vars PROVE IInv'
BY DEF vars, encVars, mbVars, tokenVars, planeVars, IInv, TypeOK, Phases, Ended, ThisPass, Walked,
       SkipsCounted, Skipped, Planes, Recording, Tables, Marks, Emitted, TokensOf, PartitionsExact,
       Converged, maxPasses, useParallel, Coded

THEOREM Invariance == Spec => []IInv
<1>1. IInv /\ [Next]_vars => IInv'
    <2> SUFFICES ASSUME IInv, [Next]_vars PROVE IInv'
        OBVIOUS
    <2>1. ASSUME NEW skip \in BOOLEAN, EncodeMB(skip) PROVE IInv'
        BY <2>1, Encoding
    <2>2. CASE EndStatPass
        BY <2>2, StatPassEnded
    <2>3. CASE EndPass
        BY <2>3, PassEnded
    <2>4. CASE adjustQuantForTarget
        BY <2>4, Adjusted
    <2>5. CASE Optimize
        BY <2>5, Optimized
    <2>6. CASE Emit
        BY <2>6, EmittedOnce
    <2>7. CASE UNCHANGED vars
        BY <2>7, Stuttering
    <2>8. QED
        BY <2>1, <2>2, <2>3, <2>4, <2>5, <2>6, <2>7 DEF Next, Done
<1>2. QED
    BY Initial, <1>1, PTL DEF Spec

(***************************************************************************)
(* The theorems                                                             *)
(***************************************************************************)

\* What is emitted is the last pass and nothing of those before it, whatever
\* passes, refreshes and adjustments came before: TokensComplete for every
\* frame size, method, search and number of partitions.
THEOREM EmitsTheLastPass == Spec => []TokensComplete
<1>1. IInv => TokensComplete
    <2> SUFFICES ASSUME IInv, phase \in {"optimize", "emit", "done"} PROVE TokensComplete
        BY DEF TokensComplete
    <2>1. Walked = MBs
        BY DEF IInv, Phases, Ended, Walked, MBs
    <2>2. {i \in Walked : ~info[i].skip} = Coded
        BY <2>1 DEF Coded
    <2>3. QED
        BY <2>1, <2>2 DEF IInv, ThisPass, Recording, Emitted, TokensComplete
<1>2. QED
    BY <1>1, Invariance, PTL

\* The header is that of the emitted tokens: HeaderExact for every frame size,
\* set of configurations and of qualities.
THEOREM HeaderIsOfTheTokens == Spec => []HeaderExact
<1>1. IInv => HeaderExact
    <2> SUFFICES ASSUME IInv, phase = "done" PROVE HeaderExact
        BY DEF HeaderExact
    <2>1. Walked = MBs
        BY DEF IInv, Phases, Ended, Walked, MBs
    <2>2. out.numSkip = Cardinality({i \in MBs : info[i].skip})
        BY <2>1 DEF IInv, Emitted, SkipsCounted, Skipped
    <2>3. QED
        BY <2>1, <2>2 DEF IInv, ThisPass, Tables, Emitted, HeaderExact
<1>2. QED
    BY <1>1, Invariance, PTL
=============================================================================
