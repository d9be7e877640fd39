----------------------------- MODULE CoeffTokens -----------------------------
(***************************************************************************)
(* The tokens of a block of coefficients: TokenBuffer.RecordCoeffs          *)
(* (encode_token.go) and getCoeffsInline (decode_mb.go).  A block is a      *)
(* function from 0 .. 15, in zigzag order, to levels.                       *)
(***************************************************************************)
EXTENDS BoolSymbols

Zeros == [n \in 0 .. 15 |-> 0]

\* One more than the last coefficient that is not zero (nzCount).
NzCount(coeffs) ==
    IF coeffs = Zeros THEN 0
    ELSE 1 + CHOOSE n \in 0 .. 15 : coeffs[n] # 0 /\ \A m \in n + 1 .. 15 : coeffs[m] = 0

\* The probabilities of the extra bits of the categories 3 to 6.
KCat3456 == <<<<173, 148, 140>>, <<176, 155, 140, 135>>, <<180, 157, 141, 134, 130>>,
              <<254, 254, 243, 230, 196, 177, 153, 140, 133, 130, 129>>>>

CategoryBase(cat) == 3 + 8 * 2 ^ cat

\* The level of a coefficient whose probabilities start at p
recordLevelVP8(level, p) ==
    LET cat == IF level <= 18 THEN 0 ELSE IF level <= 34 THEN 1 ELSE IF level <= 66 THEN 2 ELSE 3
    IN IF level = 1 THEN PutBit(0, p + 2)
       ELSE PutBit(1, p + 2) \o
            CASE level = 2 -> PutBit(0, p + 3) \o PutBit(0, p + 4)
              [] level \in 3 .. 4 -> PutBit(0, p + 3) \o PutBit(1, p + 4) \o PutBit(level - 3, p + 5)
              [] level \in 5 .. 6 ->
                    PutBit(1, p + 3) \o PutBit(0, p + 6) \o PutBit(0, p + 7) \o PutBit(level - 5, 159)
              [] level \in 7 .. 10 ->
                    PutBit(1, p + 3) \o PutBit(0, p + 6) \o PutBit(1, p + 7)
                        \o PutBitsWith(level - 7, <<165, 145>>)
              [] OTHER ->
                    PutBit(1, p + 3) \o PutBit(1, p + 6)
                        \o PutBit(cat \div 2, p + 8) \o PutBit(cat % 2, p + 9 + cat \div 2)
                        \o PutBitsWith(level - CategoryBase(cat), KCat3456[cat + 1])

\* The inner loop: zeros up to the next level, then the level and its sign.
RECURSIVE RecordRun(_, _, _, _, _), RecordFrom(_, _, _, _, _)
RecordRun(coeffs, table, type, n, ctx) ==
    LET p == CoeffProba(table, type, n, ctx, 0)
        v == Magnitude(coeffs[n])
    IN IF v = 0
       THEN PutBit(0, p + 1) \o
            IF n + 1 >= 16 THEN <<>> ELSE RecordRun(coeffs, table, type, n + 1, 0)
       ELSE PutBit(1, p + 1) \o recordLevelVP8(v, p) \o PutBit(Flag(coeffs[n] < 0), 128)
                \o RecordFrom(coeffs, table, type, n + 1, IF v = 1 THEN 1 ELSE 2)

\* The outer loop: is there anything more?
RecordFrom(coeffs, table, type, n, ctx) ==
    IF n >= 16 THEN <<>>
    ELSE IF n >= NzCount(coeffs) THEN PutBit(0, CoeffProba(table, type, n, ctx, 0))
    ELSE PutBit(1, CoeffProba(table, type, n, ctx, 0))
             \o RecordRun(coeffs, table, type, n, ctx)

RecordCoeffs(coeffs, table, type, first, ctx) == RecordFrom(coeffs, table, type, first, ctx)

(***************************************************************************)
(* Statistics: collectCoeffStats counts, for every probability of the       *)
(* tables, the bits that recording the block would code with it.  The       *)
(* counters are kept here as the sequence of what was counted.              *)
(***************************************************************************)

collectLevelStats(level, p) ==
    LET Counted(bits) == [k \in 1 .. Len(bits) |-> <<p + bits[k][1], bits[k][2]>>]
        cat == IF level <= 18 THEN 0 ELSE IF level <= 34 THEN 1 ELSE IF level <= 66 THEN 2 ELSE 3
    IN Counted(
        CASE level = 1 -> << <<2, 0>> >>
          [] level = 2 -> << <<2, 1>>, <<3, 0>>, <<4, 0>> >>
          [] level \in 3 .. 4 -> << <<2, 1>>, <<3, 0>>, <<4, 1>>, <<5, level - 3>> >>
          [] level \in 5 .. 10 -> << <<2, 1>>, <<3, 1>>, <<6, 0>>, <<7, Flag(level > 6)>> >>
          [] OTHER -> << <<2, 1>>, <<3, 1>>, <<6, 1>>, <<8, cat \div 2>>,
                         <<9 + cat \div 2, cat % 2>> >>)

RECURSIVE StatsRun(_, _, _, _), StatsFrom(_, _, _, _)
StatsRun(coeffs, type, n, ctx) ==
    LET p == CoeffProba(0, type, n, ctx, 0)
        v == Magnitude(coeffs[n])
    IN IF v = 0
       THEN << <<p + 1, 0>> >> \o IF n + 1 >= 16 THEN <<>> ELSE StatsRun(coeffs, type, n + 1, 0)
       ELSE << <<p + 1, 1>> >> \o collectLevelStats(v, p)
                \o StatsFrom(coeffs, type, n + 1, IF v = 1 THEN 1 ELSE 2)

StatsFrom(coeffs, type, n, ctx) ==
    IF n >= 16 THEN <<>>
    ELSE IF n >= NzCount(coeffs) THEN << <<CoeffProba(0, type, n, ctx, 0), 0>> >>
    ELSE << <<CoeffProba(0, type, n, ctx, 0), 1>> >> \o StatsRun(coeffs, type, n, ctx)

collectCoeffStats(coeffs, type, first, ctx) == StatsFrom(coeffs, type, first, ctx)

\* The level read back: its decision tree, whose probabilities follow p, and
\* the least level and the extra bits of each leaf.
LevelTree(p) == << <<p + 2, 0, 2>>, <<p + 3, 3, 4>>, <<p + 4, -1, -2>>, <<p + 6, 5, 6>>,
                   <<p + 7, -3, -4>>, <<p + 8, 7, 8>>, <<p + 9, -5, -6>>, <<p + 10, -7, -8>> >>

LevelLeaf(leaf, p) ==
    IF leaf >= 5 THEN <<CategoryBase(leaf - 5), KCat3456[leaf - 4]>>
    ELSE << <<1, <<>>>>, <<2, <<>>>>, <<3, <<p + 5>>>>, <<5, <<159>>>>, <<7, <<165, 145>>>> >>[leaf + 1]

\* The level a leaf and its extra bits stand for.
WithExtra(leaf, extra) == [extra EXCEPT !.val = leaf[1] + @]
LevelAt(reached, leaf) == WithExtra(leaf, GetBits(reached.br, leaf[2], 1, 0))
LevelFrom(reached, p) == LevelAt(reached, LevelLeaf(reached.val, p))

getLargeValue(br, p) == LevelFrom(GetTree(br, LevelTree(p), 1), p)

\* The two loops of the reader, a question at a time: is there more, is the
\* next coefficient zero, what is its level, what is its sign.  s.n is the
\* position, and at the end the count.
More(s, more) ==
    [s EXCEPT !.br = more.br, !.ask = IF more.val = 1 THEN "zero" ELSE "end"]

Nonzero(s, nonzero) ==
    IF nonzero.val = 1 THEN [s EXCEPT !.br = nonzero.br, !.ask = "level"]
    ELSE [s EXCEPT !.br = nonzero.br, !.n = @ + 1, !.ctx = 0,
                   !.ask = IF s.n = 15 THEN "end" ELSE "zero"]

Level(s, level) == [s EXCEPT !.br = level.br, !.out[s.n] = level.val, !.ask = "sign"]

Sign(s, sign) ==
    [s EXCEPT !.br = sign.br, !.n = @ + 1, !.ctx = IF s.out[s.n] = 1 THEN 1 ELSE 2,
              !.out[s.n] = IF sign.val = 1 THEN - @ ELSE @,
              !.ask = IF s.n = 15 THEN "end" ELSE "more"]

Asked(s, p) ==
    CASE s.ask = "more" -> More(s, GetBit(s.br, p))
      [] s.ask = "zero" -> Nonzero(s, GetBit(s.br, p + 1))
      [] s.ask = "level" -> Level(s, getLargeValue(s.br, p))
      [] s.ask = "sign" -> Sign(s, GetBit(s.br, 128))

RECURSIVE CoeffsFrom(_, _, _)
CoeffsFrom(s, table, type) ==
    IF s.ask = "end" THEN [br |-> s.br, nz |-> s.n, out |-> s.out]
    ELSE CoeffsFrom(Asked(s, CoeffProba(table, type, s.n, s.ctx, 0)), table, type)

getCoeffs(br, table, type, first, ctx) ==
    CoeffsFrom([br |-> br, n |-> first, ctx |-> ctx, out |-> Zeros, ask |-> "more"], table, type)

(***************************************************************************)
(* From levels to the coefficients the transforms take                      *)
(***************************************************************************)

KZigzag == <<0, 1, 4, 8, 5, 2, 3, 6, 9, 12, 13, 10, 7, 11, 14, 15>>

\* Levels in the order of the code become coefficients in their places.
Dequantized(levels, dq) ==
    [k \in 0 .. 15 |-> LET n == CHOOSE m \in 0 .. 15 : KZigzag[m + 1] = k
                       IN levels[n] * (IF n = 0 THEN dq[1] ELSE dq[2])]

\* The four vertical sums of TransformWHT, then the four of a row.
TransformWHT(in) ==
    LET Sums(a, b, c, d) == <<a + d + b + c, a - d + b - c, a + d - b - c, a - d - b + c>>
        tmp == [i \in 0 .. 3 |-> Sums(in[i], in[4 + i], in[8 + i], in[12 + i])]
        Row(j) == Sums(tmp[0][j] + 3, tmp[1][j], tmp[2][j], tmp[3][j])
    IN [n \in 0 .. 15 |-> Row(1 + n \div 4)[1 + (n % 4)] \div 8]
=============================================================================
